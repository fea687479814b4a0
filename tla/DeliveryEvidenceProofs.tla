------------------------ MODULE DeliveryEvidenceProofs ------------------------
(***************************************************************************)
(* The evidence of a delivery, for any number of groups and workers: what  *)
(* is recorded as verified is or was live, and what is completed is        *)
(* verified, however the drives, their takeovers and the recovery on a     *)
(* notification interleave; and that the whole implements Rollout.         *)
(***************************************************************************)
EXTENDS DeliveryProofs, DeliveryRollout

\* A release that is or was live.
Was(r) == rel[r] \in {"live", "superseded", "rolled_back"}

\* No release has a number that was not given out, a drive that is about to
\* build has no release yet, and what a release superseded was live.
Numbered == \A r \in Releases : rel[r] # "absent" => r[2] =< row[r[1]].token
Unbuilt  == \A w \in Workers :
              work[w].at = "building" => rel[<<work[w].g, work[w].k>>] = "absent"
PriorWas == \A r \in Releases : prev[r] # None => Was(prev[r])

\* A drive works on a release of its group, which is live once it is recorded,
\* and verified once that is attested.
Own     == \A w \in Workers : work[w].at \in WithRelease => work[w].r[1] = work[w].g
Shown   == \A w \in Workers : work[w].at \in {"readying", "attesting"} => Was(work[w].r)
Proven  == \A w \in Workers :
             \/ work[w].at = "proving"
             \/ work[w].at = "finalizing" /\ work[w].out = "completed"
             => work[w].g \in verified
OfLive  == \A g \in verified : \E r \in Releases : r[1] = g /\ Was(r)
Ended   == \A g \in Groups : row[g].state = "completed" => g \in verified

Evident == Numbered /\ Unbuilt /\ PriorWas /\ Own /\ Shown /\ Proven /\ OfLive /\ Ended

All == Typed /\ Fenced /\ Evident

LEMMA InitEvident == Init => Evident
<1> SUFFICES ASSUME Init PROVE Evident
  OBVIOUS
<1>1. \A w \in Workers : work[w].at = "idle"
  BY DEF Init, Idle
<1>2. /\ \A r \in Releases : rel[r] = "absent" /\ prev[r] = None
      /\ verified = {} /\ \A g \in Groups : row[g].state = "absent"
  BY DEF Init
<1> QED
  BY <1>1, <1>2 DEF Evident, Numbered, Unbuilt, PriorWas, Own, Shown, Proven, OfLive, Ended,
                    WithRelease

-----------------------------------------------------------------------------
(* What a step does to one worker *)

\* The worker stays, or: it is given a number; it keeps its group and its
\* release, or finds one of its group; it is in one of the four last steps for
\* the reason that Shown and Proven need.
Lawful(w) ==
  \/ work'[w] = work[w]
  \/ /\ work'[w].at = "building" => Claim(w) /\ work'[w].g = work[w].g
                                    /\ work'[w].k = row[work[w].g].token + 1
     /\ work'[w].at \in WithRelease =>
          /\ work'[w].g = work[w].g
          /\ \/ work[w].at \in WithRelease /\ work'[w].r = work[w].r
             \/ work'[w].r[1] = work[w].g
     /\ work'[w].at = "readying" => Record(w) /\ rel[work[w].r] = "preview" /\ work'[w].r = work[w].r
     /\ work'[w].at = "attesting" => work[w].at = "readying" /\ work'[w].r = work[w].r
     /\ work'[w].at = "proving" => Attest(w)
     /\ work'[w].at = "finalizing" /\ work'[w].out = "completed" =>
          work[w].at = "proving" /\ work'[w].g = work[w].g

LEMMA ToFields ==
  ASSUME Typed, NEW w \in Workers, NEW s, NEW x, x = To(w, s)
  PROVE  x.at = s /\ x.g = work[w].g /\ x.k = work[w].k /\ x.r = work[w].r
  BY DEF To, Typed, TypeOK, Work

LEMMA WithFields ==
  ASSUME Typed, NEW w \in Workers, NEW s, NEW r, NEW x, x = With(w, s, r)
  PROVE  x.at = s /\ x.g = work[w].g /\ x.r = r
  BY DEF With, Typed, TypeOK, Work

LEMMA EndingFields ==
  ASSUME Typed, NEW w \in Workers, NEW v, NEW x, x = Ending(w, v)
  PROVE  x.at = "finalizing" /\ x.g = work[w].g /\ x.out = v
  BY DEF Ending, Typed, TypeOK, Work

LEMMA StepLawful ==
  ASSUME Typed, NEW w \in Workers, Step(w) \/ Throw(w) \/ Crash(w)
                  \/ (\E e \in Effects : Refuse(w, e)) \/ (\E g \in Groups : Recover(w, g))
  PROVE  Lawful(w)
<1>b. \A x : Becomes(w, x) => work'[w] = x
  BY DEF Becomes, Typed, TypeOK
<1>o. \A x, y : Beat(w, x, y) => Becomes(w, IF Holds(w) THEN x ELSE y)
  BY DEF Beat
\* The ways a drive goes on.
<1>i. Becomes(w, Idle) => Lawful(w)
  BY <1>b DEF Idle, Lawful, WithRelease
<1>e. ASSUME NEW v, v = "completed" => work[w].at = "proving", Becomes(w, Ending(w, v))
      PROVE  Lawful(w)
  BY <1>b, <1>e, EndingFields DEF Lawful, WithRelease
<1>t. ASSUME NEW s, s \notin {"building", "readying", "attesting", "proving", "finalizing"},
             s \in WithRelease => work[w].at \in WithRelease, Becomes(w, To(w, s))
      PROVE  Lawful(w)
  BY <1>b, <1>t, ToFields DEF Lawful
<1>w. ASSUME NEW s \in {"vetting", "abandoning"}, NEW r, r[1] = work[w].g, Becomes(w, With(w, s, r))
      PROVE  Lawful(w)
  BY <1>b, <1>w, WithFields DEF Lawful, WithRelease
<1>1. CASE Claim(w)
  <2>1. CASE Claimable(work[w].g)
    <3>x. PICK x : x = [work[w] EXCEPT !.at = "building", !.k = row[work[w].g].token + 1]
      OBVIOUS
    <3>1. x.at = "building" /\ x.g = work[w].g /\ x.k = row[work[w].g].token + 1
      BY <3>x DEF Typed, TypeOK, Work
    <3>2. work'[w] = x
      BY <1>1, <1>b, <2>1, <3>x DEF Claim
    <3> QED
      BY <1>1, <3>1, <3>2 DEF Lawful, WithRelease
  <2>2. CASE ~Claimable(work[w].g)
    BY <1>1, <1>i, <2>2 DEF Claim
  <2> QED
    BY <2>1, <2>2
<1>2. CASE Build(w)
  BY <1>2, <1>i, <1>o, <1>t DEF Build, WithRelease
<1>3. CASE Preview(w)
  BY <1>3, <1>e, <1>o, <1>t, <1>w DEF Preview, Reusable, WithRelease
<1>4. CASE FirePreview(w)
  BY <1>4, <1>t DEF FirePreview, WithRelease
<1>5. CASE Persist(w)
  BY <1>5, <1>o, <1>w DEF Persist
<1>6. CASE Vet(w)
  BY <1>6, <1>o, <1>t DEF Vet, WithRelease
<1>7. CASE Reject(w)
  BY <1>7, <1>e DEF Reject
<1>8. CASE Abandon(w)
  BY <1>8, <1>i DEF Abandon
<1>9. CASE Promote(w)
  <2>1. ASSUME NEW p, Becomes(w, [work[w] EXCEPT !.at = "intending_promote", !.prior = p])
        PROVE  Lawful(w)
    <3>x. PICK x : x = [work[w] EXCEPT !.at = "intending_promote", !.prior = p]
      OBVIOUS
    <3>1. x.at = "intending_promote" /\ x.g = work[w].g /\ x.r = work[w].r
      BY <3>x DEF Typed, TypeOK, Work
    <3>2. work'[w] = x /\ work[w].at \in WithRelease
      BY <1>9, <1>b, <2>1, <3>x DEF Promote, WithRelease
    <3> QED
      BY <3>1, <3>2 DEF Lawful
  <2> QED
    BY <1>9, <1>e, <2>1 DEF Promote
<1>10. CASE FirePromote(w)
  BY <1>10, <1>e, <1>t DEF FirePromote, WithRelease
<1>11. CASE Record(w)
  <2>1. ASSUME rel[work[w].r] = "preview"
        PROVE  Lawful(w)
    <3>1. Becomes(w, To(w, "readying")) /\ work[w].at \in WithRelease
      BY <1>11, <2>1 DEF Record, WithRelease
    <3> QED
      BY <1>11, <1>b, <2>1, <3>1, ToFields DEF Lawful
  <2> QED
    BY <1>11, <1>e, <2>1 DEF Record
<1>12. CASE Ready(w)
  <2>1. ASSUME Beat(w, To(w, "attesting"), To(w, "abandoning")), Holds(w)
        PROVE  Lawful(w)
    <3>1. Becomes(w, To(w, "attesting")) /\ work[w].at = "readying"
      BY <1>12, <1>o, <2>1 DEF Ready
    <3> QED
      BY <1>b, <3>1, ToFields DEF Lawful, WithRelease
  <2> QED
    BY <1>12, <1>e, <1>o, <1>t, <2>1 DEF Ready, WithRelease
<1>22. CASE Attest(w)
  <2>1. ASSUME Becomes(w, To(w, "proving"))
        PROVE  Lawful(w)
    BY <1>22, <1>b, <2>1, ToFields DEF Attest, Lawful, WithRelease
  <2> QED
    BY <1>22, <1>e, <2>1 DEF Attest
<1>13. CASE Prove(w)
  BY <1>13, <1>e, <1>t DEF Prove, WithRelease
<1>14. CASE RollBack(w)
  BY <1>14, <1>t DEF RollBack, WithRelease
<1>15. CASE Restore(w)
  BY <1>15, <1>e DEF Restore
<1>16. CASE Finalize(w)
  BY <1>16, <1>i DEF Finalize
<1>17. CASE Throw(w)
  BY <1>17, <1>e DEF Throw
<1>18. CASE Crash(w)
  BY <1>18, <1>i DEF Crash
<1>l. ASSUME NEW e \in Effects, work[w].at \in {Intending(e), Firing(e)}, Becomes(w, Lost(w, e))
      PROVE  Lawful(w)
  BY <1>i, <1>l, <1>t DEF Lost, Effects, Intending, Firing, WithRelease
<1>19. ASSUME NEW e \in Effects, Intend(w, e)
       PROVE  Lawful(w)
  BY <1>19, <1>l, <1>t DEF Intend, Effects, Intending, Firing, WithRelease
<1>20. ASSUME NEW e \in Effects, Refuse(w, e)
       PROVE  Lawful(w)
  BY <1>20, <1>i, <1>l DEF Refuse
<1>21. ASSUME NEW g \in Groups, Recover(w, g)
       PROVE  Lawful(w)
  <2>x. PICK x : x = [Idle EXCEPT !.at = "claiming", !.g = g]
    OBVIOUS
  <2>1. x.at = "claiming"
    BY <2>x DEF Idle
  <2>2. work'[w] = x
    BY <1>21, <1>b, <2>x DEF Recover
  <2> QED
    BY <2>1, <2>2 DEF Lawful, WithRelease
<1> QED
  BY <1>1, <1>2, <1>3, <1>4, <1>5, <1>6, <1>7, <1>8, <1>9, <1>10, <1>11, <1>12, <1>13, <1>14,
     <1>15, <1>16, <1>17, <1>18, <1>19, <1>20, <1>21, <1>22 DEF Step

\* One worker acts at a time.
LEMMA OthersStay ==
  ASSUME Typed, NEW w \in Workers, Step(w) \/ Throw(w) \/ Crash(w)
                  \/ (\E e \in Effects : Refuse(w, e)) \/ (\E g \in Groups : Recover(w, g))
  PROVE  \A v \in Workers \ {w} : work'[v] = work[v]
<1>1. \A x : Becomes(w, x) => \A v \in Workers \ {w} : work'[v] = work[v]
  BY DEF Becomes, Typed, TypeOK
<1>2. \A x, y : Beat(w, x, y) => \A v \in Workers \ {w} : work'[v] = work[v]
  BY <1>1 DEF Beat
<1> QED
  BY <1>1, <1>2
     DEF Step, Claim, Build, Preview, FirePreview, Persist, Vet, Reject, Abandon, Promote,
         FirePromote, Record, Ready, Attest, Prove, RollBack, Restore, Finalize, Throw, Crash,
         Intend, Refuse, Recover

LEMMA NextLawful ==
  ASSUME Typed, [Next]_vars
  PROVE  \A w \in Workers : Lawful(w)
<1>1. ASSUME NEW w \in Workers, Step(w) \/ Throw(w) \/ Crash(w)
                  \/ (\E e \in Effects : Refuse(w, e)) \/ (\E g \in Groups : Recover(w, g))
      PROVE  \A v \in Workers : Lawful(v)
  BY <1>1, OthersStay, StepLawful DEF Lawful
<1>2. UNCHANGED work => \A w \in Workers : Lawful(w)
  BY DEF Lawful
<1> QED
  BY <1>1, <1>2 DEF Next, Lapse, Stall, vars

-----------------------------------------------------------------------------
(* What a step does to the releases, the evidence and the rows *)

\* What was live stays among what was, and only a drive that was about to build
\* makes a release.
Kept  == \A r \in Releases : Was(r) => Was(r)'
Made  == \A r \in Releases :
           rel'[r] # "absent" => \/ rel[r] # "absent"
                                 \/ \E w \in Workers : /\ work[w].at = "building"
                                                       /\ work'[w].at # "building"
                                                       /\ r = <<work[w].g, work[w].k>>
Prior == \A r \in Releases :
           \/ prev'[r] \in {None, prev[r]}
           \/ prev'[r] \in Releases /\ rel[prev'[r]] = "live"

LEMMA ReleasesMove ==
  ASSUME All, [Next]_vars
  PROVE  Kept /\ Made /\ Prior
<1>t. rel \in [Releases -> States] /\ prev \in [Releases -> Releases \cup {None}]
  BY DEF All, Typed, TypeOK
<1>u. UNCHANGED rel => Kept /\ Made
  BY DEF Kept, Made, Was
<1>v. UNCHANGED prev => Prior
  BY DEF Prior
<1>r. \A w \in Workers : work[w].at \in WithRelease => work[w].r \in Releases
  BY DEF All, Typed, Shaped
<1>1. ASSUME NEW w \in Workers, Build(w)
      PROVE  Kept /\ Made
  <2> DEFINE r == <<work[w].g, work[w].k>>
  <2>1. r \in Releases /\ rel[r] = "absent"
    BY <1>1 DEF Build, All, Typed, Shaped, Steps, Evident, Unbuilt, Releases
  <2>2. rel' = [rel EXCEPT ![r] = "built"] /\ work[w].at = "building"
    BY <1>1 DEF Build
  <2>3. work'[w].at # "building"
    <3>1. \A x : Becomes(w, x) => work'[w] = x
      BY DEF Becomes, All, Typed, TypeOK
    <3>2. work'[w] = To(w, "previewing") \/ work'[w] = Idle
      BY <1>1, <3>1 DEF Build, Beat
    <3> QED
      BY <3>2, ToFields, IdleShape DEF All
  <2>4. Kept
    BY <1>t, <2>1, <2>2 DEF Kept, Was
  <2>5. Made
    BY <1>t, <2>1, <2>2, <2>3 DEF Made
  <2> QED
    BY <2>4, <2>5
<1>2. ASSUME NEW w \in Workers, Persist(w)
      PROVE  Kept /\ Made
  BY <1>2, <1>t DEF Persist, Kept, Made, Was
<1>3. ASSUME NEW w \in Workers, Reject(w) \/ Abandon(w)
      PROVE  Kept /\ Made
  BY <1>3, <1>t DEF Reject, Abandon, TearDown, Kept, Made, Was
<1>s. ASSUME NEW q, NEW s \in {"live", "rolled_back"}, rel' = Superseding(q, s),
             q \in Releases => rel[q] # "absent"
      PROVE  Kept /\ Made
  BY <1>s, <1>t DEF Superseding, Kept, Made, Was
<1>4. ASSUME NEW w \in Workers, Record(w)
      PROVE  Kept /\ Made /\ Prior
  <2>1. work[w].r \in Releases
    BY <1>4, <1>r DEF Record, WithRelease
  <2>2. Kept /\ Made
    BY <1>4, <1>s, <1>u DEF Record
  <2>3. ASSUME NEW q, q = None \/ (q \in Releases /\ rel[q] = "live"),
               prev' = [prev EXCEPT ![work[w].r] = q]
        PROVE  Prior
    BY <1>t, <2>1, <2>3 DEF Prior
  <2>4. Prior
    BY <1>4, <1>v, <2>3 DEF Record, SomeOf, Live
  <2> QED
    BY <2>2, <2>4
<1>5. ASSUME NEW w \in Workers, Restore(w)
      PROVE  Kept /\ Made
  <2> DEFINE q == prev[work[w].r]
  <2>1. work[w].r \in Releases
    BY <1>5, <1>r DEF Restore, WithRelease
  <2>2. None \notin Releases
    BY DEF None, Releases
  <2>3. q \in Releases => rel[q] # "absent"
    BY <2>1, <2>2 DEF All, Evident, PriorWas, Was
  <2> QED
    BY <1>5, <1>s, <2>3 DEF Restore
<1>6. ASSUME NEW w \in Workers,
             \/ Claim(w) \/ Preview(w) \/ FirePreview(w) \/ Vet(w) \/ Promote(w)
             \/ FirePromote(w) \/ Ready(w) \/ Attest(w) \/ Prove(w) \/ RollBack(w) \/ Finalize(w)
             \/ Throw(w) \/ Crash(w)
             \/ \E e \in Effects : Intend(w, e) \/ Refuse(w, e)
             \/ \E g \in Groups : Recover(w, g)
      PROVE  UNCHANGED <<rel, prev>>
  BY <1>6 DEF Claim, Preview, FirePreview, Vet, Promote, FirePromote, Ready, Attest, Prove,
       RollBack, Finalize, Throw, Crash, Intend, Refuse, Recover, db
<1>7. ASSUME NEW w \in Workers, Build(w) \/ Persist(w) \/ Reject(w) \/ Abandon(w) \/ Restore(w)
      PROVE  Prior
  BY <1>7, <1>v DEF Build, Persist, Reject, Abandon, Restore
<1>8. ASSUME NEW g \in Groups, Lapse(g) \/ Stall(g)
      PROVE  UNCHANGED <<rel, prev>>
  BY <1>8 DEF Lapse, Stall, db
<1>9. UNCHANGED vars => UNCHANGED <<rel, prev>>
  BY DEF vars
<1> QED
  BY <1>1, <1>2, <1>3, <1>4, <1>5, <1>6, <1>7, <1>8, <1>9, <1>u, <1>v DEF Next, Step

\* Evidence is recorded of a release that is or was live, never taken back, and
\* there after a drive found its release ready.
LEMMA EvidenceMoves ==
  ASSUME All, [Next]_vars
  PROVE  /\ verified \subseteq verified'
         /\ \A g \in verified' \ verified : \E r \in Releases : r[1] = g /\ Was(r)
         /\ \A w \in Workers : Attest(w) /\ work'[w].at = "proving" => work[w].g \in verified'
<1> DEFINE Goal == /\ verified \subseteq verified'
                   /\ \A g \in verified' \ verified : \E r \in Releases : r[1] = g /\ Was(r)
<1>1. ASSUME NEW w \in Workers, NEW g \in Groups, Recover(w, g)
      PROVE  Goal
  BY <1>1 DEF Recover, LiveOf, Was
<1>2. ASSUME NEW w \in Workers, Attest(w)
      PROVE  /\ Goal
             /\ work'[w].at = "proving" => work[w].g \in verified'
  <2>1. work[w].r \in Releases /\ work[w].r[1] = work[w].g /\ Was(work[w].r)
    BY <1>2 DEF Attest, WithRelease, All, Typed, Shaped, Evident, Own, Shown
  <2>2. Goal
    BY <1>2, <2>1 DEF Attest
  <2>3. work'[w].at = "proving" => work[w].g \in verified'
    <3>1. \A x : Becomes(w, x) => work'[w] = x
      BY DEF Becomes, All, Typed, TypeOK
    <3>2. Becomes(w, Ending(w, "needs_attention")) => work'[w].at = "finalizing"
      BY <3>1, EndingFields DEF All
    <3> QED
      BY <1>2, <3>2 DEF Attest
  <2> QED
    BY <2>2, <2>3
<1>3. ASSUME NEW w \in Workers, Step(w) \/ Throw(w) \/ Crash(w) \/ \E e \in Effects : Refuse(w, e),
             ~Attest(w)
      PROVE  UNCHANGED verified
  BY <1>3 DEF Step, Claim, Build, Preview, FirePreview, Persist, Vet, Reject, Abandon, Promote,
         FirePromote, Record, Ready, Prove, RollBack, Restore, Finalize, Throw, Crash, Intend, Refuse,
         db
<1>4. ASSUME NEW g \in Groups, Lapse(g) \/ Stall(g)
      PROVE  UNCHANGED verified
  BY <1>4 DEF Lapse, Stall, db
<1>5. UNCHANGED vars => UNCHANGED verified
  BY DEF vars
<1>6. Goal
  BY <1>1, <1>2, <1>3, <1>4, <1>5 DEF Next
<1> QED
  BY <1>2, <1>6

\* A row is completed by the owner whose verdict that is; numbers only grow.
LEMMA RowsMove ==
  ASSUME All, [Next]_vars
  PROVE  \A g \in Groups :
           /\ row[g].token =< row'[g].token
           /\ row'[g].state = "completed" /\ row[g].state # "completed" =>
                \E w \in Workers : /\ work[w].at = "finalizing" /\ work[w].out = "completed"
                                  /\ work[w].g = g
<1> TAKE g \in Groups
<1>t. row \in [Groups -> Row] /\ row[g] \in Row /\ row[g].token \in Nat
  BY DEF All, Typed, TypeOK, Row
<1>1. row[g].token =< row'[g].token
  <2>1. SameRows => row'[g].token = row[g].token
    BY DEF SameRows, SameRow
  <2>2. ASSUME NEW w \in Workers, AboutEffect(w)
        PROVE  row'[g].token \in {row[g].token, row[g].token + 1}
    BY <2>1, <2>2 DEF AboutEffect, Quiet, Claiming, Planning, Marking, Clearing, Doing
  <2> QED
    BY <1>t, <2>1, <2>2, NextKinds DEF All
<1> DEFINE Same == row'[g].state = row[g].state \/ row'[g].state = "in_progress"
           Done == \E w \in Workers : /\ work[w].at = "finalizing" /\ work[w].out = row'[g].state
                                     /\ work[w].g = g
<1>2. ASSUME NEW w \in Workers, Finalize(w)
      PROVE  Same \/ Done
  BY <1>2, <1>t DEF Finalize, Row
<1>3. ASSUME NEW w \in Workers, Claim(w)
      PROVE  Same
  BY <1>3, <1>t DEF Claim, Row
<1>b. \A w \in Workers : \A x, y : Beat(w, x, y) => Same
  BY <1>t DEF Beat, Row
<1>4. ASSUME NEW w \in Workers, Build(w) \/ Preview(w) \/ Persist(w) \/ Vet(w) \/ Ready(w)
      PROVE  Same
  BY <1>4, <1>b DEF Build, Preview, Persist, Vet, Ready
<1>5. ASSUME NEW w \in Workers, NEW e \in Effects, Intend(w, e) \/ Refuse(w, e)
      PROVE  Same
  BY <1>5, <1>t DEF Intend, Refuse, Row
<1>6. ASSUME NEW h \in Groups, Lapse(h) \/ Stall(h)
      PROVE  Same
  BY <1>6, <1>t DEF Lapse, Stall, Row
<1>7. ASSUME NEW w \in Workers,
             \/ FirePreview(w) \/ Reject(w) \/ Abandon(w) \/ Promote(w) \/ FirePromote(w)
             \/ Record(w) \/ Attest(w) \/ Prove(w) \/ RollBack(w) \/ Restore(w) \/ Throw(w)
             \/ Crash(w)
             \/ \E h \in Groups : Recover(w, h)
      PROVE  Same
  BY <1>7 DEF FirePreview, Reject, Abandon, Promote, FirePromote, Record, Attest, Prove, RollBack,
              Restore, Throw, Crash, Recover
<1>8. UNCHANGED vars => Same
  BY DEF vars
<1>9. Same \/ Done
  BY <1>2, <1>3, <1>4, <1>5, <1>6, <1>7, <1>8 DEF Next, Step
<1> QED
  BY <1>1, <1>9

-----------------------------------------------------------------------------
(* The invariant *)

LEMMA NextEvident ==
  ASSUME All, [Next]_vars
  PROVE  Evident'
<1> USE DEF All
<1>t. Typed' /\ Fenced'
  BY KindTyped, RestTyped, NextFenced DEF Typed, TypeOK
<1>l. \A w \in Workers : Lawful(w)
  BY NextLawful
<1>r. Kept /\ Made /\ Prior
  BY ReleasesMove
<1>v. /\ verified \subseteq verified'
      /\ \A g \in verified' \ verified : \E r \in Releases : r[1] = g /\ Was(r)
  BY EvidenceMoves
<1>k. \A g \in Groups : row[g].token \in Nat /\ row'[g].token \in Nat /\ row[g].token =< row'[g].token
  BY <1>t, RowsMove DEF Typed, TypeOK, Row
<1>b. \A w \in Workers : work[w].at = "building" =>
        /\ work[w].g \in Groups /\ work[w].k \in Claims /\ work[w].k =< row[work[w].g].token
        /\ \A v \in Workers \ {w} : work[v].at = "building" /\ work[v].g = work[w].g
                                     => work[v].k # work[w].k
  BY DEF Typed, Shaped, Steps, Fenced, Claimed, Unique
<1>1. Numbered'
  <2> SUFFICES ASSUME NEW r \in Releases, rel'[r] # "absent"
               PROVE  r[2] =< row'[r[1]].token
    BY DEF Numbered
  <2>1. r[1] \in Groups /\ r[2] \in Nat
    BY DEF Releases, Claims
  <2>2. CASE rel[r] # "absent"
    BY <1>k, <2>1, <2>2 DEF Evident, Numbered
  <2>3. ASSUME NEW w \in Workers, work[w].at = "building", r = <<work[w].g, work[w].k>>
        PROVE  r[2] =< row'[r[1]].token
    BY <1>b, <1>k, <2>1, <2>3
  <2> QED
    BY <1>r, <2>2, <2>3 DEF Made
<1>2. Unbuilt'
  <2> SUFFICES ASSUME NEW w \in Workers, work'[w].at = "building"
               PROVE  rel'[<<work'[w].g, work'[w].k>>] = "absent"
    BY DEF Unbuilt
  <2> DEFINE r == <<work'[w].g, work'[w].k>>
  <2>1. r \in Releases /\ work'[w].g \in Groups /\ work'[w].k \in Nat
    BY <1>t DEF Typed, Shaped, Steps, Releases, Claims
  <2>2. CASE work'[w] = work[w]
    <3>1. rel[r] = "absent"
      BY <2>2 DEF Evident, Unbuilt
    <3>2. ASSUME NEW v \in Workers, work[v].at = "building", work'[v].at # "building",
                 r = <<work[v].g, work[v].k>>
          PROVE  FALSE
      BY <1>b, <2>2, <3>2
    <3> QED
      BY <1>r, <2>1, <3>1, <3>2 DEF Made
  <2>3. CASE work'[w].g = work[w].g /\ work'[w].k = row[work[w].g].token + 1
    <3>1. rel[r] = "absent"
      BY <1>k, <2>1, <2>3 DEF Evident, Numbered
    <3>2. ASSUME NEW v \in Workers, work[v].at = "building", r = <<work[v].g, work[v].k>>
          PROVE  FALSE
      BY <1>b, <1>k, <2>1, <2>3, <3>2
    <3> QED
      BY <1>r, <2>1, <3>1, <3>2 DEF Made
  <2> QED
    BY <1>l, <2>2, <2>3 DEF Lawful
<1>3. PriorWas'
  <2> SUFFICES ASSUME NEW r \in Releases, prev'[r] # None
               PROVE  rel'[prev'[r]] \in {"live", "superseded", "rolled_back"}
    BY DEF PriorWas, Was
  <2>1. prev'[r] \in Releases
    BY <1>t DEF Typed, TypeOK
  <2>2. rel[prev'[r]] \in {"live", "superseded", "rolled_back"}
    BY <1>r DEF Prior, Evident, PriorWas, Was
  <2> QED
    BY <1>r, <2>1, <2>2 DEF Kept, Was
<1>4. Own'
  BY <1>l DEF Own, Evident, Lawful
<1>5. Shown'
  <2> SUFFICES ASSUME NEW w \in Workers, work'[w].at \in {"readying", "attesting"}
               PROVE  rel'[work'[w].r] \in {"live", "superseded", "rolled_back"}
    BY DEF Shown, Was
  <2>1. work'[w].r \in Releases
    BY <1>t DEF Typed, Shaped, WithRelease
  <2>2. CASE work'[w] = work[w]
    BY <1>r, <2>1, <2>2 DEF Evident, Shown, Kept, Was
  <2>3. CASE Record(w) /\ rel[work[w].r] = "preview" /\ work'[w].r = work[w].r
    BY <2>1, <2>3 DEF Record, Superseding, Was
  <2>4. CASE work[w].at = "readying" /\ work'[w].r = work[w].r
    BY <1>r, <2>1, <2>4 DEF Evident, Shown, Kept, Was
  <2> QED
    BY <1>l, <2>2, <2>3, <2>4 DEF Lawful
<1>6. Proven'
  <2> SUFFICES ASSUME NEW w \in Workers,
                      \/ work'[w].at = "proving"
                      \/ work'[w].at = "finalizing" /\ work'[w].out = "completed"
               PROVE  work'[w].g \in verified'
    BY DEF Proven
  <2>1. CASE work'[w] = work[w]
    BY <1>v, <2>1 DEF Evident, Proven
  <2>2. CASE work'[w].at = "proving" /\ Attest(w) /\ work'[w].g = work[w].g
    BY <2>2, EvidenceMoves
  <2>3. CASE work[w].at = "proving" /\ work'[w].g = work[w].g
    BY <1>v, <2>3 DEF Evident, Proven
  <2> QED
    BY <1>l, <2>1, <2>2, <2>3 DEF Lawful, WithRelease
<1>7. OfLive'
  <2> SUFFICES ASSUME NEW g \in verified'
               PROVE  \E r \in Releases : r[1] = g /\ Was(r)'
    BY DEF OfLive
  <2>1. \E r \in Releases : r[1] = g /\ Was(r)
    BY <1>v DEF Evident, OfLive
  <2> QED
    BY <1>r, <2>1 DEF Kept
<1>8. Ended'
  BY <1>v, RowsMove DEF Evident, Ended, Proven
<1> QED
  BY <1>1, <1>2, <1>3, <1>4, <1>5, <1>6, <1>7, <1>8 DEF Evident

\* For any number of groups, workers and faults: the evidence is of a release
\* that is or was live, and what is completed has it (emitGroupDeployVerified,
\* recoverDeployVerified).
THEOREM EvidenceHolds == Spec => []Evidence
<1>1. Typed /\ [Next]_vars => Typed'
  BY KindTyped, RestTyped DEF Typed, TypeOK
<1>2. Typed /\ Fenced /\ [Next]_vars => Fenced'
  BY NextFenced
<1>3. Typed /\ Fenced /\ Evident /\ [Next]_vars => Evident'
  BY NextEvident DEF All
<1>4. Evident => Evidence
  BY DEF Evident, OfLive, Ended, Evidence, Was
<1> QED
  BY <1>1, <1>2, <1>3, <1>4, InitTyped, InitFenced, InitEvident, PTL DEF Spec
-----------------------------------------------------------------------------
(* The refinement of Rollout *)

Past(r)   == rel[r] \in {"superseded", "rolled_back"}
Torn(r)   == rel[r] = "torn_down"
Beyond(r) == rel[r] \notin {"absent", "built"}

\* One release of a group gets beyond its build: the one to which the preview
\* was applied that the provider deployed once.
OneBeyond  == \A r, q \in Releases : r[1] = q[1] /\ Beyond(r) /\ Beyond(q) => r = q
BeyondDone == \A r \in Releases : Beyond(r) => done[r[1]]["preview"] = 1
Applying   == \A w \in Workers : work[w].at = "persisting" =>
                /\ done[work[w].g]["preview"] = 1
                /\ \A r \in Releases : r[1] = work[w].g => ~Beyond(r)
OneApplies == \A w, v \in Workers :
                w # v /\ work[w].at = "persisting" /\ work[v].at = "persisting"
                  => work[w].g # work[v].g

\* A release is recorded as live after its promotion, stays among what was
\* live, and supersedes what is live no more.
Recorded == \A w \in Workers : work[w].at = "recording" => done[work[w].g]["promote"] = 1
Stood    == \A w \in Workers :
              work[w].at \in {"proving", "rolling", "restoring"} => Was(work[w].r)
PriorPast == \A r \in Releases : prev[r] # None => Past(prev[r])
Backed   == \A w \in Workers :
              work[w].at \in {"rolling", "restoring"} => prev[work[w].r] # None

\* A verdict tells what became of the release, also when it is about to be given.
About(w, v) == work[w].at = "finalizing" /\ work[w].out = v
Failed == /\ \A w \in Workers : About(w, "preview_failed") =>
               \E r \in Releases : r[1] = work[w].g /\ Torn(r)
          /\ \A g \in Groups : row[g].state = "preview_failed" =>
               \E r \in Releases : r[1] = g /\ Torn(r)
Rolled == /\ \A w \in Workers : About(w, "rolled_back") =>
               \E r \in Releases : r[1] = work[w].g /\ Past(r)
          /\ \A g \in Groups : row[g].state = "rolled_back" =>
               \E r \in Releases : r[1] = g /\ Past(r)
Begun  == \A g \in Groups : row[g].state = "absent" => row[g].token = 0

Orderly == /\ OneBeyond /\ BeyondDone /\ Applying /\ OneApplies
           /\ Recorded /\ Stood /\ PriorPast /\ Backed /\ Failed /\ Rolled /\ Begun

LEMMA InitOrderly == Init => Orderly
<1> SUFFICES ASSUME Init PROVE Orderly
  OBVIOUS
<1>1. \A w \in Workers : work[w].at = "idle"
  BY DEF Init, Idle
<1>2. /\ \A r \in Releases : rel[r] = "absent" /\ prev[r] = None
      /\ \A g \in Groups : row[g].state = "absent" /\ row[g].token = 0
  BY DEF Init
<1>3. \A r \in Releases : ~Beyond(r)
  BY <1>2 DEF Beyond
<1>4. OneBeyond /\ BeyondDone /\ PriorPast /\ Begun
  BY <1>2, <1>3 DEF OneBeyond, BeyondDone, PriorPast, Begun
<1>5. Applying /\ OneApplies /\ Recorded /\ Stood /\ Backed
  BY <1>1 DEF Applying, OneApplies, Recorded, Stood, Backed
<1>6. Failed /\ Rolled
  BY <1>1, <1>2 DEF Failed, Rolled, About
<1> QED
  BY <1>4, <1>5, <1>6 DEF Orderly

-----------------------------------------------------------------------------
(* What a step does to one worker, again *)

\* How a worker gets to the steps that Orderly is about.
Arrives(w) ==
  \/ work'[w] = work[w]
  \/ /\ work'[w].at = "persisting" => FirePreview(w) /\ work'[w].g = work[w].g
     /\ work'[w].at = "recording" =>
          FirePromote(w) /\ work'[w].g = work[w].g /\ work[w].r \notin gone
     /\ work'[w].at \in {"proving", "rolling", "restoring"} =>
          /\ work[w].at \in {"attesting", "proving", "rolling"}
          /\ work'[w].r = work[w].r
          /\ work'[w].at = "rolling" => prev[work[w].r] # None
          /\ work'[w].at = "restoring" => work[w].at = "rolling"
     /\ work'[w].at = "finalizing" /\ work'[w].out = "preview_failed" =>
          Reject(w) /\ work'[w].g = work[w].g /\ rel[work[w].r] \in {"preview", "torn_down"}
     /\ work'[w].at = "finalizing" /\ work'[w].out = "rolled_back" =>
          Restore(w) /\ work'[w].g = work[w].g

LEMMA StepArrives ==
  ASSUME Typed, NEW w \in Workers, Step(w) \/ Throw(w) \/ Crash(w)
                  \/ (\E e \in Effects : Refuse(w, e)) \/ (\E g \in Groups : Recover(w, g))
  PROVE  Arrives(w)
<1>b. \A x : Becomes(w, x) => work'[w] = x
  BY DEF Becomes, Typed, TypeOK
<1>o. \A x, y : Beat(w, x, y) => Becomes(w, IF Holds(w) THEN x ELSE y)
  BY DEF Beat
<1> DEFINE Watched == {"persisting", "recording", "proving", "rolling", "restoring", "finalizing"}
<1>i. Becomes(w, Idle) => Arrives(w)
  BY <1>b DEF Idle, Arrives
<1>e. ASSUME NEW v \in {"completed", "needs_attention"}, Becomes(w, Ending(w, v))
      PROVE  Arrives(w)
  BY <1>b, <1>e, EndingFields DEF Arrives
<1>t. ASSUME NEW s, s \notin Watched, Becomes(w, To(w, s))
      PROVE  Arrives(w)
  BY <1>b, <1>t, ToFields DEF Arrives
<1>w. ASSUME NEW s \in {"vetting", "abandoning"}, NEW r, Becomes(w, With(w, s, r))
      PROVE  Arrives(w)
  BY <1>b, <1>w, WithFields DEF Arrives
<1>1. CASE Claim(w)
  <2>1. CASE Claimable(work[w].g)
    <3>x. PICK x : x = [work[w] EXCEPT !.at = "building", !.k = row[work[w].g].token + 1]
      OBVIOUS
    <3>1. x.at = "building"
      BY <3>x DEF Typed, TypeOK, Work
    <3>2. work'[w] = x
      BY <1>1, <1>b, <2>1, <3>x DEF Claim
    <3> QED
      BY <3>1, <3>2 DEF Arrives
  <2>2. CASE ~Claimable(work[w].g)
    BY <1>1, <1>i, <2>2 DEF Claim
  <2> QED
    BY <2>1, <2>2
<1>2. CASE Build(w)
  BY <1>2, <1>i, <1>o, <1>t DEF Build
<1>3. CASE Preview(w)
  BY <1>3, <1>e, <1>o, <1>t, <1>w DEF Preview
<1>4. CASE FirePreview(w)
  BY <1>4, <1>b, ToFields DEF FirePreview, Arrives
<1>5. CASE Persist(w)
  BY <1>5, <1>o, <1>w DEF Persist
<1>6. CASE Vet(w)
  BY <1>6, <1>o, <1>t DEF Vet
<1>7. CASE Reject(w)
  BY <1>7, <1>b, EndingFields DEF Reject, Arrives
<1>8. CASE Abandon(w)
  BY <1>8, <1>i DEF Abandon
<1>9. CASE Promote(w)
  <2>1. ASSUME NEW p, Becomes(w, [work[w] EXCEPT !.at = "intending_promote", !.prior = p])
        PROVE  Arrives(w)
    <3>x. PICK x : x = [work[w] EXCEPT !.at = "intending_promote", !.prior = p]
      OBVIOUS
    <3>1. x.at = "intending_promote"
      BY <3>x DEF Typed, TypeOK, Work
    <3>2. work'[w] = x
      BY <1>b, <2>1, <3>x
    <3> QED
      BY <3>1, <3>2 DEF Arrives
  <2> QED
    BY <1>9, <1>e, <2>1 DEF Promote
<1>10. CASE FirePromote(w)
  <2>1. CASE work[w].r \in gone
    BY <1>10, <1>e, <2>1 DEF FirePromote
  <2>2. CASE work[w].r \notin gone
    BY <1>10, <1>b, <2>2, ToFields DEF FirePromote, Arrives
  <2> QED
    BY <2>1, <2>2
<1>11. CASE Record(w)
  BY <1>11, <1>e, <1>t DEF Record
<1>12. CASE Ready(w)
  BY <1>12, <1>e, <1>o, <1>t DEF Ready
<1>22. CASE Attest(w)
  <2>1. CASE Becomes(w, To(w, "proving"))
    BY <1>22, <1>b, <2>1, ToFields DEF Attest, Arrives
  <2> QED
    BY <1>22, <1>e, <2>1 DEF Attest
<1>13. CASE Prove(w)
  <2>1. CASE prev[work[w].r] # None /\ Becomes(w, To(w, "rolling"))
    BY <1>13, <1>b, <2>1, ToFields DEF Prove, Arrives
  <2> QED
    BY <1>13, <1>e, <2>1 DEF Prove
<1>14. CASE RollBack(w)
  BY <1>14, <1>b, ToFields DEF RollBack, Arrives
<1>15. CASE Restore(w)
  BY <1>15, <1>b, EndingFields DEF Restore, Arrives
<1>16. CASE Finalize(w)
  BY <1>16, <1>i DEF Finalize
<1>17. CASE Throw(w)
  BY <1>17, <1>e DEF Throw
<1>18. CASE Crash(w)
  BY <1>18, <1>i DEF Crash
<1>l. ASSUME NEW e \in Effects, Becomes(w, Lost(w, e))
      PROVE  Arrives(w)
  BY <1>i, <1>l, <1>t DEF Lost, Effects
<1>19. ASSUME NEW e \in Effects, Intend(w, e)
       PROVE  Arrives(w)
  BY <1>19, <1>l, <1>t DEF Intend, Effects, Firing
<1>20. ASSUME NEW e \in Effects, Refuse(w, e)
       PROVE  Arrives(w)
  BY <1>20, <1>i, <1>l DEF Refuse
<1>21. ASSUME NEW g \in Groups, Recover(w, g)
       PROVE  Arrives(w)
  <2>x. PICK x : x = [Idle EXCEPT !.at = "claiming", !.g = g]
    OBVIOUS
  <2>1. x.at = "claiming"
    BY <2>x DEF Idle
  <2>2. work'[w] = x
    BY <1>21, <1>b, <2>x DEF Recover
  <2> QED
    BY <2>1, <2>2 DEF Arrives
<1> QED
  BY <1>1, <1>2, <1>3, <1>4, <1>5, <1>6, <1>7, <1>8, <1>9, <1>10, <1>11, <1>12, <1>13, <1>14,
     <1>15, <1>16, <1>17, <1>18, <1>19, <1>20, <1>21, <1>22 DEF Step

LEMMA NextArrives ==
  ASSUME Typed, [Next]_vars
  PROVE  \A w \in Workers : Arrives(w)
<1>1. ASSUME NEW w \in Workers, Step(w) \/ Throw(w) \/ Crash(w)
                  \/ (\E e \in Effects : Refuse(w, e)) \/ (\E g \in Groups : Recover(w, g))
      PROVE  \A v \in Workers : Arrives(v)
  BY <1>1, OthersStay, StepArrives DEF Arrives
<1>2. UNCHANGED work => \A w \in Workers : Arrives(w)
  BY DEF Arrives
<1> QED
  BY <1>1, <1>2 DEF Next, Lapse, Stall, vars
-----------------------------------------------------------------------------
(* What a step does to what is beyond its build, and to the effects *)

\* What w applies is a build of its group.
Applies(w, r) ==
  /\ Persist(w) /\ r \in Releases /\ r[1] = work[w].g /\ rel[r] = "built"
  /\ rel' = [rel EXCEPT ![r] = "preview"]

\* Nothing gets beyond its build but what is applied; what was live and is not
\* stays so, and what is torn down too; and no build is undone.
Advances == \A q \in Releases :
  /\ Past(q) => Past(q)'
  /\ Torn(q) => Torn(q)'
  /\ rel[q] # "absent" => rel'[q] # "absent"
  /\ Beyond(q)' => Beyond(q) \/ \E w \in Workers : Applies(w, q)

\* Only what is applied is applied.
AppliesOne ==
  \A w \in Workers, r \in Releases :
    Applies(w, r) => \A q \in Releases \ {r} : rel'[q] = rel[q]

LEMMA ReleasesAdvance ==
  ASSUME All, Orderly, [Next]_vars
  PROVE  Advances
<1>t. rel \in [Releases -> States]
  BY DEF All, Typed, TypeOK
<1>u. UNCHANGED rel => Advances
  BY DEF Advances, Past, Torn, Beyond
<1>1. ASSUME NEW w \in Workers, Build(w)
      PROVE  Advances
  <2>1. rel[<<work[w].g, work[w].k>>] = "absent"
    BY <1>1 DEF Build, All, Evident, Unbuilt
  <2> QED
    BY <1>1, <1>t, <2>1 DEF Build, Advances, Past, Torn, Beyond
<1>2. ASSUME NEW w \in Workers, Persist(w)
      PROVE  Advances
  <2>1. PICK r \in Releases : /\ r[1] = work[w].g /\ rel[r] = "built"
                              /\ rel' = [rel EXCEPT ![r] = "preview"]
    BY <1>2 DEF Persist
  <2>2. Applies(w, r)
    BY <1>2, <2>1 DEF Applies
  <2> QED
    BY <1>t, <2>1, <2>2 DEF Advances, Past, Torn, Beyond
<1>3. ASSUME NEW w \in Workers, Reject(w) \/ Abandon(w)
      PROVE  Advances
  BY <1>3, <1>t DEF Reject, Abandon, TearDown, Advances, Past, Torn, Beyond
<1>4. ASSUME NEW w \in Workers, Record(w)
      PROVE  Advances
  BY <1>4, <1>t, <1>u DEF Record, Superseding, Advances, Past, Torn, Beyond
<1>5. ASSUME NEW w \in Workers, Restore(w)
      PROVE  Advances
  <2> DEFINE q == prev[work[w].r]
  <2>1. work[w].r \in Releases
    BY <1>5 DEF Restore, All, Typed, Shaped, WithRelease
  <2>2. q \in Releases => Past(q)
    <3>1. None \notin Releases
      BY DEF None, Releases
    <3> QED
      BY <2>1, <3>1 DEF Orderly, PriorPast
  <2>3. rel' = Superseding(q, "rolled_back")
    BY <1>5 DEF Restore
  <2> HIDE DEF q
  <2> QED
    BY <1>t, <2>2, <2>3 DEF Superseding, Advances, Past, Torn, Beyond
<1>6. ASSUME NEW w \in Workers,
             \/ Claim(w) \/ Preview(w) \/ FirePreview(w) \/ Vet(w) \/ Promote(w)
             \/ FirePromote(w) \/ Ready(w) \/ Attest(w) \/ Prove(w) \/ RollBack(w) \/ Finalize(w)
             \/ Throw(w) \/ Crash(w)
             \/ \E e \in Effects : Intend(w, e) \/ Refuse(w, e)
             \/ \E g \in Groups : Recover(w, g)
      PROVE  UNCHANGED rel
  BY <1>6 DEF Claim, Preview, FirePreview, Vet, Promote, FirePromote, Ready, Attest, Prove,
       RollBack, Finalize, Throw, Crash, Intend, Refuse, Recover, db
<1>7. ASSUME NEW g \in Groups, Lapse(g) \/ Stall(g)
      PROVE  UNCHANGED rel
  BY <1>7 DEF Lapse, Stall, db
<1>8. UNCHANGED vars => UNCHANGED rel
  BY DEF vars
<1> QED
  BY <1>1, <1>2, <1>3, <1>4, <1>5, <1>6, <1>7, <1>8, <1>u DEF Next, Step

LEMMA AppliesIsOne == Typed => AppliesOne
  BY DEF AppliesOne, Applies, Typed, TypeOK

\* An effect that is about to be had was not had before.
LEMMA FireOnce ==
  ASSUME All, NEW w \in Workers
  PROVE  /\ FirePreview(w) => work[w].g \in Groups /\ done[work[w].g]["preview"] = 0
         /\ FirePromote(w) => work[w].g \in Groups /\ done[work[w].g]["promote"] = 0
<1>1. FirePreview(w) => work[w].at = Firing("preview")
  BY DEF FirePreview, Firing
<1>2. FirePromote(w) => work[w].at = Firing("promote")
  BY DEF FirePromote, Firing
<1>3. \A e \in Effects : work[w].at = Firing(e) => work[w].g \in Groups /\ done[work[w].g][e] = 0
  BY EffectSteps, DriveFacts DEF All, Fenced, Announced
<1> QED
  BY <1>1, <1>2, <1>3 DEF Effects

LEMMA DoneStays ==
  ASSUME All, [Next]_vars
  PROVE  \A g \in Groups, e \in Effects : done[g][e] = 1 => done'[g][e] = 1
<1> DEFINE Goal == \A g \in Groups, e \in Effects : done[g][e] = 1 => done'[g][e] = 1
<1>t. done \in [Groups -> [Effects -> Nat]]
  BY DEF All, Typed, TypeOK
<1>f. ASSUME NEW g \in Groups, NEW e \in Effects, done[g][e] = 0, NEW x,
             done' = [done EXCEPT ![g] = [done[g] EXCEPT ![e] = x]]
      PROVE  Goal
  BY <1>t, <1>f
<1>1. ASSUME NEW w \in Workers, FirePreview(w) \/ (FirePromote(w) /\ work[w].r \notin gone)
      PROVE  Goal
  BY <1>1, <1>f, FireOnce DEF FirePreview, FirePromote, Effects
<1>2. ASSUME NEW w \in Workers, FirePromote(w), work[w].r \in gone
      PROVE  UNCHANGED done
  BY <1>2 DEF FirePromote
<1>3. ASSUME NEW w \in Workers,
             \/ Claim(w) \/ Build(w) \/ Preview(w) \/ Persist(w) \/ Vet(w) \/ Reject(w) \/ Abandon(w)
             \/ Promote(w) \/ Record(w) \/ Ready(w) \/ Attest(w) \/ Prove(w) \/ RollBack(w)
             \/ Restore(w) \/ Finalize(w) \/ Throw(w) \/ Crash(w)
             \/ \E e \in Effects : Intend(w, e) \/ Refuse(w, e)
             \/ \E g \in Groups : Recover(w, g)
      PROVE  UNCHANGED done
  BY <1>3 DEF Claim, Build, Preview, Persist, Vet, Reject, Abandon, Promote, Record, Ready, Attest,
       Prove, RollBack, Restore, Finalize, Throw, Crash, Intend, Refuse, Recover, provider
<1>4. ASSUME NEW g \in Groups, Lapse(g) \/ Stall(g)
      PROVE  UNCHANGED done
  BY <1>4 DEF Lapse, Stall, provider
<1>5. UNCHANGED vars => UNCHANGED done
  BY DEF vars
<1> QED
  BY <1>1, <1>2, <1>3, <1>4, <1>5 DEF Next, Step

\* A row stays, is claimed, or gets the verdict of its owner.
RowGoes(g) ==
  \/ row'[g].state = row[g].state /\ row'[g].token = row[g].token
  \/ row'[g].state = "in_progress"
  \/ /\ row'[g].token = row[g].token
     /\ \E w \in Workers : /\ Finalize(w) /\ work[w].g = g
                           /\ row'[g].state = work[w].out

LEMMA RowsGo ==
  ASSUME All, [Next]_vars
  PROVE  \A g \in Groups : RowGoes(g)
<1> TAKE g \in Groups
<1>t. row \in [Groups -> Row] /\ row[g] \in Row
  BY DEF All, Typed, TypeOK
<1> DEFINE Same == \/ row'[g].state = row[g].state /\ row'[g].token = row[g].token
                   \/ row'[g].state = "in_progress"
<1>2. ASSUME NEW w \in Workers, Finalize(w)
      PROVE  RowGoes(g)
  BY <1>2, <1>t DEF Finalize, Row, RowGoes
<1>3. ASSUME NEW w \in Workers, Claim(w)
      PROVE  Same
  BY <1>3, <1>t DEF Claim, Row
<1>b. \A w \in Workers : \A x, y : Beat(w, x, y) => Same
  BY <1>t DEF Beat, Row
<1>4. ASSUME NEW w \in Workers, Build(w) \/ Preview(w) \/ Persist(w) \/ Vet(w) \/ Ready(w)
      PROVE  Same
  BY <1>4, <1>b DEF Build, Preview, Persist, Vet, Ready
<1>5. ASSUME NEW w \in Workers, NEW e \in Effects, Intend(w, e) \/ Refuse(w, e)
      PROVE  Same
  BY <1>5, <1>t DEF Intend, Refuse, Row
<1>6. ASSUME NEW h \in Groups, Lapse(h) \/ Stall(h)
      PROVE  Same
  BY <1>6, <1>t DEF Lapse, Stall, Row
<1>7. ASSUME NEW w \in Workers,
             \/ FirePreview(w) \/ Reject(w) \/ Abandon(w) \/ Promote(w) \/ FirePromote(w)
             \/ Record(w) \/ Attest(w) \/ Prove(w) \/ RollBack(w) \/ Restore(w) \/ Throw(w)
             \/ Crash(w)
             \/ \E h \in Groups : Recover(w, h)
      PROVE  Same
  BY <1>7 DEF FirePreview, Reject, Abandon, Promote, FirePromote, Record, Attest, Prove, RollBack,
              Restore, Throw, Crash, Recover
<1>8. UNCHANGED vars => Same
  BY DEF vars
<1>9. Same => RowGoes(g)
  BY DEF RowGoes
<1> HIDE DEF Same
<1> QED
  BY <1>2, <1>3, <1>4, <1>5, <1>6, <1>7, <1>8, <1>9 DEF Next, Step
LEMMA NextOrderly ==
  ASSUME All, Orderly, [Next]_vars
  PROVE  Orderly'
<1>1. Typed /\ Typed'
  BY KindTyped, RestTyped DEF All, Typed, TypeOK
<1>2. \A w \in Workers : Arrives(w)
  BY <1>1, NextArrives
<1>3. Advances /\ Kept /\ Prior
  BY ReleasesAdvance, ReleasesMove
<1>4. AppliesOne
  BY <1>1, AppliesIsOne
<1>5. \A g \in Groups, e \in Effects : done[g][e] = 1 => done'[g][e] = 1
  BY DoneStays
<1>6. \A g \in Groups : RowGoes(g)
  BY RowsGo
<1>7. "preview" \in Effects /\ "promote" \in Effects
  BY DEF Effects
<1>8. \A w \in Workers :
        /\ work[w].at \in {"persisting", "recording", "rejecting", "rolling", "restoring"} => work[w].g \in Groups
        /\ work[w].at \in WithRelease => work[w].r \in Releases /\ work[w].r[1] = work[w].g
  BY <1>1 DEF Typed, Shaped, Steps, All, Evident, Own
<1>9. \A r \in Releases : r[1] \in Groups
  BY DEF Releases
<1>10. \A w \in Workers, r \in Releases : Applies(w, r) =>
        /\ work[w].at = "persisting" /\ done[work[w].g]["preview"] = 1
        /\ \A q \in Releases : q[1] = r[1] => ~Beyond(q)
  BY DEF Applies, Persist, Orderly, Applying
<1>11. OneBeyond'
  <2> SUFFICES ASSUME NEW r \in Releases, NEW q \in Releases, r[1] = q[1], Beyond(r)', Beyond(q)'
               PROVE  r = q
    BY DEF OneBeyond
  <2>1. CASE Beyond(r) /\ Beyond(q)
    BY <2>1 DEF Orderly, OneBeyond
  <2>2. ASSUME NEW w \in Workers, NEW x \in {r, q}, Applies(w, x)
        PROVE  r = q
    <3>1. \A y \in Releases \ {x} : y[1] = x[1] => ~Beyond(y)'
      BY <1>4, <1>10, <2>2 DEF AppliesOne, Beyond
    <3> QED
      BY <3>1
  <2> QED
    BY <1>3, <2>1, <2>2 DEF Advances
<1>12. BeyondDone'
  <2> SUFFICES ASSUME NEW r \in Releases, Beyond(r)'
               PROVE  done'[r[1]]["preview"] = 1
    BY DEF BeyondDone
  <2>1. CASE Beyond(r)
    BY <1>5, <1>7, <1>9, <2>1 DEF Orderly, BeyondDone
  <2>2. ASSUME NEW w \in Workers, Applies(w, r)
        PROVE  done'[r[1]]["preview"] = 1
    BY <1>5, <1>7, <1>9, <1>10, <2>2 DEF Applies
  <2> QED
    BY <1>3, <2>1, <2>2 DEF Advances
<1>13. ASSUME NEW w \in Workers, FirePreview(w)
      PROVE  /\ work[w].g \in Groups /\ done[work[w].g]["preview"] = 0
             /\ done'[work[w].g]["preview"] = 1
             /\ UNCHANGED rel /\ \A v \in Workers \ {w} : work'[v] = work[v]
  <2>1. work[w].g \in Groups /\ done[work[w].g]["preview"] = 0
    BY <1>13, FireOnce
  <2>2. \A v \in Workers \ {w} : work'[v] = work[v]
    BY <1>13, <1>1 DEF FirePreview, Becomes, Typed, TypeOK
  <2>3. done'[work[w].g]["preview"] = 1
    BY <1>13, <1>1, <1>7, <2>1 DEF FirePreview, Typed, TypeOK
  <2> QED
    BY <1>13, <2>1, <2>2, <2>3 DEF FirePreview, db
<1>14. Applying'
  <2> SUFFICES ASSUME NEW w \in Workers, work'[w].at = "persisting"
               PROVE  /\ done'[work'[w].g]["preview"] = 1
                      /\ \A r \in Releases : r[1] = work'[w].g => ~Beyond(r)'
    BY DEF Applying
  <2>1. CASE work'[w] = work[w]
    <3>1. done'[work'[w].g]["preview"] = 1
      BY <1>5, <1>7, <1>8, <2>1 DEF Orderly, Applying
    <3>2. ASSUME NEW r \in Releases, r[1] = work[w].g, NEW v \in Workers, Applies(v, r)
          PROVE  FALSE
      <4>1. v # w
        <5>1. w = v => work'[w].at \in {"vetting", "abandoning"}
          <6>1. \A x : Becomes(v, x) => work'[v] = x
            BY <1>1 DEF Becomes, Typed, TypeOK
          <6> QED
            BY <1>1, <3>2, <6>1, WithFields DEF Applies, Persist, Beat
        <5> QED
          BY <5>1
      <4> QED
        BY <1>10, <2>1, <3>2, <4>1 DEF Orderly, OneApplies, Applies
    <3>3. \A r \in Releases : r[1] = work[w].g => ~Beyond(r)'
      BY <1>3, <2>1, <3>2 DEF Orderly, Applying, Advances
    <3> QED
      BY <2>1, <3>1, <3>3
  <2>2. CASE FirePreview(w) /\ work'[w].g = work[w].g
    <3>1. \A r \in Releases : r[1] = work[w].g => ~Beyond(r)
      BY <1>13, <2>2 DEF Orderly, BeyondDone
    <3> QED
      BY <1>13, <2>2, <3>1 DEF Beyond
  <2> QED
    BY <1>2, <2>1, <2>2 DEF Arrives
<1>15. OneApplies'
  <2>1. ASSUME NEW w \in Workers, FirePreview(w), NEW v \in Workers \ {w}, work'[v].at = "persisting"
        PROVE  work'[v].g # work[w].g
    BY <1>13, <2>1 DEF Orderly, Applying
  <2> SUFFICES ASSUME NEW w \in Workers, NEW v \in Workers, w # v,
                      work'[w].at = "persisting", work'[v].at = "persisting"
               PROVE  work'[w].g # work'[v].g
    BY DEF OneApplies
  <2>2. CASE work'[w] = work[w] /\ work'[v] = work[v]
    BY <2>2 DEF Orderly, OneApplies
  <2>3. CASE FirePreview(w) /\ work'[w].g = work[w].g
    BY <2>1, <2>3
  <2>4. CASE FirePreview(v) /\ work'[v].g = work[v].g
    BY <2>1, <2>4
  <2> QED
    BY <1>2, <2>2, <2>3, <2>4 DEF Arrives
<1>16. Recorded'
  <2> SUFFICES ASSUME NEW w \in Workers, work'[w].at = "recording"
               PROVE  done'[work'[w].g]["promote"] = 1
    BY DEF Recorded
  <2>1. CASE work'[w] = work[w]
    BY <1>5, <1>7, <1>8, <2>1 DEF Orderly, Recorded
  <2>2. CASE FirePromote(w) /\ work'[w].g = work[w].g /\ work[w].r \notin gone
    <3>1. work[w].g \in Groups /\ done[work[w].g]["promote"] = 0
      BY <2>2, FireOnce
    <3> QED
      BY <1>1, <1>7, <2>2, <3>1 DEF FirePromote, Typed, TypeOK
  <2> QED
    BY <1>2, <2>1, <2>2 DEF Arrives
<1>17. Stood'
  <2> SUFFICES ASSUME NEW w \in Workers, work'[w].at \in {"proving", "rolling", "restoring"}
               PROVE  rel'[work'[w].r] \in {"live", "superseded", "rolled_back"}
    BY DEF Stood, Was
  <2>1. /\ work[w].at \in {"attesting", "proving", "rolling", "restoring"}
        /\ work'[w].r = work[w].r
    BY <1>2 DEF Arrives
  <2>2. Was(work[w].r) /\ work[w].r \in Releases
    BY <1>8, <2>1 DEF Orderly, Stood, All, Evident, Shown, WithRelease
  <2> QED
    BY <1>3, <2>1, <2>2 DEF Kept, Was
<1>18. PriorPast'
  <2> SUFFICES ASSUME NEW r \in Releases, prev'[r] # None
               PROVE  rel'[prev'[r]] \in {"superseded", "rolled_back"}
    BY DEF PriorPast, Past
  <2>1. CASE prev'[r] = prev[r]
    <3>1. prev[r] \in Releases /\ Past(prev[r])
      BY <1>1, <2>1 DEF Typed, TypeOK, Orderly, PriorPast
    <3> QED
      BY <1>3, <2>1, <3>1 DEF Advances, Past
  <2>2. CASE prev'[r] # prev[r]
    <3>1. PICK w \in Workers : Record(w)
      BY <2>2 DEF Next, Step, Claim, Build, Preview, FirePreview, Persist, Vet, Reject, Abandon,
           Promote, FirePromote, Ready, Attest, Prove, RollBack, Restore, Finalize, Throw, Crash,
           Intend, Refuse, Recover, Lapse, Stall, db, vars
    <3>2. rel[work[w].r] = "preview" /\ rel' = Superseding(work[w].r, "live")
      BY <2>2, <3>1 DEF Record
    <3>3. prev'[r] \in Releases /\ rel[prev'[r]] = "live"
      BY <1>3, <2>2 DEF Prior
    <3> QED
      BY <3>2, <3>3 DEF Superseding
  <2> QED
    BY <2>1, <2>2
<1>19. Backed'
  <2> SUFFICES ASSUME NEW w \in Workers, work'[w].at \in {"rolling", "restoring"}
               PROVE  prev'[work'[w].r] # None
    BY DEF Backed
  <2>1. /\ work[w].at \in {"attesting", "proving", "rolling", "restoring"}
        /\ work'[w].r = work[w].r /\ prev[work[w].r] # None
    BY <1>2 DEF Arrives, Orderly, Backed
  <2>2. work[w].r \in Releases /\ Was(work[w].r)
    BY <1>8, <2>1 DEF Orderly, Stood, All, Evident, Shown, WithRelease
  <2>3. ASSUME NEW v \in Workers, Record(v)
        PROVE  prev'[work[w].r] = prev[work[w].r]
    BY <1>1, <2>2, <2>3 DEF Record, Was, Typed, TypeOK
  <2>4. (\A v \in Workers : ~Record(v)) => UNCHANGED prev
    BY DEF Next, Step, Claim, Build, Preview, FirePreview, Persist, Vet, Reject, Abandon,
           Promote, FirePromote, Ready, Attest, Prove, RollBack, Restore, Finalize, Throw, Crash,
           Intend, Refuse, Recover, Lapse, Stall, db, vars
  <2> QED
    BY <2>1, <2>3, <2>4
<1>20. Failed'
  <2>1. ASSUME NEW g, \E r \in Releases : r[1] = g /\ Torn(r)
        PROVE  \E r \in Releases : r[1] = g /\ Torn(r)'
    BY <1>3, <2>1 DEF Advances
  <2>2. ASSUME NEW w \in Workers, Reject(w), rel[work[w].r] \in {"preview", "torn_down"}
        PROVE  \E r \in Releases : r[1] = work[w].g /\ Torn(r)'
    <3>1. work[w].r \in Releases /\ work[w].r[1] = work[w].g
      BY <1>8, <2>2 DEF Reject, WithRelease
    <3>2. rel'[work[w].r] = "torn_down"
      BY <1>1, <2>2, <3>1 DEF Reject, TearDown, Typed, TypeOK
    <3> QED
      BY <3>1, <3>2 DEF Torn
  <2>3. ASSUME NEW w \in Workers, About(w, "preview_failed")'
        PROVE  \E r \in Releases : r[1] = work'[w].g /\ Torn(r)'
    <3>1. CASE work'[w] = work[w]
      BY <2>1, <2>3, <3>1 DEF About, Orderly, Failed
    <3>2. CASE Reject(w) /\ work'[w].g = work[w].g /\ rel[work[w].r] \in {"preview", "torn_down"}
      BY <2>2, <3>2
    <3> QED
      BY <1>2, <2>3, <3>1, <3>2 DEF Arrives, About
  <2>4. ASSUME NEW g \in Groups, row'[g].state = "preview_failed"
        PROVE  \E r \in Releases : r[1] = g /\ Torn(r)'
    <3>1. CASE row'[g].state = row[g].state
      BY <2>1, <2>4, <3>1 DEF Orderly, Failed
    <3>2. ASSUME NEW w \in Workers, Finalize(w), work[w].g = g, row'[g].state = work[w].out
          PROVE  \E r \in Releases : r[1] = g /\ Torn(r)
      BY <2>4, <3>2 DEF Finalize, About, Orderly, Failed
    <3> QED
      BY <1>6, <2>1, <2>4, <3>1, <3>2 DEF RowGoes
  <2> QED
    BY <2>3, <2>4 DEF Failed
<1>21. Rolled'
  <2>1. ASSUME NEW g, \E r \in Releases : r[1] = g /\ Past(r)
        PROVE  \E r \in Releases : r[1] = g /\ Past(r)'
    BY <1>3, <2>1 DEF Advances
  <2>2. ASSUME NEW w \in Workers, Restore(w)
        PROVE  \E r \in Releases : r[1] = work[w].g /\ Past(r)'
    <3>1. PICK r \in Releases : r = work[w].r /\ r[1] = work[w].g /\ Was(r)
      BY <1>8, <2>2 DEF Restore, WithRelease, Orderly, Stood
    <3>2. Past(r)'
      BY <2>2, <3>1 DEF Restore, Superseding, Was, Past
    <3> QED
      BY <3>1, <3>2
  <2>3. ASSUME NEW w \in Workers, About(w, "rolled_back")'
        PROVE  \E r \in Releases : r[1] = work'[w].g /\ Past(r)'
    <3>1. CASE work'[w] = work[w]
      BY <2>1, <2>3, <3>1 DEF About, Orderly, Rolled
    <3>2. CASE Restore(w) /\ work'[w].g = work[w].g
      BY <2>2, <3>2
    <3> QED
      BY <1>2, <2>3, <3>1, <3>2 DEF Arrives, About
  <2>4. ASSUME NEW g \in Groups, row'[g].state = "rolled_back"
        PROVE  \E r \in Releases : r[1] = g /\ Past(r)'
    <3>1. CASE row'[g].state = row[g].state
      BY <2>1, <2>4, <3>1 DEF Orderly, Rolled
    <3>2. ASSUME NEW w \in Workers, Finalize(w), work[w].g = g, row'[g].state = work[w].out
          PROVE  \E r \in Releases : r[1] = g /\ Past(r)
      BY <2>4, <3>2 DEF Finalize, About, Orderly, Rolled
    <3> QED
      BY <1>6, <2>1, <2>4, <3>1, <3>2 DEF RowGoes
  <2> QED
    BY <2>3, <2>4 DEF Rolled
<1>22. Begun'
  <2> SUFFICES ASSUME NEW g \in Groups, row'[g].state = "absent"
               PROVE  row'[g].token = 0
    BY DEF Begun
  <2>1. ~\E w \in Workers : Finalize(w) /\ row'[g].state = work[w].out
    BY <1>1 DEF Finalize, Typed, Shaped, Verdicts
  <2>2. row'[g].state = row[g].state /\ row'[g].token = row[g].token
    BY <1>6, <2>1 DEF RowGoes
  <2> QED
    BY <2>2 DEF Orderly, Begun
<1> QED
  BY <1>11, <1>12, <1>14, <1>15, <1>16, <1>17, <1>18, <1>20, <1>21, <1>22, <1>19 DEF Orderly
-----------------------------------------------------------------------------
(* A rejected group was not promoted *)

\* A drive that had its preview from the provider, and one that may still come
\* to promote or reject it.
Handed(w)    == work[w].at \in WithRelease \cup {"persisting"} \/ About(w, "preview_failed")
Undecided(w) == \/ work[w].at \in {"persisting", "vetting", "rejecting", "promoting",
                                   "intending_promote", "firing_promote"}
                \/ About(w, "preview_failed")

\* Where builds are filed under their run, a drive finds a build and applies none.
ByRun ==
  node = "run" =>
    /\ \A r \in Releases : ~Beyond(r)
    /\ \A w \in Workers :
         /\ work[w].at = "previewing" => \E r \in Releases : r[1] = work[w].g /\ rel[r] = "built"
         /\ work[w].at \notin {"intending_preview", "firing_preview", "persisting"}

\* Where they are not found, the one drive that had the preview decides.
ByConnection ==
  node = "connection" =>
    /\ \A w \in Workers : /\ Handed(w) => done[work[w].g]["preview"] = 1
                          /\ Undecided(w) => done[work[w].g]["promote"] = 0
    /\ \A w, v \in Workers : w # v /\ Handed(w) /\ Handed(v) => work[w].g # work[v].g
    /\ \A g \in Groups :
         /\ done[g]["promote"] # 0 => done[g]["preview"] = 1
         /\ row[g].state = "preview_failed" =>
              /\ done[g]["preview"] = 1 /\ done[g]["promote"] = 0
              /\ \A w \in Workers : work[w].g = g => ~Handed(w)

Judged == ByRun /\ ByConnection

LEMMA InitJudged == Init => Judged
<1> SUFFICES ASSUME Init PROVE Judged
  OBVIOUS
<1>1. \A w \in Workers : work[w].at = "idle"
  BY DEF Init, Idle
<1>2. \A w \in Workers : ~Handed(w) /\ ~Undecided(w)
  BY <1>1 DEF Handed, Undecided, About, WithRelease
<1>3. /\ \A r \in Releases : rel[r] = "absent"
      /\ \A g \in Groups : row[g].state = "absent" /\ done[g]["promote"] = 0
  BY DEF Init, Effects
<1> QED
  BY <1>1, <1>2, <1>3 DEF Judged, ByRun, ByConnection, Beyond

LEMMA NodeStays == [Next]_vars => UNCHANGED node
  BY DEF Next, Step, Claim, Build, Preview, FirePreview, Persist, Vet, Reject, Abandon, Promote,
         FirePromote, Record, Ready, Attest, Prove, RollBack, Restore, Finalize, Throw, Crash,
         Intend, Refuse, Recover, Lapse, Stall, vars

\* What a step does to w where builds are filed under their run ...
Finds(w) ==
  \/ work'[w] = work[w]
  \/ work'[w].at \notin {"previewing", "intending_preview", "firing_preview", "persisting"}
  \/ Build(w) /\ work'[w].at = "previewing" /\ work'[w].g = work[w].g

\* ... and where they are not found.
Hands(w) ==
  /\ \/ work'[w] = work[w]
     \/ ~Handed(w)'
     \/ /\ work'[w].g = work[w].g
        /\ \/ FirePreview(w)
           \/ Handed(w) /\ (Undecided(w)' => Undecided(w))
  /\ FirePromote(w) => ~Undecided(w)'
  /\ Finalize(w) => ~Handed(w)'

LEMMA StepFinds ==
  ASSUME Typed, node = "run", ByRun,
         NEW w \in Workers, Step(w) \/ Throw(w) \/ Crash(w)
           \/ (\E e \in Effects : Refuse(w, e)) \/ (\E g \in Groups : Recover(w, g))
  PROVE  Finds(w)
<1>b. \A x : Becomes(w, x) => work'[w] = x
  BY DEF Becomes, Typed, TypeOK
<1>o. \A x, y : Beat(w, x, y) => Becomes(w, IF Holds(w) THEN x ELSE y)
  BY DEF Beat
<1>n. work[w].at \notin {"intending_preview", "firing_preview", "persisting"}
  BY DEF ByRun
<1> DEFINE Unseen == {"previewing", "intending_preview", "firing_preview", "persisting"}
<1>i. Becomes(w, Idle) => Finds(w)
  BY <1>b DEF Idle, Finds
<1>e. ASSUME NEW v, Becomes(w, Ending(w, v))
      PROVE  Finds(w)
  BY <1>b, <1>e, EndingFields DEF Finds
<1>t. ASSUME NEW s, s \notin Unseen, Becomes(w, To(w, s))
      PROVE  Finds(w)
  BY <1>b, <1>t, ToFields DEF Finds
<1>w. ASSUME NEW s \in {"vetting", "abandoning"}, NEW r, Becomes(w, With(w, s, r))
      PROVE  Finds(w)
  BY <1>b, <1>w, WithFields DEF Finds
<1>1. CASE Claim(w)
  <2>1. CASE Claimable(work[w].g)
    <3>x. PICK x : x = [work[w] EXCEPT !.at = "building", !.k = row[work[w].g].token + 1]
      OBVIOUS
    <3>1. x.at = "building"
      BY <3>x DEF Typed, TypeOK, Work
    <3>2. work'[w] = x
      BY <1>1, <1>b, <2>1, <3>x DEF Claim
    <3> QED
      BY <3>1, <3>2 DEF Finds
  <2>2. CASE ~Claimable(work[w].g)
    BY <1>1, <1>i, <2>2 DEF Claim
  <2> QED
    BY <2>1, <2>2
<1>2. CASE Build(w)
  <2>1. Becomes(w, To(w, "previewing")) \/ Becomes(w, Idle)
    BY <1>2, <1>o DEF Build
  <2>2. CASE Becomes(w, To(w, "previewing"))
    BY <1>2, <1>b, <2>2, ToFields DEF Finds
  <2> QED
    BY <1>i, <2>1, <2>2
<1>3. CASE Preview(w)
  <2>1. Reusable(w) # {}
    BY <1>3 DEF Preview, ByRun, Reusable
  <2> QED
    BY <1>3, <1>o, <1>w, <2>1 DEF Preview
<1>4. CASE FirePreview(w)
  BY <1>4, <1>n DEF FirePreview
<1>5. CASE Persist(w)
  BY <1>5, <1>n DEF Persist
<1>6. CASE Vet(w)
  BY <1>6, <1>o, <1>t DEF Vet
<1>7. CASE Reject(w)
  BY <1>7, <1>e DEF Reject
<1>8. CASE Abandon(w)
  BY <1>8, <1>i DEF Abandon
<1>9. CASE Promote(w)
  <2>1. ASSUME NEW p, Becomes(w, [work[w] EXCEPT !.at = "intending_promote", !.prior = p])
        PROVE  Finds(w)
    <3>x. PICK x : x = [work[w] EXCEPT !.at = "intending_promote", !.prior = p]
      OBVIOUS
    <3>1. x.at = "intending_promote"
      BY <3>x DEF Typed, TypeOK, Work
    <3>2. work'[w] = x
      BY <1>b, <2>1, <3>x
    <3> QED
      BY <3>1, <3>2 DEF Finds
  <2> QED
    BY <1>9, <1>e, <2>1 DEF Promote
<1>10. CASE FirePromote(w)
  BY <1>10, <1>e, <1>t DEF FirePromote
<1>11. CASE Record(w)
  BY <1>11, <1>e, <1>t DEF Record
<1>12. CASE Ready(w)
  BY <1>12, <1>e, <1>o, <1>t DEF Ready
<1>22. CASE Attest(w)
  BY <1>22, <1>e, <1>t DEF Attest
<1>13. CASE Prove(w)
  BY <1>13, <1>e, <1>t DEF Prove
<1>14. CASE RollBack(w)
  BY <1>14, <1>t DEF RollBack
<1>15. CASE Restore(w)
  BY <1>15, <1>e DEF Restore
<1>16. CASE Finalize(w)
  BY <1>16, <1>i DEF Finalize
<1>17. CASE Throw(w)
  BY <1>17, <1>e DEF Throw
<1>18. CASE Crash(w)
  BY <1>18, <1>i DEF Crash
<1>l. ASSUME NEW e \in Effects, Becomes(w, Lost(w, e))
      PROVE  Finds(w)
  BY <1>i, <1>l, <1>t DEF Lost
<1>19. ASSUME NEW e \in Effects, Intend(w, e)
       PROVE  Finds(w)
  BY <1>19, <1>l, <1>n, <1>t DEF Intend, Effects, Intending, Firing
<1>20. ASSUME NEW e \in Effects, Refuse(w, e)
       PROVE  Finds(w)
  BY <1>20, <1>i, <1>l DEF Refuse
<1>21. ASSUME NEW g \in Groups, Recover(w, g)
       PROVE  Finds(w)
  <2>x. PICK x : x = [Idle EXCEPT !.at = "claiming", !.g = g]
    OBVIOUS
  <2>1. x.at = "claiming"
    BY <2>x DEF Idle
  <2>2. work'[w] = x
    BY <1>21, <1>b, <2>x DEF Recover
  <2> QED
    BY <2>1, <2>2 DEF Finds
<1> QED
  BY <1>1, <1>2, <1>3, <1>4, <1>5, <1>6, <1>7, <1>8, <1>9, <1>10, <1>11, <1>12, <1>13, <1>14,
     <1>15, <1>16, <1>17, <1>18, <1>19, <1>20, <1>21, <1>22 DEF Step

\* The step kinds that Hands tells apart are of different steps of w.
LEMMA StepHands ==
  ASSUME Typed, node = "connection",
         NEW w \in Workers, Step(w) \/ Throw(w) \/ Crash(w)
           \/ (\E e \in Effects : Refuse(w, e)) \/ (\E g \in Groups : Recover(w, g))
  PROVE  Hands(w)
<1>b. \A x : Becomes(w, x) => work'[w] = x
  BY DEF Becomes, Typed, TypeOK
<1>o. \A x, y : Beat(w, x, y) => Becomes(w, IF Holds(w) THEN x ELSE y)
  BY DEF Beat
<1> DEFINE Quits == ~Handed(w)' /\ ~Undecided(w)'
           Same  == /\ work'[w].g = work[w].g /\ Handed(w)
                    /\ (Undecided(w)' => Undecided(w)) /\ ~FirePromote(w) /\ ~Finalize(w)
<1>q. Quits => Hands(w)
  BY DEF Hands
<1>s. Same => Hands(w)
  BY DEF Hands
<1>i. Becomes(w, Idle) => Quits
  BY <1>b DEF Idle, Handed, Undecided, About, WithRelease
<1>e. ASSUME NEW v, v # "preview_failed", Becomes(w, Ending(w, v))
      PROVE  Quits
  BY <1>b, <1>e, EndingFields DEF Handed, Undecided, About, WithRelease
<1>t. ASSUME NEW s \in {"building", "previewing", "intending_preview", "firing_preview"},
             Becomes(w, To(w, s))
      PROVE  Quits
  BY <1>b, <1>t, ToFields DEF Handed, Undecided, About, WithRelease
<1>u. ASSUME NEW s \in {"recording", "readying", "attesting", "proving", "rolling", "restoring",
                       "abandoning"},
             Handed(w), ~FirePromote(w), ~Finalize(w), Becomes(w, To(w, s))
      PROVE  Same
  BY <1>b, <1>u, ToFields DEF Undecided, About
<1>v. ASSUME NEW s, s # "finalizing", Undecided(w), Handed(w), ~FirePromote(w), ~Finalize(w),
             Becomes(w, To(w, s))
      PROVE  Same
  BY <1>b, <1>v, ToFields
<1>w. ASSUME NEW s \in {"vetting", "abandoning"}, NEW r, work[w].at = "persisting",
             Becomes(w, With(w, s, r))
      PROVE  Same
  BY <1>b, <1>w, WithFields DEF Handed, Undecided, FirePromote, Finalize
<1> HIDE DEF Quits, Same
<1>1. CASE Claim(w)
  <2>1. CASE Claimable(work[w].g)
    <3>x. PICK x : x = [work[w] EXCEPT !.at = "building", !.k = row[work[w].g].token + 1]
      OBVIOUS
    <3>1. x.at = "building"
      BY <3>x DEF Typed, TypeOK, Work
    <3>2. work'[w] = x
      BY <1>1, <1>b, <2>1, <3>x DEF Claim
    <3> QED
      BY <1>q, <3>1, <3>2 DEF Quits, Handed, Undecided, About, WithRelease
  <2>2. CASE ~Claimable(work[w].g)
    BY <1>1, <1>i, <1>q, <2>2 DEF Claim
  <2> QED
    BY <2>1, <2>2
<1>2. CASE Build(w)
  BY <1>2, <1>i, <1>o, <1>q, <1>t DEF Build
<1>3. CASE Preview(w)
  BY <1>3, <1>e, <1>q, <1>t DEF Preview, Reusable
<1>4. CASE FirePreview(w)
  <2>1. Becomes(w, To(w, "persisting")) /\ ~FirePromote(w) /\ ~Finalize(w)
    BY <1>4 DEF FirePreview, FirePromote, Finalize
  <2>2. work'[w].g = work[w].g
    BY <1>b, <2>1, ToFields
  <2> QED
    BY <1>4, <2>1, <2>2 DEF Hands
<1>5. CASE Persist(w)
  BY <1>5, <1>o, <1>s, <1>w DEF Persist
<1>6. CASE Vet(w)
  <2>1. Undecided(w) /\ Handed(w) /\ ~FirePromote(w) /\ ~Finalize(w)
    BY <1>6 DEF Vet, Undecided, Handed, WithRelease, FirePromote, Finalize
  <2> QED
    BY <1>6, <1>o, <1>s, <1>v, <2>1 DEF Vet
<1>7. CASE Reject(w)
  <2>1. Undecided(w) /\ Handed(w) /\ ~FirePromote(w) /\ ~Finalize(w)
    BY <1>7 DEF Reject, Undecided, Handed, WithRelease, FirePromote, Finalize
  <2>2. \E v : Becomes(w, Ending(w, v))
    BY <1>7 DEF Reject
  <2>3. work'[w].g = work[w].g
    BY <1>b, <2>2, EndingFields
  <2> QED
    BY <1>s, <2>1, <2>3 DEF Same
<1>8. CASE Abandon(w)
  BY <1>8, <1>i, <1>q DEF Abandon
<1>9. CASE Promote(w)
  <2>1. ASSUME NEW p, Becomes(w, [work[w] EXCEPT !.at = "intending_promote", !.prior = p])
        PROVE  Same
    <3>x. PICK x : x = [work[w] EXCEPT !.at = "intending_promote", !.prior = p]
      OBVIOUS
    <3>1. x.g = work[w].g
      BY <3>x DEF Typed, TypeOK, Work
    <3>2. work'[w] = x
      BY <1>b, <2>1, <3>x
    <3>3. Undecided(w) /\ Handed(w) /\ ~FirePromote(w) /\ ~Finalize(w)
      BY <1>9 DEF Promote, Undecided, Handed, WithRelease, FirePromote, Finalize
    <3> QED
      BY <3>1, <3>2, <3>3 DEF Same
  <2> QED
    BY <1>9, <1>e, <1>q, <1>s, <2>1 DEF Promote
<1>10. CASE FirePromote(w)
  <2>1. CASE work[w].r \in gone
    BY <1>10, <1>e, <1>q, <2>1 DEF FirePromote
  <2>2. CASE work[w].r \notin gone
    <3>1. Becomes(w, To(w, "recording")) /\ ~Finalize(w) /\ Handed(w)
      BY <1>10, <2>2 DEF FirePromote, Finalize, Handed, WithRelease
    <3>2. work'[w].g = work[w].g /\ ~Undecided(w)'
      BY <1>b, <3>1, ToFields DEF Undecided, About
    <3> QED
      BY <3>1, <3>2 DEF Hands
  <2> QED
    BY <2>1, <2>2
<1>11. CASE Record(w)
  BY <1>11, <1>e, <1>q, <1>s, <1>u DEF Record, Handed, WithRelease, FirePromote, Finalize
<1>12. CASE Ready(w)
  BY <1>12, <1>e, <1>o, <1>q, <1>s, <1>u DEF Ready, Handed, WithRelease, FirePromote, Finalize
<1>22. CASE Attest(w)
  BY <1>22, <1>e, <1>q, <1>s, <1>u DEF Attest, Handed, WithRelease, FirePromote, Finalize
<1>13. CASE Prove(w)
  BY <1>13, <1>e, <1>q, <1>s, <1>u DEF Prove, Handed, WithRelease, FirePromote, Finalize
<1>14. CASE RollBack(w)
  BY <1>14, <1>s, <1>u DEF RollBack, Handed, WithRelease, FirePromote, Finalize
<1>15. CASE Restore(w)
  BY <1>15, <1>e, <1>q DEF Restore
<1>16. CASE Finalize(w)
  BY <1>16, <1>i, <1>q DEF Finalize
<1>17. CASE Throw(w)
  BY <1>17, <1>e, <1>q DEF Throw
<1>18. CASE Crash(w)
  BY <1>18, <1>i, <1>q DEF Crash
<1>l. ASSUME NEW e \in Effects, work[w].at \in {Intending(e), Firing(e)}, ~FirePromote(w),
             Becomes(w, Lost(w, e))
      PROVE  Hands(w)
  BY <1>i, <1>l, <1>q, <1>s, <1>u
     DEF Lost, Effects, Intending, Firing, Handed, WithRelease, Finalize
<1>19. ASSUME NEW e \in Effects, Intend(w, e)
       PROVE  Hands(w)
  <2>1. ~FirePromote(w)
    BY <1>19 DEF Intend, Effects, Intending, FirePromote
  <2>2. CASE Holds(w) /\ e = "preview"
    BY <1>19, <1>q, <1>t, <2>2 DEF Intend, Firing
  <2>3. CASE Holds(w) /\ e = "promote"
    BY <1>19, <1>s, <1>v, <2>1, <2>3
       DEF Intend, Intending, Firing, Undecided, Handed, WithRelease, Finalize
  <2>4. CASE ~Holds(w)
    BY <1>19, <1>l, <2>1, <2>4 DEF Intend
  <2> QED
    BY <2>2, <2>3, <2>4 DEF Effects
<1>20. ASSUME NEW e \in Effects, Refuse(w, e)
       PROVE  Hands(w)
  <2>1. Becomes(w, Idle) \/ Becomes(w, Lost(w, e))
    BY <1>20 DEF Refuse
  <2>2. CASE Becomes(w, Lost(w, e))
    <3>1. CASE e = "preview"
      BY <1>i, <1>q, <2>2, <3>1 DEF Lost
    <3>2. CASE e = "promote"
      <4>1. Becomes(w, To(w, "abandoning"))
        BY <2>2, <3>2 DEF Lost
      <4>2. Handed(w) /\ ~Finalize(w)
        BY <1>20, <3>2 DEF Refuse, Firing, Handed, WithRelease, Finalize
      <4>3. work'[w].g = work[w].g /\ ~Undecided(w)'
        BY <1>b, <4>1, ToFields DEF Undecided, About
      <4> QED
        BY <4>2, <4>3 DEF Hands
    <3> QED
      BY <3>1, <3>2 DEF Effects
  <2> QED
    BY <1>i, <1>q, <2>1, <2>2
<1>21. ASSUME NEW g \in Groups, Recover(w, g)
       PROVE  Hands(w)
  <2>x. PICK x : x = [Idle EXCEPT !.at = "claiming", !.g = g]
    OBVIOUS
  <2>1. x.at = "claiming"
    BY <2>x DEF Idle
  <2>2. work'[w] = x
    BY <1>21, <1>b, <2>x DEF Recover
  <2>3. Quits
    BY <2>1, <2>2 DEF Quits, Handed, Undecided, About, WithRelease
  <2> QED
    BY <1>q, <2>3
<1> QED
  BY <1>1, <1>2, <1>3, <1>4, <1>5, <1>6, <1>7, <1>8, <1>9, <1>10, <1>11, <1>12, <1>13, <1>14,
     <1>15, <1>16, <1>17, <1>18, <1>19, <1>20, <1>21, <1>22 DEF Step

LEMMA NextFinds ==
  ASSUME Typed, node = "run", ByRun, [Next]_vars
  PROVE  \A w \in Workers : Finds(w)
<1>1. ASSUME NEW w \in Workers, Step(w) \/ Throw(w) \/ Crash(w)
                  \/ (\E e \in Effects : Refuse(w, e)) \/ (\E g \in Groups : Recover(w, g))
      PROVE  \A v \in Workers : Finds(v)
  BY <1>1, OthersStay, StepFinds DEF Finds
<1>2. UNCHANGED work => \A w \in Workers : Finds(w)
  BY DEF Finds
<1> QED
  BY <1>1, <1>2 DEF Next, Lapse, Stall, vars

\* The promotion had is that of the worker who fires it.
Promotes ==
  \A g \in Groups : \/ done'[g]["promote"] = done[g]["promote"]
                    \/ \E w \in Workers : FirePromote(w) /\ work[w].g = g

LEMMA DonePromotes ==
  ASSUME All, [Next]_vars
  PROVE  Promotes
<1>t. done \in [Groups -> [Effects -> Nat]]
  BY DEF All, Typed, TypeOK
<1>u. UNCHANGED done => Promotes
  BY DEF Promotes
<1>1. ASSUME NEW w \in Workers, FirePreview(w)
      PROVE  Promotes
  BY <1>1, <1>t DEF FirePreview, Promotes
<1>2. ASSUME NEW w \in Workers, FirePromote(w)
      PROVE  Promotes
  <2>1. CASE work[w].r \in gone
    BY <1>2, <1>u, <2>1 DEF FirePromote
  <2>2. CASE work[w].r \notin gone
    <3>1. PICK h : h = work[w].g
      OBVIOUS
    <3>2. PICK x : done' = [done EXCEPT ![h] = x]
      BY <1>2, <2>2, <3>1 DEF FirePromote
    <3>3. \A g \in Groups \ {h} : done'[g] = done[g]
      BY <1>t, <3>2
    <3> QED
      BY <1>2, <3>1, <3>3 DEF Promotes
  <2> QED
    BY <2>1, <2>2
<1>3. ASSUME NEW w \in Workers,
             \/ Claim(w) \/ Build(w) \/ Preview(w) \/ Persist(w) \/ Vet(w) \/ Reject(w) \/ Abandon(w)
             \/ Promote(w) \/ Record(w) \/ Ready(w) \/ Attest(w) \/ Prove(w) \/ RollBack(w)
             \/ Restore(w) \/ Finalize(w) \/ Throw(w) \/ Crash(w)
             \/ \E e \in Effects : Intend(w, e) \/ Refuse(w, e)
             \/ \E g \in Groups : Recover(w, g)
      PROVE  UNCHANGED done
  BY <1>3 DEF Claim, Build, Preview, Persist, Vet, Reject, Abandon, Promote, Record, Ready, Attest,
       Prove, RollBack, Restore, Finalize, Throw, Crash, Intend, Refuse, Recover, provider
<1>4. ASSUME NEW g \in Groups, Lapse(g) \/ Stall(g)
      PROVE  UNCHANGED done
  BY <1>4 DEF Lapse, Stall, provider
<1>5. UNCHANGED vars => UNCHANGED done
  BY DEF vars
<1> QED
  BY <1>1, <1>2, <1>3, <1>4, <1>5, <1>u DEF Next, Step

LEMMA NextByRun ==
  ASSUME All, Orderly, ByRun, [Next]_vars
  PROVE  ByRun'
<1> SUFFICES ASSUME node = "run"
             PROVE  ByRun'
  BY NodeStays DEF ByRun
<1>1. Typed /\ Typed'
  BY KindTyped, RestTyped DEF All, Typed, TypeOK
<1>2. \A w \in Workers : Finds(w)
  BY <1>1, NextFinds
<1>3. Advances
  BY ReleasesAdvance
<1>4. \A w \in Workers, r \in Releases : ~Applies(w, r)
  BY DEF Applies, Persist, ByRun
<1>5. \A r \in Releases : ~Beyond(r)'
  BY <1>3, <1>4 DEF Advances, ByRun
<1>6. \A r \in Releases : rel[r] = "built" => rel'[r] = "built"
  BY <1>3, <1>5 DEF Advances, Beyond
<1>7. ASSUME NEW w \in Workers
      PROVE  /\ work'[w].at = "previewing" => \E r \in Releases : r[1] = work'[w].g /\ rel'[r] = "built"
             /\ work'[w].at \notin {"intending_preview", "firing_preview", "persisting"}
  <2>1. CASE work'[w] = work[w]
    BY <1>6, <2>1 DEF ByRun
  <2>2. CASE Build(w) /\ work'[w].at = "previewing" /\ work'[w].g = work[w].g
    <3>1. PICK r : r = <<work[w].g, work[w].k>>
      OBVIOUS
    <3>2. r \in Releases /\ r[1] = work[w].g
      BY <1>1, <2>2, <3>1 DEF Build, Typed, Shaped, Steps, Releases
    <3>3. rel'[r] = "built"
      BY <1>1, <2>2, <3>1, <3>2 DEF Build, Typed, TypeOK
    <3> QED
      BY <2>2, <3>2, <3>3
  <2> QED
    BY <1>2, <2>1, <2>2 DEF Finds
<1> QED
  BY <1>5, <1>7 DEF ByRun

LEMMA NextHands ==
  ASSUME Typed, node = "connection", [Next]_vars
  PROVE  \A w \in Workers : Hands(w)
<1>1. ASSUME NEW w \in Workers, Step(w) \/ Throw(w) \/ Crash(w)
                  \/ (\E e \in Effects : Refuse(w, e)) \/ (\E g \in Groups : Recover(w, g))
      PROVE  \A v \in Workers : Hands(v)
  <2>1. Hands(w)
    BY <1>1, StepHands
  <2>2. \A v \in Workers \ {w} : work'[v] = work[v]
    BY <1>1, OthersStay
  <2>3. ASSUME NEW v \in Workers \ {w}
        PROVE  ~FirePromote(v) /\ ~Finalize(v)
    <3>1. \A x : Becomes(v, x) => work'[v] = x
      BY DEF Becomes, Typed, TypeOK
    <3>2. \A s : To(v, s).at = s
      BY ToFields
    <3>3. \A o : Ending(v, o).at = "finalizing"
      BY EndingFields
    <3>4. FirePromote(v) => work'[v].at # work[v].at
      BY <3>1, <3>2, <3>3 DEF FirePromote
    <3>5. Finalize(v) => work'[v].at # work[v].at
      BY <3>1, IdleShape DEF Finalize
    <3> QED
      BY <2>2, <3>4, <3>5
  <2> QED
    BY <2>1, <2>2, <2>3 DEF Hands
<1>2. UNCHANGED work => \A w \in Workers : ~FirePromote(w) /\ ~Finalize(w)
  <2> SUFFICES ASSUME UNCHANGED work, NEW w \in Workers
               PROVE  ~FirePromote(w) /\ ~Finalize(w)
    OBVIOUS
  <2>1. \A x : Becomes(w, x) => work'[w] = x
    BY DEF Becomes, Typed, TypeOK
  <2>2. FirePromote(w) => work'[w].at \in {"recording", "finalizing"}
    BY <2>1, ToFields, EndingFields DEF FirePromote
  <2>3. Finalize(w) => work'[w].at = "idle"
    BY <2>1, IdleShape DEF Finalize
  <2> QED
    BY <2>2, <2>3 DEF FirePromote, Finalize
<1>3. UNCHANGED work => \A w \in Workers : Hands(w)
  BY <1>2 DEF Hands
<1> QED
  BY <1>1, <1>3 DEF Next, Lapse, Stall, vars

LEMMA NextByConnection ==
  ASSUME All, Orderly, ByConnection, [Next]_vars
  PROVE  ByConnection'
<1> SUFFICES ASSUME node = "connection"
             PROVE  ByConnection'
  BY NodeStays DEF ByConnection
<1>t. Typed /\ Typed' /\ done' \in [Groups -> [Effects -> Nat]]
  BY KindTyped, RestTyped DEF All, Typed, TypeOK
<1>e. "preview" \in Effects /\ "promote" \in Effects
  BY DEF Effects
<1>1. \A w \in Workers : Hands(w)
  BY <1>t, NextHands
<1>2. \A g \in Groups : done[g]["preview"] = 1 => done'[g]["preview"] = 1
  BY <1>e, DoneStays
<1>3. Promotes
  BY DonePromotes
<1>4. \A w \in Workers : Handed(w) => work[w].g \in Groups
  BY <1>t DEF Handed, About, WithRelease, Typed, Shaped
<1>5. \A w \in Workers : FirePromote(w) => Handed(w) /\ work[w].g \in Groups
  BY <1>4 DEF FirePromote, Handed, WithRelease
<1>6. ASSUME NEW w \in Workers, FirePreview(w)
      PROVE  /\ work[w].g \in Groups
             /\ done[work[w].g]["preview"] = 0 /\ done[work[w].g]["promote"] = 0
             /\ done'[work[w].g]["preview"] = 1 /\ done'[work[w].g]["promote"] = 0
             /\ \A v \in Workers \ {w} : work'[v] = work[v]
  <2>1. work[w].g \in Groups /\ done[work[w].g]["preview"] = 0
    BY <1>6, FireOnce
  <2>2. done[work[w].g]["promote"] = 0
    BY <2>1 DEF ByConnection
  <2>3. done'[work[w].g]["preview"] = 1 /\ done'[work[w].g]["promote"] = 0
    BY <1>6, <2>1, <2>2 DEF FirePreview, All, Typed, TypeOK, Effects
  <2>4. \A v \in Workers \ {w} : work'[v] = work[v]
    BY <1>6, <1>t DEF FirePreview, Becomes, Typed, TypeOK
  <2> QED
    BY <2>1, <2>2, <2>3, <2>4
\* Who had the preview, had it before, or has it now and nobody else did.
<1>7. ASSUME NEW w \in Workers, Handed(w)'
      PROVE  /\ work'[w].g = work[w].g
             /\ Handed(w) \/ FirePreview(w)
             /\ work[w].g \in Groups
  <2>1. CASE work'[w] = work[w]
    <3>1. Handed(w)
      BY <1>7, <2>1 DEF Handed, About
    <3> QED
      BY <1>4, <2>1, <3>1
  <2> QED
    BY <1>1, <1>4, <1>6, <1>7, <2>1 DEF Hands
<1>8. ASSUME NEW w \in Workers, NEW v \in Workers, w # v, FirePreview(w), Handed(v)
      PROVE  work[v].g # work[w].g
  BY <1>6, <1>8 DEF ByConnection
<1>9. ASSUME NEW w \in Workers, NEW v \in Workers, w # v, FirePreview(w)
      PROVE  ~FirePreview(v)
  <2>1. work'[v] = work[v]
    BY <1>6, <1>9
  <2>2. FirePreview(v) => work'[v].at = "persisting"
    <3>1. \A x : Becomes(v, x) => work'[v] = x
      BY <1>t DEF Becomes, Typed, TypeOK
    <3> QED
      BY <1>t, <3>1, ToFields DEF FirePreview
  <2> QED
    BY <2>1, <2>2 DEF FirePreview
<1>10. ASSUME NEW w \in Workers, NEW v \in Workers, w # v, Handed(w)', Handed(v)'
       PROVE  work'[w].g # work'[v].g
  BY <1>7, <1>8, <1>9, <1>10 DEF ByConnection
<1>11. ASSUME NEW w \in Workers, Handed(w)'
       PROVE  done'[work'[w].g]["preview"] = 1
  BY <1>2, <1>6, <1>7, <1>11 DEF ByConnection
<1>12. ASSUME NEW w \in Workers, Undecided(w)'
       PROVE  done'[work'[w].g]["promote"] = 0
  <2>1. Handed(w)'
    BY <1>12 DEF Undecided, Handed, WithRelease
  <2>2. CASE FirePreview(w)
    BY <1>6, <1>7, <2>1, <2>2
  <2>3. CASE ~FirePreview(w)
    <3>1. Handed(w) /\ Undecided(w) /\ work'[w].g = work[w].g /\ work[w].g \in Groups
      <4>1. CASE work'[w] = work[w]
        BY <1>7, <1>12, <2>1, <2>3, <4>1 DEF Undecided, About
      <4> QED
        BY <1>1, <1>7, <1>12, <2>1, <2>3, <4>1 DEF Hands
    <3>2. ASSUME NEW v \in Workers, FirePromote(v), work[v].g = work[w].g
          PROVE  FALSE
      <4>1. v # w
        BY <1>1, <1>12, <3>2 DEF Hands
      <4> QED
        BY <1>5, <3>1, <3>2, <4>1 DEF ByConnection
    <3> QED
      BY <1>3, <3>1, <3>2 DEF Promotes, ByConnection
  <2> QED
    BY <2>2, <2>3
<1>13. ASSUME NEW g \in Groups, done'[g]["promote"] # 0
       PROVE  done'[g]["preview"] = 1
  <2>1. CASE done[g]["promote"] # 0
    BY <1>2, <2>1 DEF ByConnection
  <2>2. ASSUME NEW w \in Workers, FirePromote(w), work[w].g = g
        PROVE  done'[g]["preview"] = 1
    BY <1>2, <1>5, <2>2 DEF ByConnection
  <2> QED
    BY <1>3, <1>13, <2>1, <2>2 DEF Promotes
<1>14. ASSUME NEW g \in Groups, row'[g].state = "preview_failed"
       PROVE  /\ done'[g]["preview"] = 1 /\ done'[g]["promote"] = 0
              /\ \A w \in Workers : work'[w].g = g => ~Handed(w)'
  <2>1. CASE row[g].state = "preview_failed"
    <3>1. /\ done[g]["preview"] = 1 /\ done[g]["promote"] = 0
          /\ \A w \in Workers : work[w].g = g => ~Handed(w)
      BY <2>1 DEF ByConnection
    <3>2. done'[g]["promote"] = 0
      BY <1>3, <1>5, <3>1 DEF Promotes
    <3>3. \A w \in Workers : work[w].g = g => ~FirePreview(w)
      BY <1>6, <3>1
    <3> QED
      BY <1>2, <1>7, <3>1, <3>2, <3>3
  <2>2. ASSUME NEW w \in Workers, Finalize(w), work[w].g = g, work[w].out = "preview_failed"
        PROVE  /\ done'[g]["preview"] = 1 /\ done'[g]["promote"] = 0
               /\ \A v \in Workers : work'[v].g = g => ~Handed(v)'
    <3>1. Handed(w) /\ Undecided(w)
      BY <2>2 DEF Finalize, Handed, Undecided, About
    <3>2. UNCHANGED done
      BY <2>2 DEF Finalize, provider
    <3>3. \A v \in Workers \ {w} : work'[v] = work[v]
      BY <2>2, <1>t DEF Finalize, Becomes, Typed, TypeOK
    <3>4. ~Handed(w)'
      BY <1>1, <2>2 DEF Hands
    <3>5. \A v \in Workers \ {w} : Handed(v)' => Handed(v)
      BY <3>3 DEF Handed, About
    <3> QED
      BY <2>2, <3>1, <3>2, <3>3, <3>4, <3>5 DEF ByConnection
  <2>3. RowGoes(g)
    BY RowsGo
  <2> QED
    BY <1>14, <2>1, <2>2, <2>3 DEF RowGoes
<1> QED
  BY <1>10, <1>11, <1>12, <1>13, <1>14 DEF ByConnection

LEMMA NextJudged ==
  ASSUME All, Orderly, Judged, [Next]_vars
  PROVE  Judged'
  BY NextByRun, NextByConnection DEF Judged

\* No group is promoted that is rejected, or about to be.
LEMMA RejectedIsNotPromoted ==
  ASSUME All, Orderly, Judged
  PROVE  /\ \A g \in Groups : row[g].state = "preview_failed" => done[g]["promote"] = 0
         /\ \A w \in Workers :
              /\ About(w, "preview_failed") => done[work[w].g]["promote"] = 0
              /\ work[w].at = "firing_promote" => row[work[w].g].state # "preview_failed"
<1>1. CASE node = "run"
  <2>1. \A r \in Releases : ~Torn(r)
    BY <1>1 DEF Judged, ByRun, Beyond, Torn
  <2>2. \A w \in Workers : work[w].at = "firing_promote" => work[w].g \in Groups
    BY DEF All, Typed, Shaped
  <2> QED
    BY <2>1, <2>2 DEF Orderly, Failed
<1>2. CASE node = "connection"
  <2>1. \A w \in Workers : About(w, "preview_failed") => Undecided(w)
    BY DEF Undecided
  <2>2. \A w \in Workers : work[w].at = "firing_promote" => Handed(w) /\ work[w].g \in Groups
    BY DEF Handed, WithRelease, All, Typed, Shaped
  <2> QED
    BY <1>2, <2>1, <2>2 DEF Judged, ByConnection
<1> QED
  BY <1>1, <1>2 DEF All, Typed, TypeOK
-----------------------------------------------------------------------------
(* Every step is a step of Rollout *)

LEMMA InitMapped == Init => R!Init
  BY DEF Init, R!Init, Verdict, Standing, StandingOf

\* What leaves the states of the rows, and the standings of the releases, alone.
LEMMA VerdictsStay ==
  (\A g \in Groups : row'[g].state = row[g].state) => UNCHANGED Verdict
  BY DEF Verdict

LEMMA StandingsStay ==
  (\A r \in Releases : StandingOf(rel'[r]) = StandingOf(rel[r])) => UNCHANGED Standing
  BY DEF Standing

LEMMA BeatStays ==
  ASSUME Typed, NEW w \in Workers, NEW x, NEW y, Beat(w, x, y)
  PROVE  UNCHANGED Verdict
<1>1. PICK h : h = work[w].g
  OBVIOUS
<1>2. row' = [row EXCEPT ![h].fresh = TRUE] \/ UNCHANGED row
  BY <1>1 DEF Beat
<1>3. \A g \in Groups : row'[g].state = row[g].state
  BY <1>2 DEF Typed, TypeOK, Row
<1> QED
  BY <1>3, VerdictsStay

\* An owner's group has been claimed.
LEMMA StepsBegun ==
  ASSUME All, Orderly, NEW w \in Workers, work[w].at \in Steps
  PROVE  work[w].g \in Groups /\ Verdict[work[w].g] # "absent"
<1>1. /\ work[w].g \in Groups /\ work[w].k \in 1..MaxClaims
      /\ work[w].k =< row[work[w].g].token /\ row[work[w].g].token \in Nat
  BY DriveFacts DEF All, Typed, Shaped, Claims, Fenced, Claimed
<1> QED
  BY <1>1, BoundsAssumption DEF Orderly, Begun, Verdict

LEMMA ClaimMapped ==
  ASSUME All, NEW w \in Workers, Claim(w)
  PROVE  R!Begin(work[w].g) \/ UNCHANGED R!rollout
<1> DEFINE g == work[w].g
<1>1. UNCHANGED <<done, verified, Standing>>
  BY DEF Claim, db, provider, Standing
<1>2. g \in Groups /\ row \in [Groups -> Row]
  BY DEF Claim, All, Typed, TypeOK, Shaped
<1>3. CASE ~Claimable(g)
  BY <1>1, <1>3 DEF Claim, Verdict, R!rollout
<1>4. CASE Claimable(g)
  <2>1. \A h \in Groups : row'[h].state = IF h = g THEN "in_progress" ELSE row[h].state
    BY <1>2, <1>4 DEF Claim, Row
  <2>2. CASE row[g].state = "absent"
    <3>1. Verdict[g] = "absent" /\ Verdict' = [Verdict EXCEPT ![g] = "in_progress"]
      BY <1>2, <2>1, <2>2 DEF Verdict
    <3> QED
      BY <1>1, <3>1 DEF R!Begin
  <2>3. CASE row[g].state = "in_progress"
    <3>1. UNCHANGED Verdict
      BY <2>1, <2>3, VerdictsStay
    <3> QED
      BY <1>1, <3>1 DEF R!rollout
  <2> QED
    BY <1>4, <2>2, <2>3 DEF Claimable
<1> QED
  BY <1>3, <1>4

LEMMA FireMapped ==
  ASSUME All, Orderly, Judged, NEW w \in Workers, FirePreview(w) \/ FirePromote(w)
  PROVE  (\E e \in Effects : R!Fire(work[w].g, e)) \/ UNCHANGED R!rollout
<1>1. UNCHANGED <<verified, Verdict, Standing>>
  BY DEF FirePreview, FirePromote, db, Verdict, Standing
<1>2. Verdict[work[w].g] # "absent"
  BY StepsBegun DEF FirePreview, FirePromote, Steps
<1>3. CASE FirePreview(w)
  <2>1. done[work[w].g]["preview"] = 0
    BY <1>3, FireOnce
  <2>2. done' = [done EXCEPT ![work[w].g] = [done[work[w].g] EXCEPT !["preview"] = 1]]
    BY <1>3, <2>1 DEF FirePreview
  <2> QED
    BY <1>1, <1>2, <2>1, <2>2 DEF R!Fire, Effects
<1>4. CASE FirePromote(w) /\ work[w].r \notin gone
  <2>1. done[work[w].g]["promote"] = 0
    BY <1>4, FireOnce
  <2>2. done' = [done EXCEPT ![work[w].g] = [done[work[w].g] EXCEPT !["promote"] = 1]]
    BY <1>4, <2>1 DEF FirePromote
  <2>3. Verdict[work[w].g] # "preview_failed"
    BY <1>4, RejectedIsNotPromoted, FireOnce DEF FirePromote, Verdict
  <2> QED
    BY <1>1, <1>2, <2>1, <2>2, <2>3 DEF R!Fire, Effects
<1>5. CASE FirePromote(w) /\ work[w].r \in gone
  BY <1>1, <1>5 DEF FirePromote, R!rollout
<1> QED
  BY <1>3, <1>4, <1>5

\* The release that is recorded as live is the only one of its group that got
\* beyond its build, so no verdict tells of another.
LEMMA RecordMapped ==
  ASSUME All, Orderly, NEW w \in Workers, Record(w)
  PROVE  (\E r \in Releases : R!GoLive(r)) \/ UNCHANGED R!rollout
<1>1. UNCHANGED <<done, verified, Verdict>>
  BY DEF Record, provider, Verdict
<1>2. CASE rel[work[w].r] # "preview"
  <2>1. UNCHANGED Standing
    BY <1>2 DEF Record, Standing
  <2> QED
    BY <1>1, <2>1 DEF R!rollout
<1>3. CASE rel[work[w].r] = "preview"
  <2>1. PICK r : r = work[w].r
    OBVIOUS
  <2>2. r \in Releases /\ r[1] = work[w].g /\ r[1] \in Groups
    BY <2>1 DEF Record, WithRelease, All, Typed, Shaped, Evident, Own, Releases
  <2>3. \A q \in Releases : q[1] = r[1] /\ q # r => ~Beyond(q)
    BY <1>3, <2>1, <2>2 DEF Orderly, OneBeyond, Beyond
  <2>4. \A q \in Releases : q[1] = r[1] => ~Was(q) /\ ~Torn(q) /\ ~Past(q)
    BY <1>3, <2>1, <2>3 DEF Beyond, Was, Torn, Past
  <2>5. Verdict[r[1]] \in {"in_progress", "needs_attention"}
    <3>1. row[r[1]].state \in {"absent", "in_progress"} \cup Verdicts
      BY <2>2 DEF All, Typed, TypeOK, Row
    <3>2. row[r[1]].state # "absent"
      BY <2>2, StepsBegun DEF Record, Steps, Verdict
    <3>3. row[r[1]].state # "completed"
      BY <2>2, <2>4 DEF All, Evident, Ended, OfLive
    <3>4. row[r[1]].state # "preview_failed"
      BY <2>2, <2>4 DEF Orderly, Failed
    <3>5. row[r[1]].state # "rolled_back"
      BY <2>2, <2>4 DEF Orderly, Rolled
    <3> QED
      BY <2>2, <3>1, <3>2, <3>3, <3>4, <3>5 DEF Verdicts, Verdict
  <2>6. done[r[1]]["promote"] = 1
    BY <2>2 DEF Record, Orderly, Recorded
  <2>7. \A q \in R!Of(r[1]) : Standing[q] = "never"
    BY <2>4 DEF R!Of, Standing, StandingOf, Was
  <2>8. Standing' = [q \in Releases |-> IF q = r THEN "live"
                       ELSE IF Standing[q] = "live" THEN "past" ELSE Standing[q]]
    <3>1. rel' = Superseding(r, "live")
      BY <1>3, <2>1 DEF Record
    <3>2. \A q \in Releases :
            StandingOf(rel'[q]) = IF q = r THEN "live" ELSE IF StandingOf(rel[q]) = "live" THEN "past"
                                                                         ELSE StandingOf(rel[q])
      BY <3>1 DEF Superseding, StandingOf
    <3> QED
      BY <3>2 DEF Standing
  <2>9. R!GoLive(r)
    BY <1>1, <2>5, <2>6, <2>7, <2>8 DEF R!GoLive
  <2> QED
    BY <2>2, <2>9
<1> QED
  BY <1>2, <1>3

LEMMA RestoreMapped ==
  ASSUME All, Orderly, NEW w \in Workers, Restore(w)
  PROVE  R!Withdraw \/ UNCHANGED R!rollout
<1>1. UNCHANGED <<done, verified, Verdict>>
  BY DEF Restore, provider, Verdict
<1>2. PICK q : q = prev[work[w].r]
  OBVIOUS
<1>3. q = None \/ (q \in Releases /\ Past(q))
  BY <1>2 DEF Restore, WithRelease, All, Typed, TypeOK, Shaped, Orderly, PriorPast
<1>4. None \notin Releases
  BY DEF None, Releases
<1>5. rel' = Superseding(q, "rolled_back")
  BY <1>2 DEF Restore
<1>6. \A x \in Releases :
        StandingOf(rel'[x]) = IF StandingOf(rel[x]) = "live" THEN "past" ELSE StandingOf(rel[x])
  BY <1>3, <1>4, <1>5 DEF Superseding, StandingOf, Past
<1>7. Standing' = [x \in Releases |-> IF Standing[x] = "live" THEN "past" ELSE Standing[x]]
  BY <1>6 DEF Standing
<1>8. \E x \in Releases : Standing[x] = "past"
  <2>2. q # None
    BY <1>2 DEF Restore, Orderly, Backed
  <2> QED
    BY <1>3, <2>2 DEF Past, Standing, StandingOf
<1> QED
  BY <1>1, <1>7, <1>8 DEF R!Withdraw
LEMMA VerifyMapped ==
  ASSUME All, NEW w \in Workers, Attest(w) \/ \E g \in Groups : Recover(w, g)
  PROVE  (\E g \in Groups : R!Verify(g)) \/ UNCHANGED R!rollout
<1>1. UNCHANGED <<done, Standing>>
  BY DEF Attest, Recover, provider, Standing
<1>2. UNCHANGED Verdict
  BY DEF Attest, Recover, Verdict
<1>3. \A r \in Releases : Was(r) => Standing[r] # "never"
  BY DEF Was, Standing, StandingOf
<1>4. UNCHANGED verified => UNCHANGED R!rollout
  BY <1>1, <1>2 DEF R!rollout
<1>5. ASSUME NEW g \in Groups, verified' = verified \cup {g}, \E r \in Releases : r[1] = g /\ Was(r)
      PROVE  R!Verify(g)
  BY <1>1, <1>2, <1>3, <1>5 DEF R!Verify, R!Of
<1>6. CASE Attest(w)
  <2>1. work[w].g \in Groups /\ \E r \in Releases : r[1] = work[w].g /\ Was(r)
    BY <1>6 DEF Attest, WithRelease, All, Typed, Shaped, Evident, Own, Shown
  <2> QED
    BY <1>4, <1>5, <1>6, <2>1 DEF Attest
<1>7. ASSUME NEW g \in Groups, Recover(w, g)
      PROVE  (\E h \in Groups : R!Verify(h)) \/ UNCHANGED R!rollout
  BY <1>4, <1>5, <1>7 DEF Recover, LiveOf, Was
<1> QED
  BY <1>6, <1>7

\* The owner's verdict is what became of the release.
LEMMA FinalizeMapped ==
  ASSUME All, Orderly, Judged, NEW w \in Workers, Finalize(w)
  PROVE  (\E v \in Verdicts : R!Conclude(work[w].g, v)) \/ UNCHANGED R!rollout
<1> DEFINE g == work[w].g
           v == work[w].out
<1>1. UNCHANGED <<done, verified, Standing>>
  BY DEF Finalize, db, provider, Standing
<1>2. CASE ~Holds(w)
  BY <1>1, <1>2 DEF Finalize, Verdict, R!rollout
<1>3. CASE Holds(w)
  <2>1. g \in Groups /\ v \in Verdicts /\ Verdict[g] = "in_progress"
    BY <1>3 DEF Finalize, Holds, All, Typed, Shaped, Verdict
  <2>2. \A h \in Groups : row'[h].state = IF h = g THEN v ELSE row[h].state
    BY <1>3 DEF Finalize, All, Typed, TypeOK, Row
  <2>3. Verdict' = [Verdict EXCEPT ![g] = v]
    BY <2>1, <2>2 DEF Verdict
  <2>4. v = "completed" => g \in verified
    BY DEF Finalize, All, Evident, Proven
  <2>5. v = "rolled_back" => \E r \in R!Of(g) : Standing[r] = "past"
    <3>1. \A r \in Releases : Past(r) => Standing[r] = "past"
      BY DEF Past, Standing, StandingOf
    <3> QED
      BY <3>1 DEF Finalize, Orderly, Rolled, About, R!Of
  <2>6. v = "preview_failed" => \A r \in R!Of(g) : Standing[r] = "never"
    <3>1. \A r \in Releases : ~Was(r) => Standing[r] = "never"
      BY DEF Was, Standing, StandingOf
    <3>2. \A r \in Releases : Torn(r) => Beyond(r) /\ ~Was(r)
      BY DEF Torn, Beyond, Was
    <3>3. \A r \in Releases : Was(r) => Beyond(r)
      BY DEF Was, Beyond
    <3>4. v = "preview_failed" => \E r \in Releases : r[1] = g /\ Torn(r)
      BY DEF Finalize, Orderly, Failed, About
    <3> QED
      BY <3>1, <3>2, <3>3, <3>4 DEF Orderly, OneBeyond, R!Of
  <2>7. v = "preview_failed" => done[g]["promote"] = 0
    BY RejectedIsNotPromoted DEF Finalize, About
  <2>8. R!Conclude(g, v)
    BY <1>1, <2>1, <2>3, <2>4, <2>5, <2>6, <2>7 DEF R!Conclude
  <2> QED
    BY <2>1, <2>8
<1> QED
  BY <1>2, <1>3

\* The steps that do not show.
LEMMA UnseenMapped ==
  ASSUME All, NEW w \in Workers,
         \/ Build(w) \/ Preview(w) \/ Persist(w) \/ Vet(w) \/ Reject(w) \/ Abandon(w)
         \/ Promote(w) \/ Ready(w) \/ Prove(w) \/ RollBack(w) \/ Throw(w) \/ Crash(w)
         \/ \E e \in Effects : Intend(w, e) \/ Refuse(w, e)
  PROVE  UNCHANGED R!rollout
<1>t. row \in [Groups -> Row] /\ rel \in [Releases -> States]
  BY DEF All, Typed, TypeOK
<1>1. UNCHANGED <<done, verified>>
  BY DEF Build, Preview, Persist, Vet, Reject, Abandon, Promote, Ready, Prove, RollBack, Throw,
         Crash, Intend, Refuse, db, provider
<1>2. UNCHANGED Standing
  <2>1. UNCHANGED rel => UNCHANGED Standing
    BY DEF Standing
  <2>2. CASE Build(w)
    <3>1. rel[<<work[w].g, work[w].k>>] = "absent"
      BY <2>2 DEF Build, All, Evident, Unbuilt
    <3>2. \A r \in Releases : StandingOf(rel'[r]) = StandingOf(rel[r])
      BY <1>t, <2>2, <3>1 DEF Build, StandingOf
    <3> QED
      BY <3>2, StandingsStay
  <2>3. CASE Persist(w)
    <3>1. \A r \in Releases : StandingOf(rel'[r]) = StandingOf(rel[r])
      BY <1>t, <2>3 DEF Persist, StandingOf
    <3> QED
      BY <3>1, StandingsStay
  <2>4. CASE Reject(w) \/ Abandon(w)
    <3>1. \A r \in Releases : StandingOf(rel'[r]) = StandingOf(rel[r])
      BY <1>t, <2>4 DEF Reject, Abandon, TearDown, StandingOf
    <3> QED
      BY <3>1, StandingsStay
  <2> QED
    BY <2>1, <2>2, <2>3, <2>4
       DEF Preview, Vet, Promote, Ready, Prove, RollBack, Throw, Crash, Intend, Refuse, db
<1>3. UNCHANGED Verdict
  <2>1. UNCHANGED row => UNCHANGED Verdict
    BY DEF Verdict
  <2>2. ASSUME NEW e \in Effects, Intend(w, e) \/ Refuse(w, e)
        PROVE  UNCHANGED Verdict
    <3>1. \A g \in Groups : row'[g].state = row[g].state
      BY <1>t, <2>2 DEF Intend, Refuse, Row
    <3> QED
      BY <3>1, VerdictsStay
  <2> QED
    BY <2>1, <2>2, BeatStays
       DEF Build, Preview, Persist, Vet, Reject, Abandon, Promote, Ready, Prove, RollBack, Throw,
           Crash, All
<1> QED
  BY <1>1, <1>2, <1>3 DEF R!rollout

LEMMA NextMapped ==
  ASSUME All, Orderly, Judged, [Next]_vars
  PROVE  [R!Next]_(R!rollout)
<1>g. \A w \in Workers : Claim(w) \/ FirePreview(w) \/ FirePromote(w) \/ Finalize(w)
                          => work[w].g \in Groups
  BY DEF Claim, FirePreview, FirePromote, Finalize, All, Typed, Shaped
<1>1. ASSUME NEW w \in Workers, Claim(w)
      PROVE  R!Next \/ UNCHANGED R!rollout
  BY <1>1, <1>g, ClaimMapped DEF R!Next
<1>2. ASSUME NEW w \in Workers, FirePreview(w) \/ FirePromote(w)
      PROVE  R!Next \/ UNCHANGED R!rollout
  BY <1>2, <1>g, FireMapped DEF R!Next
<1>3. ASSUME NEW w \in Workers, Record(w)
      PROVE  R!Next \/ UNCHANGED R!rollout
  BY <1>3, RecordMapped DEF R!Next
<1>4. ASSUME NEW w \in Workers, Restore(w)
      PROVE  R!Next \/ UNCHANGED R!rollout
  BY <1>4, RestoreMapped DEF R!Next
<1>5. ASSUME NEW w \in Workers, Attest(w) \/ \E g \in Groups : Recover(w, g)
      PROVE  R!Next \/ UNCHANGED R!rollout
  BY <1>5, VerifyMapped DEF R!Next
<1>6. ASSUME NEW w \in Workers, Finalize(w)
      PROVE  R!Next \/ UNCHANGED R!rollout
  BY <1>6, <1>g, FinalizeMapped DEF R!Next
<1>7. ASSUME NEW g \in Groups, Lapse(g) \/ Stall(g)
      PROVE  UNCHANGED R!rollout
  <2>1. \A h \in Groups : row'[h].state = row[h].state
    BY <1>7 DEF Lapse, Stall, All, Typed, TypeOK, Row
  <2> QED
    BY <1>7, <2>1 DEF Lapse, Stall, db, provider, R!rollout, Verdict, Standing
<1>8. UNCHANGED vars => UNCHANGED R!rollout
  BY DEF vars, R!rollout, Verdict, Standing
<1> QED
  BY <1>1, <1>2, <1>3, <1>4, <1>5, <1>6, <1>7, <1>8, UnseenMapped DEF Next, Step

\* Any number of workers whose claims lapse and are taken over, who stall, crash,
\* are refused and throw implement the one rollout: each group has one release
\* live, once, and one verdict that says what became of it, and no group is
\* both rejected and promoted (OUTCOME_REASON).
THEOREM RollsOut == Spec => ImplementsRollout
<1>1. Typed /\ [Next]_vars => Typed'
  BY KindTyped, RestTyped DEF Typed, TypeOK
<1>2. Typed /\ Fenced /\ [Next]_vars => Fenced'
  BY NextFenced
<1>3. Typed /\ Fenced /\ Evident /\ [Next]_vars => Evident'
  BY NextEvident DEF All
<1>4. Typed /\ Fenced /\ Evident /\ Orderly /\ [Next]_vars => Orderly'
  BY NextOrderly DEF All
<1>5. Typed /\ Fenced /\ Evident /\ Orderly /\ Judged /\ [Next]_vars => Judged' /\ [R!Next]_(R!rollout)
  BY NextJudged, NextMapped DEF All
<1> QED
  BY <1>1, <1>2, <1>3, <1>4, <1>5, InitTyped, InitFenced, InitEvident, InitOrderly, InitJudged,
     InitMapped, PTL
     DEF Spec, ImplementsRollout, R!Spec
=============================================================================
