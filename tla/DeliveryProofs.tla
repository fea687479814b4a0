--------------------------- MODULE DeliveryProofs ---------------------------
(***************************************************************************)
(* What holds of the delivery of any number of groups by any number of     *)
(* workers, whatever fails: a provider is asked for each effect of a group *)
(* at most once, one release is live, and a verdict is final.              *)
(***************************************************************************)
EXTENDS Delivery, TLAPS

-----------------------------------------------------------------------------
(* Types *)

WithRelease == {"vetting", "rejecting", "promoting", "intending_promote", "firing_promote",
                "recording", "readying", "attesting", "proving", "rolling", "restoring",
                "abandoning"}

\* A drive has its group, and from its preview on its release; it ends with a
\* verdict.
Shaped(x) ==
  /\ x.at # "idle" => x.g \in Groups
  /\ x.at \in Steps => x.k \in Claims
  /\ x.at \in WithRelease => x.r \in Releases
  /\ x.at = "finalizing" => x.out \in Verdicts

Typed == TypeOK /\ \A w \in Workers : Shaped(work[w])

LEMMA InitTyped == Init => Typed
  BY BoundsAssumption, NodesAssumption
     DEF Init, Typed, TypeOK, Shaped, Idle, Row, Work, States, Steps, WithRelease, Claims

LEMMA IdleShape == Idle \in Work /\ Shaped(Idle) /\ Idle.at = "idle"
  BY BoundsAssumption DEF Idle, Work, Shaped, Steps, WithRelease

\* Only the step of the worker changes.
LEMMA ToShape ==
  ASSUME Typed, NEW w \in Workers, work[w].at \in Steps,
         NEW s \in Steps \ {"finalizing"},
         s \in WithRelease => work[w].r \in Releases
  PROVE  /\ To(w, s) \in Work /\ Shaped(To(w, s))
         /\ To(w, s).at = s /\ To(w, s).g = work[w].g /\ To(w, s).k = work[w].k
<1>1. To(w, s) = [at |-> s, g |-> work[w].g, k |-> work[w].k, r |-> work[w].r,
                  prior |-> work[w].prior, out |-> work[w].out]
  BY DEF To, Typed, TypeOK, Work
<1>2. work[w].g \in Groups /\ work[w].k \in Claims
  BY DEF Typed, Shaped, Steps
<1> QED
  BY <1>1, <1>2 DEF Typed, TypeOK, Work, Shaped

LEMMA EndingShape ==
  ASSUME Typed, NEW w \in Workers, work[w].at \in Steps, NEW v \in Verdicts
  PROVE  /\ Ending(w, v) \in Work /\ Shaped(Ending(w, v))
         /\ Ending(w, v).at = "finalizing"
         /\ Ending(w, v).g = work[w].g /\ Ending(w, v).k = work[w].k
<1>0. work[w] \in Work
  BY DEF Typed, TypeOK
<1>1. ASSUME NEW x, x = Ending(w, v)
      PROVE  x = [at |-> "finalizing", g |-> work[w].g, k |-> work[w].k, r |-> work[w].r,
                  prior |-> work[w].prior, out |-> v]
  BY <1>0, <1>1 DEF Ending, Work
<1>2. work[w].g \in Groups /\ work[w].k \in Claims
  BY DEF Typed, Shaped, Steps
<1> QED
  BY <1>1, <1>2 DEF Typed, TypeOK, Work, Shaped, WithRelease, Steps

\* The worker has found its release and goes on to a step that needs it.
LEMMA WithShape ==
  ASSUME Typed, NEW w \in Workers, work[w].at \in Steps,
         NEW s \in {"vetting", "abandoning"}, NEW r \in Releases
  PROVE  /\ With(w, s, r) \in Work /\ Shaped(With(w, s, r))
         /\ With(w, s, r).at = s
         /\ With(w, s, r).g = work[w].g /\ With(w, s, r).k = work[w].k
<1>0. work[w] \in Work
  BY DEF Typed, TypeOK
<1>1. ASSUME NEW x, x = With(w, s, r)
      PROVE  x = [at |-> s, g |-> work[w].g, k |-> work[w].k, r |-> r,
                  prior |-> work[w].prior, out |-> work[w].out]
  BY <1>0, <1>1 DEF With, Work
<1>2. work[w].g \in Groups /\ work[w].k \in Claims
  BY DEF Typed, Shaped, Steps
<1> QED
  BY <1>1, <1>2 DEF Typed, TypeOK, Work, Shaped, WithRelease, Steps

-----------------------------------------------------------------------------
(* What a step does to the workers and to the rows *)

\* The row keeps its claim and its intents, and its state unless it is claimed.
SameRow(g) == /\ row'[g].token = row[g].token
              /\ row'[g].intents = row[g].intents
              /\ row'[g].state = row[g].state \/ row[g].state = "in_progress"
SameRows == row' \in [Groups -> Row] /\ \A g \in Groups : SameRow(g)

\* Worker w moves on in its drive or leaves it, and is about no effect.
Fencing == {"intending_preview", "firing_preview", "intending_promote", "firing_promote"}
Moves(w) ==
  /\ work' \in [Workers -> Work]
  /\ \A v \in Workers \ {w} : work'[v] = work[v]
  /\ Shaped(work'[w])
  /\ work'[w].at \notin Fencing
  /\ work'[w].at \in Steps => /\ work[w].at \in Steps
                              /\ work'[w].g = work[w].g /\ work'[w].k = work[w].k

LEMMA BecomesMoves ==
  ASSUME Typed, NEW w \in Workers, NEW x \in Work, Shaped(x), Becomes(w, x),
         x.at \notin Fencing,
         x.at \in Steps => work[w].at \in Steps /\ x.g = work[w].g /\ x.k = work[w].k
  PROVE  Moves(w)
  BY DEF Moves, Becomes, Typed, TypeOK

LEMMA BeatMoves ==
  ASSUME Typed, NEW w \in Workers, work[w].at \in Steps,
         NEW x \in Work, Shaped(x), x.at \notin Fencing,
         x.at \in Steps => x.g = work[w].g /\ x.k = work[w].k,
         NEW y \in Work, Shaped(y), y.at \notin Fencing,
         y.at \in Steps => y.g = work[w].g /\ y.k = work[w].k,
         Beat(w, x, y)
  PROVE  Moves(w) /\ SameRows
<1>1. work[w].g \in Groups
  BY DEF Typed, Shaped, Steps
<1>2. Moves(w)
  BY BecomesMoves DEF Beat
<1>3. CASE Holds(w)
  <2> DEFINE h == work[w].g
             new == [row[h] EXCEPT !.fresh = TRUE]
  <2>1. new \in Row /\ new.token = row[h].token /\ new.intents = row[h].intents
        /\ new.state = row[h].state
    BY <1>1 DEF Typed, TypeOK, Row
  <2>2. row' = [row EXCEPT ![h] = new]
    BY <1>1, <1>3 DEF Beat
  <2> HIDE DEF new
  <2> QED
    BY <1>1, <1>2, <2>1, <2>2 DEF SameRow, SameRows, Typed, TypeOK
<1>4. CASE ~Holds(w)
  BY <1>2, <1>4 DEF Beat, SameRow, SameRows, Typed, TypeOK
<1> QED
  BY <1>3, <1>4

LEMMA RowsStay == Typed /\ UNCHANGED row => SameRows
  BY DEF SameRows, SameRow, Typed, TypeOK

\* The steps that neither claim nor are about an effect.
Quiet(w) == Moves(w) /\ SameRows

LEMMA QuietStep ==
  ASSUME Typed, NEW w \in Workers,
         \/ Build(w) \/ Persist(w) \/ Vet(w) \/ Reject(w) \/ Abandon(w) \/ Record(w)
         \/ Ready(w) \/ Attest(w) \/ Prove(w) \/ RollBack(w) \/ Restore(w) \/ Finalize(w)
         \/ Throw(w) \/ Crash(w) \/ \E g \in Groups : Recover(w, g)
  PROVE  Quiet(w)
<1>a. ASSUME NEW s \in Steps \ ({"finalizing"} \cup Fencing), work[w].at \in Steps,
             s \in WithRelease => work[w].r \in Releases, Becomes(w, To(w, s))
      PROVE  Moves(w)
  BY <1>a, ToShape, BecomesMoves
<1>b. ASSUME NEW v \in Verdicts, work[w].at \in Steps, Becomes(w, Ending(w, v))
      PROVE  Moves(w)
  BY <1>b, EndingShape, BecomesMoves DEF Fencing
<1>c. ASSUME Becomes(w, Idle) PROVE Moves(w)
  BY <1>c, IdleShape, BecomesMoves DEF Fencing, Steps
<1>i. Idle.at \notin Steps /\ Idle.at \notin Fencing
  BY IdleShape DEF Fencing, Steps
<1>r. work[w].at \in WithRelease => work[w].r \in Releases
  BY DEF Typed, Shaped
<1>v. {"preview_failed", "completed", "rolled_back", "needs_attention"} \subseteq Verdicts
  BY DEF Verdicts
<1>1. CASE Build(w)
  <2>1. work[w].at \in Steps /\ "previewing" \in Steps \ ({"finalizing"} \cup Fencing \cup WithRelease)
    BY <1>1 DEF Build, Steps, Fencing, WithRelease
  <2>2. Beat(w, To(w, "previewing"), Idle)
    BY <1>1 DEF Build
  <2> QED
    BY <2>1, <2>2, <1>i, ToShape, IdleShape, BeatMoves DEF Quiet
<1>2. CASE Persist(w)
  <2>1. work[w].at \in Steps /\ {"vetting", "abandoning"} \cap Fencing = {}
    BY <1>2 DEF Persist, Steps, Fencing
  <2>2. PICK r \in Releases : Beat(w, With(w, "vetting", r), With(w, "abandoning", r))
    BY <1>2 DEF Persist
  <2> QED
    BY <2>1, <2>2, WithShape, BeatMoves DEF Quiet
<1>3. CASE Vet(w)
  <2>1. work[w].at \in Steps \cap WithRelease
    BY <1>3 DEF Vet, Steps, WithRelease
  <2>2. {"promoting", "abandoning", "rejecting"} \subseteq Steps \ ({"finalizing"} \cup Fencing)
    BY DEF Steps, Fencing
  <2>3. CASE Beat(w, To(w, "promoting"), To(w, "abandoning"))
    BY <2>1, <2>2, <2>3, <1>r, ToShape, BeatMoves DEF Quiet
  <2>4. CASE UNCHANGED row /\ Becomes(w, To(w, "rejecting"))
    BY <2>1, <2>2, <2>4, <1>r, <1>a, RowsStay DEF Quiet
  <2> QED
    BY <1>3, <2>3, <2>4 DEF Vet
<1>4. CASE Reject(w)
  BY <1>4, <1>b, <1>v, RowsStay DEF Reject, Quiet, Steps
<1>5. CASE Abandon(w)
  BY <1>5, <1>c, RowsStay DEF Abandon, Quiet
<1>6. CASE Record(w)
  <2>1. work[w].at \in Steps \cap WithRelease
    BY <1>6 DEF Record, Steps, WithRelease
  <2>2. "readying" \in Steps \ ({"finalizing"} \cup Fencing)
    BY DEF Steps, Fencing
  <2>3. UNCHANGED row /\ (Becomes(w, To(w, "readying")) \/ Becomes(w, Ending(w, "needs_attention")))
    BY <1>6 DEF Record
  <2> QED
    BY <2>1, <2>2, <2>3, <1>a, <1>b, <1>r, <1>v, RowsStay DEF Quiet
<1>7. CASE Ready(w)
  <2>1. work[w].at \in Steps \cap WithRelease
    BY <1>7 DEF Ready, Steps, WithRelease
  <2>2. {"attesting", "abandoning"} \subseteq Steps \ ({"finalizing"} \cup Fencing)
    BY DEF Steps, Fencing
  <2>3. CASE Beat(w, To(w, "attesting"), To(w, "abandoning"))
    BY <2>1, <2>2, <2>3, <1>r, ToShape, BeatMoves DEF Quiet
  <2>4. CASE UNCHANGED row /\ Becomes(w, Ending(w, "needs_attention"))
    BY <2>1, <2>4, <1>b, <1>v, RowsStay DEF Quiet
  <2> QED
    BY <1>7, <2>3, <2>4 DEF Ready
<1>15. CASE Attest(w)
  <2>1. work[w].at \in Steps \cap WithRelease
    BY <1>15 DEF Attest, Steps, WithRelease
  <2>2. "proving" \in Steps \ ({"finalizing"} \cup Fencing)
    BY DEF Steps, Fencing
  <2>3. UNCHANGED row /\ (Becomes(w, To(w, "proving")) \/ Becomes(w, Ending(w, "needs_attention")))
    BY <1>15 DEF Attest
  <2> QED
    BY <2>1, <2>2, <2>3, <1>a, <1>b, <1>r, <1>v, RowsStay DEF Quiet
<1>8. CASE Prove(w)
  <2>1. work[w].at \in Steps \cap WithRelease
    BY <1>8 DEF Prove, Steps, WithRelease
  <2>2. "rolling" \in Steps \ ({"finalizing"} \cup Fencing)
    BY DEF Steps, Fencing
  <2>3. UNCHANGED row /\ (\/ Becomes(w, To(w, "rolling"))
                         \/ \E v \in Verdicts : Becomes(w, Ending(w, v)))
    BY <1>8, <1>v DEF Prove
  <2> QED
    BY <2>1, <2>2, <2>3, <1>a, <1>b, <1>r, RowsStay DEF Quiet
<1>9. CASE RollBack(w)
  <2>1. work[w].at \in Steps \cap WithRelease
    BY <1>9 DEF RollBack, Steps, WithRelease
  <2>2. "restoring" \in Steps \ ({"finalizing"} \cup Fencing)
    BY DEF Steps, Fencing
  <2>3. UNCHANGED row /\ Becomes(w, To(w, "restoring"))
    BY <1>9 DEF RollBack
  <2> QED
    BY <2>1, <2>2, <2>3, <1>a, <1>r, RowsStay DEF Quiet
<1>10. CASE Restore(w)
  BY <1>10, <1>b, <1>v, RowsStay DEF Restore, Quiet, Steps
<1>11. CASE Finalize(w)
  <2>1. Moves(w)
    BY <1>11, <1>c DEF Finalize
  <2>2. CASE ~Holds(w)
    BY <1>11, <2>1, <2>2, RowsStay DEF Finalize, Quiet
  <2>3. CASE Holds(w)
    <3> DEFINE h == work[w].g
               new == [row[h] EXCEPT !.state = work[w].out]
    <3>1. h \in Groups /\ work[w].out \in Verdicts /\ row[h].state = "in_progress"
      BY <1>11, <2>3 DEF Finalize, Typed, Shaped, Holds
    <3>2. new \in Row /\ new.token = row[h].token /\ new.intents = row[h].intents
      BY <3>1 DEF Typed, TypeOK, Row
    <3>3. row' = [row EXCEPT ![h] = new]
      BY <1>11, <2>3 DEF Finalize
    <3> HIDE DEF new
    <3> QED
      BY <2>1, <3>1, <3>2, <3>3 DEF Quiet, SameRows, SameRow, Typed, TypeOK
  <2> QED
    BY <2>2, <2>3
<1>12. CASE Throw(w)
  BY <1>12, <1>b, <1>v, RowsStay DEF Throw, Quiet
<1>13. CASE Crash(w)
  BY <1>13, <1>c, RowsStay DEF Crash, Quiet
<1>14. ASSUME NEW g \in Groups, Recover(w, g)
       PROVE  Quiet(w)
  <2>x. PICK x : x = [Idle EXCEPT !.at = "claiming", !.g = g]
    OBVIOUS
  <2>1. x = [at |-> "claiming", g |-> g, k |-> 0, r |-> None, prior |-> None, out |-> "none"]
    BY <2>x DEF Idle
  <2>2. x \in Work /\ Shaped(x) /\ x.at \notin Steps \cup Fencing
    BY <2>1, BoundsAssumption DEF Work, Shaped, Steps, Fencing, WithRelease
  <2>3. Becomes(w, x) /\ UNCHANGED row
    BY <1>14, <2>x DEF Recover
  <2> QED
    BY <2>2, <2>3, BecomesMoves, RowsStay DEF Quiet
<1> QED
  BY <1>1, <1>2, <1>3, <1>4, <1>5, <1>6, <1>7, <1>8, <1>9, <1>10, <1>11, <1>12, <1>13, <1>14,
     <1>15

-----------------------------------------------------------------------------
(* The steps that claim, or are about an effect *)

Placed(w, x) == x \in Work /\ Shaped(x) /\ Becomes(w, x)

\* Worker w gets the next token of a group that has no verdict.
Claiming(w) ==
  LET g == work[w].g IN
  /\ g \in Groups
  /\ \E x : Placed(w, x) /\ x.at = "building" /\ x.g = g /\ x.k = row[g].token + 1
  /\ row' \in [Groups -> Row]
  /\ \A h \in Groups \ {g} : row'[h] = row[h]
  /\ row'[g].token = row[g].token + 1 /\ row'[g].intents = row[g].intents
  /\ row[g].state \notin Verdicts
  /\ UNCHANGED done

\* It goes on to an effect that nobody has announced.
Planning(w, e) ==
  /\ work[w].at \in Steps
  /\ \E x : Placed(w, x) /\ x.at = Intending(e) /\ x.g = work[w].g /\ x.k = work[w].k
  /\ e \notin row[work[w].g].intents
  /\ UNCHANGED <<row, done>>

\* It announces the effect, as the owner.
Marking(w, e) ==
  LET g == work[w].g IN
  /\ g \in Groups /\ work[w].at = Intending(e) /\ Holds(w)
  /\ \E x : Placed(w, x) /\ x.at = Firing(e) /\ x.g = g /\ x.k = work[w].k
  /\ row' \in [Groups -> Row]
  /\ \A h \in Groups \ {g} : row'[h] = row[h]
  /\ row'[g].token = row[g].token /\ row'[g].intents = row[g].intents \cup {e}
  /\ row'[g].state = row[g].state
  /\ UNCHANGED done

\* It takes the announcement back.
Clearing(w, e) ==
  LET g == work[w].g IN
  /\ g \in Groups /\ work[w].at = Firing(e) /\ Holds(w)
  /\ Placed(w, Idle)
  /\ row' \in [Groups -> Row]
  /\ \A h \in Groups \ {g} : row'[h] = row[h]
  /\ row'[g].token = row[g].token /\ row'[g].intents = row[g].intents \ {e}
  /\ row'[g].state = row[g].state
  /\ UNCHANGED done

\* It has the provider do it.
Doing(w, e) ==
  LET g == work[w].g IN
  /\ g \in Groups /\ work[w].at = Firing(e)
  /\ Moves(w)
  /\ done' = [done EXCEPT ![g] = [done[g] EXCEPT ![e] = done[g][e] + 1]]
  /\ UNCHANGED row

AboutEffect(w) ==
  \/ Quiet(w) /\ UNCHANGED done
  \/ Claiming(w)
  \/ \E e \in Effects : Planning(w, e) \/ Marking(w, e) \/ Clearing(w, e) \/ Doing(w, e)

LEMMA EffectSteps ==
  \A e \in Effects : /\ Intending(e) \in Steps \cap Fencing /\ Firing(e) \in Steps \cap Fencing
                     /\ Intending(e) # "finalizing" /\ Firing(e) # "finalizing"
                     /\ \A d \in Effects : /\ Intending(e) # Firing(d)
                                           /\ Firing(e) = Firing(d) => e = d
                                           /\ Intending(e) = Intending(d) => e = d
  BY DEF Effects, Intending, Firing, Steps, Fencing

LEMMA LostShape ==
  ASSUME Typed, NEW w \in Workers, NEW e \in Effects,
         work[w].at \in {Intending(e), Firing(e)}, Becomes(w, Lost(w, e))
  PROVE  Moves(w)
<1>1. CASE e = "preview"
  BY <1>1, IdleShape, BecomesMoves DEF Lost, Fencing, Steps
<1>2. CASE e = "promote"
  <2>1. work[w].at \in Steps \cap WithRelease
    BY <1>2 DEF Intending, Firing, Steps, WithRelease
  <2>2. "abandoning" \in Steps \ ({"finalizing"} \cup Fencing) /\ work[w].r \in Releases
    BY <2>1 DEF Steps, Fencing, Typed, Shaped
  <2> QED
    BY <1>2, <2>1, <2>2, ToShape, BecomesMoves DEF Lost
<1> QED
  BY <1>1, <1>2 DEF Effects

LEMMA ClaimKind ==
  ASSUME Typed, NEW w \in Workers, Claim(w)
  PROVE  AboutEffect(w)
<1> DEFINE g == work[w].g
<1>1. g \in Groups /\ row[g].token \in Nat /\ row[g] \in Row
  BY DEF Claim, Typed, TypeOK, Shaped, Row
<1>2. CASE Claimable(g)
  <2>x. PICK x : x = [work[w] EXCEPT !.at = "building", !.k = row[g].token + 1]
    OBVIOUS
  <2>1. x = [at |-> "building", g |-> g, k |-> row[g].token + 1, r |-> work[w].r,
             prior |-> work[w].prior, out |-> work[w].out]
    BY <2>x DEF Typed, TypeOK, Work
  <2>2. row[g].token < MaxClaims
    BY <1>2 DEF Claim
  <2>3. x \in Work /\ Shaped(x)
    BY <1>1, <2>1, <2>2, BoundsAssumption
       DEF Typed, TypeOK, Work, Shaped, Steps, WithRelease, Claims
  <2>r. PICK new : new = [row[g] EXCEPT !.state = "in_progress", !.token = row[g].token + 1,
                                        !.fresh = TRUE]
    OBVIOUS
  <2>4. new = [state |-> "in_progress", token |-> row[g].token + 1, fresh |-> TRUE,
               intents |-> row[g].intents]
    BY <1>1, <2>r DEF Row
  <2>5. new \in Row
    BY <1>1, <2>2, <2>4, BoundsAssumption DEF Row
  <2>6. row' = [row EXCEPT ![g] = new]
    BY <1>1, <1>2, <2>r DEF Claim, Typed, TypeOK
  <2>7. Becomes(w, x) /\ UNCHANGED done
    BY <1>2, <2>x DEF Claim, provider
  <2>8. row[g].state \notin Verdicts
    BY <1>2 DEF Claimable, Verdicts
  <2>9. row' \in [Groups -> Row] /\ row'[g] = new /\ \A h \in Groups \ {g} : row'[h] = row[h]
    BY <1>1, <2>5, <2>6 DEF Typed, TypeOK
  <2>10. \E y : Placed(w, y) /\ y.at = "building" /\ y.g = g /\ y.k = row[g].token + 1
    BY <2>1, <2>3, <2>7 DEF Placed
  <2> QED
    BY <1>1, <2>4, <2>7, <2>8, <2>9, <2>10 DEF AboutEffect, Claiming
<1>3. CASE ~Claimable(g)
  BY <1>3, IdleShape, BecomesMoves, RowsStay DEF Claim, AboutEffect, Quiet, Fencing, Steps, provider
<1> QED
  BY <1>2, <1>3

LEMMA PreviewKind ==
  ASSUME Typed, NEW w \in Workers, Preview(w)
  PROVE  AboutEffect(w)
<1>1. work[w].at \in Steps /\ UNCHANGED done
  BY DEF Preview, Steps, provider
<1>2. ASSUME NEW r \in Releases, Beat(w, With(w, "vetting", r), With(w, "abandoning", r))
      PROVE  AboutEffect(w)
  <2>1. {"vetting", "abandoning"} \cap Fencing = {}
    BY DEF Fencing
  <2> QED
    BY <1>1, <1>2, <2>1, WithShape, BeatMoves DEF AboutEffect, Quiet
<1>3. ASSUME UNCHANGED row, Becomes(w, Ending(w, "needs_attention"))
      PROVE  AboutEffect(w)
  BY <1>1, <1>3, EndingShape, BecomesMoves, RowsStay DEF AboutEffect, Quiet, Fencing, Verdicts
<1>4. ASSUME UNCHANGED row, Becomes(w, To(w, "intending_preview")),
             "preview" \notin row[work[w].g].intents
      PROVE  AboutEffect(w)
  <2>1. "intending_preview" \in Steps \ {"finalizing"} /\ "intending_preview" \notin WithRelease
    BY DEF Steps, WithRelease
  <2>2. \E x : /\ Placed(w, x) /\ x.at = Intending("preview")
               /\ x.g = work[w].g /\ x.k = work[w].k
    BY <1>1, <1>4, <2>1, ToShape DEF Placed, Intending
  <2> QED
    BY <1>1, <1>4, <2>2 DEF AboutEffect, Planning, Effects
<1> QED
  BY <1>2, <1>3, <1>4 DEF Preview, Reusable

LEMMA PromoteKind ==
  ASSUME Typed, NEW w \in Workers, Promote(w)
  PROVE  AboutEffect(w)
<1>1. work[w].at \in Steps \cap WithRelease /\ UNCHANGED <<row, done>>
  BY DEF Promote, Steps, WithRelease, provider
<1>2. CASE Becomes(w, Ending(w, "needs_attention"))
  BY <1>1, <1>2, EndingShape, BecomesMoves, RowsStay DEF AboutEffect, Quiet, Fencing, Verdicts
<1>3. ASSUME NEW p \in SomeOf(Live), "promote" \notin row[work[w].g].intents,
             Becomes(w, [work[w] EXCEPT !.at = "intending_promote", !.prior = p])
      PROVE  AboutEffect(w)
  <2>x. PICK x : x = [work[w] EXCEPT !.at = "intending_promote", !.prior = p]
    OBVIOUS
  <2>1. x = [at |-> "intending_promote", g |-> work[w].g, k |-> work[w].k, r |-> work[w].r,
             prior |-> p, out |-> work[w].out]
    BY <2>x DEF Typed, TypeOK, Work
  <2>2. p \in Releases \cup {None}
    BY DEF SomeOf, Live
  <2>3. work[w].g \in Groups /\ work[w].k \in Claims /\ work[w].r \in Releases
    BY <1>1 DEF Typed, Shaped, Steps
  <2>4. x \in Work /\ Shaped(x)
    BY <2>1, <2>2, <2>3 DEF Typed, TypeOK, Work, Shaped, Steps
  <2>5. \E y : /\ Placed(w, y) /\ y.at = Intending("promote")
               /\ y.g = work[w].g /\ y.k = work[w].k
    BY <1>3, <2>x, <2>1, <2>4 DEF Placed, Intending
  <2> QED
    BY <1>1, <1>3, <2>5 DEF AboutEffect, Planning, Effects
<1> QED
  BY <1>2, <1>3 DEF Promote

LEMMA IntendKind ==
  ASSUME Typed, NEW w \in Workers, NEW e \in Effects, Intend(w, e)
  PROVE  AboutEffect(w)
<1> DEFINE g == work[w].g
<1>1. work[w].at = Intending(e) /\ UNCHANGED done
  BY DEF Intend, provider
<1>2. work[w].at \in Steps
  BY <1>1, EffectSteps
<1>3. g \in Groups /\ row[g] \in Row
  BY <1>2 DEF Typed, TypeOK, Shaped, Steps
<1>4. CASE ~Holds(w)
  BY <1>1, <1>4, LostShape, RowsStay DEF Intend, AboutEffect, Quiet
<1>5. CASE Holds(w)
  <2>r. PICK new : new = [row[g] EXCEPT !.intents = row[g].intents \cup {e}, !.fresh = TRUE]
    OBVIOUS
  <2>1. new = [state |-> row[g].state, token |-> row[g].token, fresh |-> TRUE,
               intents |-> row[g].intents \cup {e}]
    BY <1>3, <2>r DEF Row
  <2>2. new \in Row
    BY <1>3, <2>1 DEF Row
  <2>3. row' = [row EXCEPT ![g] = new]
    BY <1>3, <1>5, <2>r DEF Intend, Typed, TypeOK
  <2>4. row' \in [Groups -> Row] /\ row'[g] = new /\ \A h \in Groups \ {g} : row'[h] = row[h]
    BY <1>3, <2>2, <2>3 DEF Typed, TypeOK
  <2>5. Becomes(w, To(w, Firing(e)))
    BY <1>5 DEF Intend
  <2>6. Firing(e) \in WithRelease => work[w].r \in Releases
    BY <1>1 DEF Firing, Intending, WithRelease, Typed, Shaped, Effects
  <2>7. \E x : Placed(w, x) /\ x.at = Firing(e) /\ x.g = g /\ x.k = work[w].k
    BY <1>2, <2>5, <2>6, ToShape, EffectSteps DEF Placed
  <2> QED
    BY <1>1, <1>3, <1>5, <2>1, <2>4, <2>7 DEF AboutEffect, Marking
<1> QED
  BY <1>4, <1>5

LEMMA RefuseKind ==
  ASSUME Typed, NEW w \in Workers, NEW e \in Effects, Refuse(w, e)
  PROVE  AboutEffect(w)
<1> DEFINE g == work[w].g
<1>1. work[w].at = Firing(e) /\ UNCHANGED done
  BY DEF Refuse, provider
<1>2. work[w].at \in Steps
  BY <1>1, EffectSteps
<1>3. g \in Groups /\ row[g] \in Row
  BY <1>2 DEF Typed, TypeOK, Shaped, Steps
<1>4. CASE ~Holds(w)
  BY <1>1, <1>4, LostShape, RowsStay DEF Refuse, AboutEffect, Quiet
<1>5. CASE Holds(w)
  <2>r. PICK new : new = [row[g] EXCEPT !.intents = row[g].intents \ {e}, !.fresh = TRUE]
    OBVIOUS
  <2>1. new = [state |-> row[g].state, token |-> row[g].token, fresh |-> TRUE,
               intents |-> row[g].intents \ {e}]
    BY <1>3, <2>r DEF Row
  <2>2. new \in Row
    BY <1>3, <2>1 DEF Row
  <2>3. row' = [row EXCEPT ![g] = new]
    BY <1>3, <1>5, <2>r DEF Refuse, Typed, TypeOK
  <2>4. row' \in [Groups -> Row] /\ row'[g] = new /\ \A h \in Groups \ {g} : row'[h] = row[h]
    BY <1>3, <2>2, <2>3 DEF Typed, TypeOK
  <2>5. Placed(w, Idle)
    BY <1>5, IdleShape DEF Refuse, Placed
  <2> QED
    BY <1>1, <1>3, <1>5, <2>1, <2>4, <2>5 DEF AboutEffect, Clearing
<1> QED
  BY <1>4, <1>5

LEMMA FireKind ==
  ASSUME Typed, NEW w \in Workers, FirePreview(w) \/ FirePromote(w)
  PROVE  AboutEffect(w)
<1>1. CASE FirePreview(w)
  <2>1. work[w].at \in Steps /\ work[w].at = Firing("preview")
    BY <1>1 DEF FirePreview, Steps, Firing
  <2>2. "persisting" \in Steps \ ({"finalizing"} \cup Fencing) /\ "persisting" \notin WithRelease
    BY DEF Steps, Fencing, WithRelease
  <2>3. Moves(w)
    BY <1>1, <2>1, <2>2, ToShape, BecomesMoves DEF FirePreview
  <2>4. work[w].g \in Groups
    BY <2>1 DEF Typed, Shaped, Steps
  <2> QED
    BY <1>1, <2>1, <2>3, <2>4 DEF FirePreview, AboutEffect, Doing, Effects
<1>2. CASE FirePromote(w)
  <2>1. work[w].at \in Steps \cap WithRelease /\ work[w].at = Firing("promote") /\ UNCHANGED row
    BY <1>2 DEF FirePromote, Steps, WithRelease, Firing
  <2>2. "recording" \in Steps \ ({"finalizing"} \cup Fencing) /\ work[w].r \in Releases
    BY <2>1 DEF Steps, Fencing, Typed, Shaped
  <2>3. work[w].g \in Groups
    BY <2>1 DEF Typed, Shaped, Steps
  <2>4. CASE work[w].r \in gone
    BY <1>2, <2>1, <2>4, EndingShape, BecomesMoves, RowsStay
       DEF FirePromote, AboutEffect, Quiet, Fencing, Verdicts
  <2>5. CASE work[w].r \notin gone
    <3>1. Moves(w)
      BY <1>2, <2>1, <2>2, <2>5, ToShape, BecomesMoves DEF FirePromote
    <3> QED
      BY <1>2, <2>1, <2>3, <2>5, <3>1 DEF FirePromote, AboutEffect, Doing, Effects
  <2> QED
    BY <2>4, <2>5
<1> QED
  BY <1>1, <1>2

\* Every step is one of these kinds, or no worker's.
LEMMA NextKinds ==
  ASSUME Typed, [Next]_vars
  PROVE  \/ UNCHANGED <<work, done>> /\ SameRows
         \/ \E w \in Workers : AboutEffect(w)
<1>1. ASSUME NEW g \in Groups, Lapse(g) \/ Stall(g)
      PROVE  UNCHANGED <<work, done>> /\ SameRows
  <2> DEFINE new == [row[g] EXCEPT !.fresh = FALSE]
  <2>1. /\ new \in Row /\ new.token = row[g].token /\ new.intents = row[g].intents
        /\ new.state = row[g].state
    BY DEF Typed, TypeOK, Row
  <2>2. row' = [row EXCEPT ![g] = new] /\ UNCHANGED <<work, done>>
    BY <1>1 DEF Lapse, Stall, provider
  <2> HIDE DEF new
  <2> QED
    BY <2>1, <2>2 DEF SameRows, SameRow, Typed, TypeOK
<1>2. ASSUME NEW w \in Workers,
             \/ Build(w) \/ Persist(w) \/ Vet(w) \/ Reject(w) \/ Abandon(w) \/ Record(w)
             \/ Ready(w) \/ Attest(w) \/ Prove(w) \/ RollBack(w) \/ Restore(w) \/ Finalize(w)
             \/ Throw(w) \/ Crash(w) \/ \E g \in Groups : Recover(w, g)
      PROVE  AboutEffect(w)
  <2>1. Quiet(w)
    BY <1>2, QuietStep
  <2>2. UNCHANGED done
    BY <1>2 DEF Build, Persist, Vet, Reject, Abandon, Record, Ready, Attest, Prove, RollBack, Restore,
                Finalize, Throw, Crash, Recover, provider
  <2> QED
    BY <2>1, <2>2 DEF AboutEffect
<1>3. CASE UNCHANGED vars
  BY <1>3, RowsStay DEF vars
<1>4. ASSUME NEW w \in Workers, Step(w) \/ \E e \in Effects : Refuse(w, e)
      PROVE  AboutEffect(w)
  BY <1>2, <1>4, ClaimKind, PreviewKind, PromoteKind, IntendKind, RefuseKind, FireKind DEF Step
<1> QED
  BY <1>1, <1>2, <1>3, <1>4 DEF Next

\* What becomes of the workers and the rows is well typed, whatever the kind.
LEMMA KindTyped ==
  ASSUME Typed, [Next]_vars
  PROVE  /\ row' \in [Groups -> Row]
         /\ work' \in [Workers -> Work] /\ \A w \in Workers : Shaped(work'[w])
         /\ done' \in [Groups -> [Effects -> Nat]]
<1>1. CASE UNCHANGED <<work, done>> /\ SameRows
  BY <1>1 DEF SameRows, Typed, TypeOK
<1>2. ASSUME NEW w \in Workers, AboutEffect(w)
      PROVE  /\ row' \in [Groups -> Row]
             /\ work' \in [Workers -> Work] /\ \A v \in Workers : Shaped(work'[v])
             /\ done' \in [Groups -> [Effects -> Nat]]
  <2>1. ASSUME Moves(w)
        PROVE  work' \in [Workers -> Work] /\ \A v \in Workers : Shaped(work'[v])
    BY <2>1 DEF Moves, Typed
  <2>2. ASSUME NEW x, Placed(w, x)
        PROVE  work' \in [Workers -> Work] /\ \A v \in Workers : Shaped(work'[v])
    BY <2>2 DEF Placed, Becomes, Typed, TypeOK
  <2>3. CASE Quiet(w) /\ UNCHANGED done
    BY <2>1, <2>3 DEF Quiet, SameRows, Typed, TypeOK
  <2>4. CASE Claiming(w)
    BY <2>2, <2>4 DEF Claiming, Typed, TypeOK
  <2>5. ASSUME NEW e \in Effects, Planning(w, e) \/ Marking(w, e) \/ Clearing(w, e)
        PROVE  /\ row' \in [Groups -> Row]
               /\ work' \in [Workers -> Work] /\ \A v \in Workers : Shaped(work'[v])
               /\ done' \in [Groups -> [Effects -> Nat]]
    BY <2>2, <2>5 DEF Planning, Marking, Clearing, Typed, TypeOK
  <2>6. ASSUME NEW e \in Effects, Doing(w, e)
        PROVE  /\ row' \in [Groups -> Row]
               /\ work' \in [Workers -> Work] /\ \A v \in Workers : Shaped(work'[v])
               /\ done' \in [Groups -> [Effects -> Nat]]
    <3>1. [done[work[w].g] EXCEPT ![e] = done[work[w].g][e] + 1] \in [Effects -> Nat]
      BY <2>6 DEF Doing, Typed, TypeOK
    <3> QED
      BY <2>1, <2>6, <3>1 DEF Doing, Typed, TypeOK
  <2> QED
    BY <1>2, <2>3, <2>4, <2>5, <2>6 DEF AboutEffect
<1> QED
  BY <1>1, <1>2, NextKinds

\* And so are the releases and what is counted.
LEMMA RestTyped ==
  ASSUME Typed, [Next]_vars
  PROVE  /\ node' \in {"run", "connection"} /\ rel' \in [Releases -> States]
         /\ prev' \in [Releases -> Releases \cup {None}]
         /\ prod' \in Releases \cup {None} /\ gone' \subseteq Releases
         /\ verified' \subseteq Groups /\ faults' \in 0..MaxFaults
<1> DEFINE Goal == /\ node' \in {"run", "connection"} /\ rel' \in [Releases -> States]
                   /\ prev' \in [Releases -> Releases \cup {None}]
                   /\ prod' \in Releases \cup {None} /\ gone' \subseteq Releases
                   /\ verified' \subseteq Groups /\ faults' \in 0..MaxFaults
<1>t. /\ node \in {"run", "connection"} /\ rel \in [Releases -> States]
      /\ prev \in [Releases -> Releases \cup {None}]
      /\ prod \in Releases \cup {None} /\ gone \subseteq Releases
      /\ verified \subseteq Groups /\ faults \in 0..MaxFaults
  BY DEF Typed, TypeOK
<1>f. \A kind : Fault(kind) => faults' \in 0..MaxFaults
  BY <1>t, BoundsAssumption DEF Fault
<1>s. \A r, s : s \in States => Superseding(r, s) \in [Releases -> States]
  BY <1>t DEF Superseding, States
<1>1. ASSUME NEW g \in Groups, Lapse(g) \/ Stall(g)
      PROVE  Goal
  BY <1>1, <1>t, <1>f DEF Lapse, Stall, db, provider
<1>2. ASSUME NEW w \in Workers, NEW g \in Groups, Recover(w, g)
      PROVE  Goal
  BY <1>2, <1>t DEF Recover, provider
<1>3. ASSUME NEW w \in Workers,
             \/ Claim(w) \/ Preview(w) \/ Vet(w) \/ Promote(w) \/ Ready(w) \/ Prove(w) \/ Finalize(w)
             \/ Throw(w) \/ Crash(w) \/ FirePreview(w)
             \/ \E e \in Effects : Intend(w, e) \/ Refuse(w, e)
      PROVE  Goal
  BY <1>3, <1>t, <1>f
     DEF Claim, Preview, Vet, Promote, Ready, Prove, Finalize, Throw, Crash, FirePreview, Intend,
         Refuse, db, provider
<1>4. ASSUME NEW w \in Workers, Build(w) \/ Persist(w)
      PROVE  Goal
  BY <1>4, <1>t DEF Build, Persist, States, provider
<1>5. ASSUME NEW w \in Workers, work[w].at \in WithRelease
      PROVE  work[w].r \in Releases /\ work[w].g \in Groups
  BY <1>5 DEF Typed, Shaped, WithRelease
<1>6. ASSUME NEW w \in Workers, Reject(w) \/ Abandon(w)
      PROVE  Goal
  <2>1. TearDown(work[w].r) /\ work[w].at \in WithRelease
    BY <1>6 DEF Reject, Abandon, WithRelease
  <2>2. gone' \subseteq Releases /\ rel' \in [Releases -> States]
    BY <2>1, <1>5, <1>t DEF TearDown, States
  <2> QED
    BY <1>6, <2>2, <1>t DEF Reject, Abandon
<1>7. ASSUME NEW w \in Workers, FirePromote(w) \/ RollBack(w)
      PROVE  Goal
  <2>1. work[w].at \in WithRelease
    BY <1>7 DEF FirePromote, RollBack, WithRelease
  <2>2. prod' \in Releases \cup {None} /\ gone' \subseteq Releases
    BY <1>7, <2>1, <1>5, <1>t DEF FirePromote, RollBack
  <2> QED
    BY <1>7, <2>2, <1>t DEF FirePromote, RollBack, db
<1>8. ASSUME NEW w \in Workers, Record(w)
      PROVE  Goal
  <2>1. work[w].r \in Releases
    BY <1>8, <1>5 DEF Record, WithRelease
  <2>2. rel' \in [Releases -> States]
    BY <1>8, <1>s, <1>t DEF Record, States
  <2>3. prev' \in [Releases -> Releases \cup {None}]
    <3>1. ASSUME NEW q \in Releases \cup {None}, prev' = [prev EXCEPT ![work[w].r] = q]
          PROVE  prev' \in [Releases -> Releases \cup {None}]
      BY <2>1, <3>1, <1>t
    <3> QED
      BY <1>8, <1>t, <3>1 DEF Record, SomeOf, Live
  <2> QED
    BY <1>8, <2>2, <2>3, <1>t DEF Record, provider
<1>9. ASSUME NEW w \in Workers, Attest(w)
      PROVE  Goal
  BY <1>9, <1>5, <1>t DEF Attest, WithRelease, provider
<1>10. ASSUME NEW w \in Workers, Restore(w)
       PROVE  Goal
  BY <1>10, <1>s, <1>t DEF Restore, States, provider
<1>11. CASE UNCHANGED vars
  BY <1>11, <1>t DEF vars
<1>12. ASSUME NEW w \in Workers, Step(w)
       PROVE  Goal
  BY <1>3, <1>4, <1>6, <1>7, <1>8, <1>9, <1>10, <1>12 DEF Step
<1> QED
  BY <1>1, <1>2, <1>3, <1>11, <1>12 DEF Next

\* Every reachable state is well typed.
THEOREM TypesHold == Spec => []TypeOK
<1>1. Typed /\ [Next]_vars => Typed'
  BY KindTyped, RestTyped DEF Typed, TypeOK
<1>2. Typed => TypeOK
  BY DEF Typed
<1> QED
  BY <1>1, <1>2, InitTyped, PTL DEF Spec

-----------------------------------------------------------------------------
(* Verdicts *)

\* For any number of groups and workers, whatever crashes, stalls or throws: a
\* verdict is never revised (claim, finalize).
THEOREM VerdictsAreFinal == Spec => VerdictStays
<1> DEFINE Final == \A g \in Groups : row[g].state \in Verdicts => row'[g].state = row[g].state
<1>1. Typed /\ [Next]_vars => Typed'
  BY KindTyped, RestTyped DEF Typed, TypeOK
<1>2. ASSUME Typed, [Next]_vars PROVE Final
  <2>0. "in_progress" \notin Verdicts
    BY DEF Verdicts
  <2>1. ASSUME SameRows PROVE Final
    BY <2>0, <2>1 DEF SameRows, SameRow
  <2>2. ASSUME NEW w \in Workers, AboutEffect(w) PROVE Final
    <3>1. CASE Claiming(w)
      BY <3>1 DEF Claiming
    <3>2. ASSUME NEW e \in Effects, Marking(w, e) \/ Clearing(w, e) PROVE Final
      BY <3>2 DEF Marking, Clearing
    <3>3. ASSUME NEW e \in Effects, Planning(w, e) \/ Doing(w, e) PROVE Final
      BY <3>3 DEF Planning, Doing
    <3> QED
      BY <2>1, <2>2, <3>1, <3>2, <3>3 DEF AboutEffect, Quiet
  <2> QED
    BY <1>2, <2>1, <2>2, NextKinds
<1>3. Typed /\ [Next]_vars => [Final]_vars
  BY <1>2
<1> QED
  BY <1>1, <1>3, InitTyped, PTL DEF Spec, VerdictStays

-----------------------------------------------------------------------------
(* Each effect once *)

\* A drive has a token that was given out, and no two have the same one.
Claimed == \A w \in Workers : work[w].at \in Steps => work[w].k =< row[work[w].g].token
Unique  == \A w, v \in Workers :
             w # v /\ work[w].at \in Steps /\ work[v].at \in Steps /\ work[w].g = work[v].g
               => work[w].k # work[v].k

\* An owner about to announce an effect found it unannounced, and nobody else
\* could announce it since.
Unannounced == \A w \in Workers, e \in Effects :
  work[w].at = Intending(e) /\ work[w].k = row[work[w].g].token
    => e \notin row[work[w].g].intents

\* A worker about to have the provider do it has announced it, it was not done,
\* and no other worker is about to.
Announced == \A w \in Workers, e \in Effects :
  work[w].at = Firing(e) => e \in row[work[w].g].intents /\ done[work[w].g][e] = 0
Alone == \A w, v \in Workers, e \in Effects :
  w # v /\ work[w].at = Firing(e) /\ work[v].at = Firing(e) => work[w].g # work[v].g

\* What was done stays announced.
DoneIsAnnounced == \A g \in Groups, e \in Effects :
  done[g][e] = 0 \/ (done[g][e] = 1 /\ e \in row[g].intents)

Fenced == Claimed /\ Unique /\ Unannounced /\ Announced /\ Alone /\ DoneIsAnnounced

LEMMA InitFenced == Init => Fenced
<1> SUFFICES ASSUME Init PROVE Fenced
  OBVIOUS
<1>1. \A w \in Workers : work[w].at \notin Steps
  BY DEF Init, Idle, Steps
<1> QED
  BY <1>1, EffectSteps
     DEF Init, Fenced, Claimed, Unique, Unannounced, Announced, Alone, DoneIsAnnounced

\* Facts about a drive that the steps below share.
LEMMA DriveFacts ==
  ASSUME Typed, NEW w \in Workers, work[w].at \in Steps
  PROVE  /\ work[w].g \in Groups /\ work[w].k \in Nat /\ row[work[w].g].token \in Nat
         /\ done[work[w].g] \in [Effects -> Nat]
  BY DEF Typed, TypeOK, Shaped, Steps, Claims, Row

LEMMA QuietFenced ==
  ASSUME Typed, Fenced, NEW w \in Workers, Quiet(w), UNCHANGED done
  PROVE  Fenced'
<1>1. \A g \in Groups : row'[g].token = row[g].token /\ row'[g].intents = row[g].intents
  BY DEF Quiet, SameRows, SameRow
<1>2. \A v \in Workers \ {w} : work'[v] = work[v]
  BY DEF Quiet, Moves
<1>3. /\ work'[w].at \notin Fencing
      /\ work'[w].at \in Steps => /\ work[w].at \in Steps
                                  /\ work'[w].g = work[w].g /\ work'[w].k = work[w].k
  BY DEF Quiet, Moves
<1>4. \A v \in Workers : work[v].at \in Steps => work[v].g \in Groups
  BY DriveFacts
<1>5. \A e \in Effects : work'[w].at # Intending(e) /\ work'[w].at # Firing(e)
  BY <1>3, EffectSteps
<1>6. Claimed'
  BY <1>1, <1>2, <1>3, <1>4 DEF Fenced, Claimed
<1>7. Unique'
  BY <1>2, <1>3 DEF Fenced, Unique
<1>8. Unannounced'
  BY <1>1, <1>2, <1>4, <1>5, EffectSteps DEF Fenced, Unannounced
<1>9. Announced'
  BY <1>1, <1>2, <1>4, <1>5, EffectSteps DEF Fenced, Announced
<1>10. Alone'
  BY <1>2, <1>5 DEF Fenced, Alone
<1>11. DoneIsAnnounced'
  BY <1>1 DEF Fenced, DoneIsAnnounced
<1> QED
  BY <1>6, <1>7, <1>8, <1>9, <1>10, <1>11 DEF Fenced

LEMMA StillFenced ==
  ASSUME Typed, Fenced, UNCHANGED <<work, done>>, SameRows
  PROVE  Fenced'
<1>1. \A g \in Groups : row'[g].token = row[g].token /\ row'[g].intents = row[g].intents
  BY DEF SameRows, SameRow
<1>2. \A v \in Workers : work[v].at \in Steps => work[v].g \in Groups
  BY DriveFacts
<1> QED
  BY <1>1, <1>2, EffectSteps
     DEF Fenced, Claimed, Unique, Unannounced, Announced, Alone, DoneIsAnnounced

LEMMA ClaimingFenced ==
  ASSUME Typed, Fenced, NEW w \in Workers, Claiming(w)
  PROVE  Fenced'
<1> DEFINE g == work[w].g
<1>1. /\ g \in Groups /\ row'[g].token = row[g].token + 1 /\ row'[g].intents = row[g].intents
      /\ \A h \in Groups \ {g} : row'[h] = row[h]
  BY DEF Claiming
<1>2. PICK x : Placed(w, x) /\ x.at = "building" /\ x.g = g /\ x.k = row[g].token + 1
  BY DEF Claiming
<1>3. work'[w] = x /\ \A v \in Workers \ {w} : work'[v] = work[v]
  BY <1>2 DEF Placed, Becomes, Typed, TypeOK
<1>4. row[g].token \in Nat
  BY <1>1 DEF Typed, TypeOK, Row
<1>5. \A v \in Workers : work[v].at \in Steps =>
        work[v].g \in Groups /\ work[v].k \in Nat /\ work[v].k =< row[work[v].g].token
        /\ row[work[v].g].token \in Nat
  BY DriveFacts DEF Fenced, Claimed
<1>6. \A e \in Effects : work'[w].at # Intending(e) /\ work'[w].at # Firing(e)
  BY <1>2, <1>3 DEF Intending, Firing, Effects
<1>7. UNCHANGED done
  BY DEF Claiming
<1>8. Claimed'
  BY <1>1, <1>2, <1>3, <1>4, <1>5 DEF Claimed
<1>9. Unique'
  BY <1>2, <1>3, <1>4, <1>5 DEF Fenced, Unique
<1>10. Unannounced'
  <2> SUFFICES ASSUME NEW v \in Workers \ {w}, NEW e \in Effects, work[v].at = Intending(e),
                      work[v].k = row'[work[v].g].token
               PROVE  e \notin row'[work[v].g].intents
    BY <1>3, <1>6 DEF Unannounced
  <2>1. work[v].g # g
    BY <1>1, <1>4, <1>5, EffectSteps
  <2> QED
    BY <1>1, <1>5, <2>1, EffectSteps DEF Fenced, Unannounced
<1>11. \A h \in Groups : row'[h].intents = row[h].intents
  BY <1>1
<1>12. Announced'
  BY <1>3, <1>5, <1>6, <1>7, <1>11, EffectSteps DEF Fenced, Announced
<1>13. Alone'
  BY <1>3, <1>6 DEF Fenced, Alone
<1>14. DoneIsAnnounced'
  BY <1>7, <1>11 DEF Fenced, DoneIsAnnounced
<1> QED
  BY <1>8, <1>9, <1>10, <1>12, <1>13, <1>14 DEF Fenced

LEMMA PlanningFenced ==
  ASSUME Typed, Fenced, NEW w \in Workers, NEW e \in Effects, Planning(w, e)
  PROVE  Fenced'
<1>1. PICK x : Placed(w, x) /\ x.at = Intending(e) /\ x.g = work[w].g /\ x.k = work[w].k
  BY DEF Planning
<1>2. work'[w] = x /\ \A v \in Workers \ {w} : work'[v] = work[v]
  BY <1>1 DEF Placed, Becomes, Typed, TypeOK
<1>3. UNCHANGED <<row, done>> /\ work[w].at \in Steps /\ e \notin row[work[w].g].intents
  BY DEF Planning
<1>4. Claimed' /\ Unique'
  BY <1>1, <1>2, <1>3, EffectSteps DEF Fenced, Claimed, Unique
<1>5. Unannounced'
  BY <1>1, <1>2, <1>3, EffectSteps DEF Fenced, Unannounced
<1>6. Announced' /\ Alone'
  BY <1>1, <1>2, <1>3, EffectSteps DEF Fenced, Announced, Alone
<1>7. DoneIsAnnounced'
  BY <1>3 DEF Fenced, DoneIsAnnounced
<1> QED
  BY <1>4, <1>5, <1>6, <1>7 DEF Fenced

LEMMA MarkingFenced ==
  ASSUME Typed, Fenced, NEW w \in Workers, NEW e \in Effects, Marking(w, e)
  PROVE  Fenced'
<1> DEFINE g == work[w].g
<1>1. PICK x : Placed(w, x) /\ x.at = Firing(e) /\ x.g = g /\ x.k = work[w].k
  BY DEF Marking
<1>2. work'[w] = x /\ \A v \in Workers \ {w} : work'[v] = work[v]
  BY <1>1 DEF Placed, Becomes, Typed, TypeOK
<1>3. /\ g \in Groups /\ work[w].at = Intending(e) /\ UNCHANGED done
      /\ row'[g].token = row[g].token /\ row'[g].intents = row[g].intents \cup {e}
      /\ \A h \in Groups \ {g} : row'[h] = row[h]
  BY DEF Marking
<1>4. work[w].k = row[g].token
  BY DEF Marking, Holds
<1>5. work[w].at \in Steps /\ x.at \in Steps
  BY <1>1, <1>3, EffectSteps
<1>6. \A v \in Workers : work[v].at \in Steps => work[v].g \in Groups
  BY DriveFacts
<1>7. \A h \in Groups : row'[h].token = row[h].token
  BY <1>3
<1>8. e \notin row[g].intents
  BY <1>3, <1>4 DEF Fenced, Unannounced
<1>9. done[g][e] = 0
  BY <1>3, <1>8 DEF Fenced, DoneIsAnnounced
<1>10. Claimed' /\ Unique'
  BY <1>1, <1>2, <1>5, <1>6, <1>7 DEF Fenced, Claimed, Unique
<1>11. Unannounced'
  <2> SUFFICES ASSUME NEW v \in Workers \ {w}, NEW d \in Effects, work[v].at = Intending(d),
                      work[v].k = row'[work[v].g].token
               PROVE  d \notin row'[work[v].g].intents
    BY <1>1, <1>2, EffectSteps DEF Unannounced
  <2>1. work[v].at \in Steps
    BY EffectSteps
  <2>2. work[v].g # g
    BY <1>4, <1>5, <1>7, <2>1, <1>6 DEF Fenced, Unique
  <2> QED
    BY <1>3, <1>6, <1>7, <2>1, <2>2 DEF Fenced, Unannounced
<1>12. Announced'
  <2>1. ASSUME NEW v \in Workers \ {w}, NEW d \in Effects, work[v].at = Firing(d)
        PROVE  d \in row'[work[v].g].intents /\ done'[work[v].g][d] = 0
    BY <1>3, <1>6, <2>1, EffectSteps DEF Fenced, Announced
  <2>2. ASSUME NEW d \in Effects, work'[w].at = Firing(d)
        PROVE  d \in row'[work'[w].g].intents /\ done'[work'[w].g][d] = 0
    BY <1>1, <1>2, <1>3, <1>9, <2>2, EffectSteps
  <2> QED
    BY <1>2, <2>1, <2>2 DEF Announced
<1>13. Alone'
  <2>1. ASSUME NEW v \in Workers \ {w}, work[v].at = Firing(e)
        PROVE  work[v].g # g
    BY <1>8, <2>1 DEF Fenced, Announced
  <2> QED
    BY <1>1, <1>2, <2>1, EffectSteps DEF Fenced, Alone
<1>14. DoneIsAnnounced'
  BY <1>3 DEF Fenced, DoneIsAnnounced
<1> QED
  BY <1>10, <1>11, <1>12, <1>13, <1>14 DEF Fenced

LEMMA ClearingFenced ==
  ASSUME Typed, Fenced, NEW w \in Workers, NEW e \in Effects, Clearing(w, e)
  PROVE  Fenced'
<1> DEFINE g == work[w].g
<1>1. work'[w] = Idle /\ \A v \in Workers \ {w} : work'[v] = work[v]
  BY DEF Clearing, Placed, Becomes, Typed, TypeOK
<1>2. Idle.at \notin Steps
  BY IdleShape DEF Steps
<1>3. /\ g \in Groups /\ work[w].at = Firing(e) /\ UNCHANGED done
      /\ row'[g].token = row[g].token /\ row'[g].intents = row[g].intents \ {e}
      /\ \A h \in Groups \ {g} : row'[h] = row[h]
  BY DEF Clearing
<1>4. \A v \in Workers : work[v].at \in Steps => work[v].g \in Groups
  BY DriveFacts
<1>5. \A h \in Groups : row'[h].token = row[h].token /\ row'[h].intents \subseteq row[h].intents
  BY <1>3
<1>6. done[g][e] = 0
  BY <1>3 DEF Fenced, Announced
<1>7. Claimed' /\ Unique'
  BY <1>1, <1>2, <1>4, <1>5 DEF Fenced, Claimed, Unique
<1>8. Unannounced'
  BY <1>1, <1>2, <1>4, <1>5, EffectSteps DEF Fenced, Unannounced
<1>9. Announced'
  <2>1. ASSUME NEW v \in Workers \ {w}, NEW d \in Effects, work[v].at = Firing(d)
        PROVE  d \in row'[work[v].g].intents /\ done[work[v].g][d] = 0
    <3>1. work[v].g = g => d # e
      BY <1>3, <2>1 DEF Fenced, Alone
    <3> QED
      BY <1>3, <1>4, <2>1, <3>1, EffectSteps DEF Fenced, Announced
  <2> QED
    BY <1>1, <1>2, <1>3, <2>1, EffectSteps DEF Announced
<1>10. Alone'
  BY <1>1, <1>2, EffectSteps DEF Fenced, Alone
<1>11. DoneIsAnnounced'
  BY <1>3, <1>6 DEF Fenced, DoneIsAnnounced
<1> QED
  BY <1>7, <1>8, <1>9, <1>10, <1>11 DEF Fenced

LEMMA DoingFenced ==
  ASSUME Typed, Fenced, NEW w \in Workers, NEW e \in Effects, Doing(w, e)
  PROVE  Fenced'
<1> DEFINE g == work[w].g
<1>1. \A v \in Workers \ {w} : work'[v] = work[v]
  BY DEF Doing, Moves
<1>2. /\ work'[w].at \notin Fencing
      /\ work'[w].at \in Steps => /\ work[w].at \in Steps
                                  /\ work'[w].g = work[w].g /\ work'[w].k = work[w].k
  BY DEF Doing, Moves
<1>3. g \in Groups /\ work[w].at = Firing(e) /\ UNCHANGED row
  BY DEF Doing
<1>4. \A d \in Effects : work'[w].at # Intending(d) /\ work'[w].at # Firing(d)
  BY <1>2, EffectSteps
<1>5. done[g][e] = 0 /\ e \in row[g].intents
  BY <1>3 DEF Fenced, Announced
<1>6. /\ done'[g][e] = 1
      /\ \A h \in Groups, d \in Effects : h # g \/ d # e => done'[h][d] = done[h][d]
  BY <1>3, <1>5 DEF Doing, Typed, TypeOK
<1>7. Claimed' /\ Unique'
  BY <1>1, <1>2, <1>3 DEF Fenced, Claimed, Unique
<1>8. Unannounced'
  BY <1>1, <1>3, <1>4 DEF Fenced, Unannounced
<1>9. Announced'
  <2>1. ASSUME NEW v \in Workers \ {w}, NEW d \in Effects, work[v].at = Firing(d)
        PROVE  done'[work[v].g][d] = 0
    <3>1. work[v].g # g \/ d # e
      BY <1>3, <2>1 DEF Fenced, Alone
    <3>2. work[v].g \in Groups
      BY <2>1, EffectSteps, DriveFacts
    <3> QED
      BY <1>6, <2>1, <3>1, <3>2 DEF Fenced, Announced
  <2> QED
    BY <1>1, <1>3, <1>4, <2>1 DEF Fenced, Announced
<1>10. Alone'
  BY <1>1, <1>4 DEF Fenced, Alone
<1>11. DoneIsAnnounced'
  <2> SUFFICES ASSUME NEW h \in Groups, NEW d \in Effects
               PROVE  done'[h][d] = 0 \/ (done'[h][d] = 1 /\ d \in row[h].intents)
    BY <1>3 DEF DoneIsAnnounced
  <2>1. CASE h = g /\ d = e
    BY <1>5, <1>6, <2>1
  <2>2. CASE h # g \/ d # e
    BY <1>6, <2>2 DEF Fenced, DoneIsAnnounced
  <2> QED
    BY <2>1, <2>2
<1> QED
  BY <1>7, <1>8, <1>9, <1>10, <1>11 DEF Fenced

LEMMA NextFenced ==
  ASSUME Typed, Fenced, [Next]_vars
  PROVE  Fenced'
<1>1. ASSUME NEW w \in Workers, AboutEffect(w)
      PROVE  Fenced'
  BY <1>1, QuietFenced, ClaimingFenced, PlanningFenced, MarkingFenced, ClearingFenced, DoingFenced
     DEF AboutEffect
<1> QED
  BY <1>1, StillFenced, NextKinds

\* For any number of groups, workers, claims and faults: a provider deploys at
\* most one preview of a group and promotes it at most once
\* (markIntentOrAbort, grantAfterOwnedIntent).
THEOREM EffectsHappenOnce == Spec => []EffectsOnce
<1>1. Typed /\ Fenced /\ [Next]_vars => (Typed /\ Fenced)'
  BY KindTyped, RestTyped, NextFenced DEF Typed, TypeOK
<1>2. Fenced => EffectsOnce
  BY DEF Fenced, DoneIsAnnounced, EffectsOnce
<1> QED
  BY <1>1, <1>2, InitTyped, InitFenced, PTL DEF Spec

-----------------------------------------------------------------------------
(* One live release *)

\* What is live after a promotion was live before or is what was promoted, and
\* the promotion supersedes all the others: it does not matter that the prior it
\* read is stale.
LEMMA LiveMoves ==
  ASSUME Typed, [Next]_vars
  PROVE  \/ Live' \subseteq Live
         \/ \E r \in Releases : Live' \subseteq {r}
<1> DEFINE Kept == Live' \subseteq Live
<1>t. rel \in [Releases -> States]
  BY DEF Typed, TypeOK
<1>s. ASSUME NEW r, rel' = Superseding(r, "live") \/ rel' = Superseding(r, "rolled_back")
      PROVE  Live' \subseteq {r}
  BY <1>s, <1>t DEF Live, Superseding
<1>u. UNCHANGED rel => Kept
  BY DEF Live
<1>1. ASSUME NEW w \in Workers, Build(w) \/ Persist(w)
      PROVE  Kept
  BY <1>1, <1>t DEF Build, Persist, Live
<1>2. ASSUME NEW w \in Workers, Reject(w) \/ Abandon(w)
      PROVE  Kept
  BY <1>2, <1>t DEF Reject, Abandon, TearDown, Live
<1>3. ASSUME NEW w \in Workers, Record(w)
      PROVE  Kept \/ \E r \in Releases : Live' \subseteq {r}
  <2>1. work[w].r \in Releases
    BY <1>3 DEF Record, Typed, Shaped, WithRelease
  <2> QED
    BY <1>3, <1>s, <1>u, <2>1 DEF Record
<1>4. ASSUME NEW w \in Workers, Restore(w)
      PROVE  Kept
  BY <1>4, <1>t DEF Restore, Superseding, Live
<1>5. ASSUME NEW w \in Workers,
             \/ Claim(w) \/ Preview(w) \/ FirePreview(w) \/ Vet(w) \/ Promote(w)
             \/ FirePromote(w) \/ Ready(w) \/ Attest(w) \/ Prove(w) \/ RollBack(w) \/ Finalize(w)
             \/ Throw(w) \/ Crash(w)
             \/ \E e \in Effects : Intend(w, e) \/ Refuse(w, e)
             \/ \E g \in Groups : Recover(w, g)
      PROVE  Kept
  BY <1>5, <1>u DEF Claim, Preview, FirePreview, Vet, Promote, FirePromote, Ready, Attest, Prove,
       RollBack, Finalize, Throw, Crash, Intend, Refuse, Recover, db
<1>6. ASSUME NEW g \in Groups, Lapse(g) \/ Stall(g)
      PROVE  Kept
  BY <1>6, <1>u DEF Lapse, Stall, db
<1>7. CASE UNCHANGED vars
  BY <1>7, <1>u DEF vars
<1> QED
  BY <1>1, <1>2, <1>3, <1>4, <1>5, <1>6, <1>7 DEF Next, Step

\* However many groups promote side by side, each with the prior it read
\* earlier: at most one release is live (supersedeLockedLive).
THEOREM LiveIsOne == Spec => []OneLive
<1>1. Init => OneLive
  BY DEF Init, OneLive, Live
<1>2. Typed /\ [Next]_vars => Typed'
  BY KindTyped, RestTyped DEF Typed, TypeOK
<1>3. Typed /\ OneLive /\ [Next]_vars => OneLive'
  BY LiveMoves DEF OneLive
<1> QED
  BY <1>1, <1>2, <1>3, InitTyped, PTL DEF Spec
=============================================================================
