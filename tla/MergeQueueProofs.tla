--------------------------- MODULE MergeQueueProofs ---------------------------
(***************************************************************************)
(* Theorems about MergeQueue for every set of entries and coordinators,    *)
(* every dependency graph and partitioning, whatever operators do and      *)
(* however many faults happen: main loses nothing, main, specs and rows    *)
(* agree, a claim has one holder, a settled row is never written again,    *)
(* and nothing lands ahead of what it depends on.                          *)
(***************************************************************************)
EXTENDS MergeQueueMainline, TLAPS

RowRecord == [status : RowStatuses, epoch : Nat, fresh : BOOLEAN,
              partition : Entries \cup {Scope[e] : e \in Entries}]

PassRecord == [step : Steps, base : 1..Len(main), batch : SUBSET Entries,
               left : SUBSET Entries, excluded : SUBSET Entries]

-----------------------------------------------------------------------------
(* Main *)

\* What is landed contains the head it replaces, for it was proved on it.
LEMMA MainGrows ==
  ASSUME TypeOK, NEW c \in Coordinators, Advance(c)
  PROVE  /\ main' \in Seq(SUBSET Entries) /\ Len(main') = Len(main) + 1
         /\ OnMain' = OnMain \cup at[c].batch
<1>1. main \in Seq(SUBSET Entries) /\ Len(main) \in Nat /\ Len(main) >= 1
  BY DEF TypeOK
<1>2. at[c].base = Len(main) /\ at[c].batch \in SUBSET Entries
  BY DEF Advance, Current, TypeOK
<1>3. Proved(c) = OnMain \cup at[c].batch /\ Proved(c) \in SUBSET Entries
  BY <1>1, <1>2 DEF Proved, OnMain
<1>4. main' = Append(main, Proved(c))
  BY DEF Advance
<1>5. main' \in Seq(SUBSET Entries) /\ Len(main') = Len(main) + 1 /\ main'[Len(main')] = Proved(c)
  BY <1>1, <1>3, <1>4
<1>6. QED
  BY <1>3, <1>5 DEF OnMain

\* A head that is answered to have landed contains its batch.
LEMMA AdvancedIsThere ==
  ASSUME TypeOK, NEW c \in Coordinators, Advanced(c)
  PROVE  at[c].batch \subseteq OnMain
  BY DEF Advanced, Proved, OnMain

\* Main changes only by landing.
LEMMA MainChanges ==
  ASSUME TypeOK, [Next]_vars
  PROVE  UNCHANGED main \/ \E c \in Coordinators : Advance(c)
<1>1. ASSUME NEW c \in Coordinators, NEW e \in Entries, Settle(c, e)
      PROVE  UNCHANGED main
  BY <1>1 DEF Settle, Isolate, PrepareRework, RetireReworked, Park, SettleTerminal
<1>2. ASSUME NEW c \in Coordinators, Work(c)
      PROVE  UNCHANGED main \/ Advance(c)
  BY <1>1, <1>2 DEF Work, Hold, Check, Retain, Release, Land, Advanced, LandAgain, Rederive,
                    Receipt, Form, Claim, Confirm, Mark
<1>3. QED
  BY <1>2 DEF Next, vars, Begin, ReceiptFails, AnswerLost, Crash, Enqueue, GrowStale,
              CancelSpec, Dequeue, Reevaluate, Command

LEMMA MainKept ==
  ASSUME TypeOK, [Next]_vars
  PROVE  /\ main' \in Seq(SUBSET Entries) /\ main' # <<>> /\ Len(main) <= Len(main')
         /\ OnMain \subseteq OnMain'
<1>1. main \in Seq(SUBSET Entries) /\ Len(main) \in Nat
  BY DEF TypeOK
<1>2. CASE UNCHANGED main
  BY <1>1, <1>2 DEF TypeOK, OnMain
<1>3. CASE \E c \in Coordinators : Advance(c)
  BY <1>1, <1>3, MainGrows
<1>4. QED
  BY <1>2, <1>3, MainChanges
-----------------------------------------------------------------------------
(* Types *)

LEMMA InitTyped == Init => TypeOK
BY DEF Init, TypeOK, Idle, RowStatuses, SpecStatuses, Steps, Policies

LEMMA RowTyped ==
  ASSUME TypeOK, [Next]_vars
  PROVE  row' \in [Entries -> RowRecord]
<1> USE DEF RowRecord, RowStatuses
<1>0. row \in [Entries -> RowRecord]
  BY DEF TypeOK
<1>1. ASSUME NEW e \in Entries, NEW status \in RowStatuses, SetRow(e, status)
      PROVE  row' \in [Entries -> RowRecord]
  BY <1>0, <1>1 DEF SetRow
<1>2. ASSUME NEW c \in Coordinators, Begin(c)
      PROVE  row' \in [Entries -> RowRecord]
  BY <1>0, <1>2 DEF Begin, Recovered, Admission
<1>3. ASSUME NEW c \in Coordinators, NEW e \in Entries, Settle(c, e)
      PROVE  row' \in [Entries -> RowRecord]
  BY <1>0, <1>1, <1>3 DEF Settle, Isolate, SetApart, PrepareRework, RetireReworked, Park, SettleTerminal
<1>4. ASSUME NEW c \in Coordinators, NEW e \in Entries, Claim(c, e)
      PROVE  row' \in [Entries -> RowRecord]
  BY <1>0, <1>4 DEF Claim, Acquire
<1>5. ASSUME NEW c \in Coordinators, NEW e \in Entries, Confirm(c, e) \/ Mark(c, e)
      PROVE  row' \in [Entries -> RowRecord]
  BY <1>0, <1>1, <1>5 DEF Confirm, Mark
<1>6. ASSUME NEW c \in Coordinators, Release(c)
      PROVE  row' \in [Entries -> RowRecord]
  BY <1>0, <1>1, <1>6 DEF Release, TypeOK
<1>7. ASSUME NEW e \in Entries, Enqueue(e) \/ GrowStale(e) \/ Dequeue(e) \/ Reevaluate(e)
      PROVE  row' \in [Entries -> RowRecord]
  BY <1>0, <1>1, <1>7 DEF Enqueue, GrowStale, Dequeue, Reevaluate, Admission
<1>8. QED
  BY <1>0, <1>2, <1>3, <1>4, <1>5, <1>6, <1>7
     DEF Next, Work, vars, Hold, Check, Retain, Land, LandAgain, Rederive, Receipt, Form,
         ReceiptFails, AnswerLost, Crash, CancelSpec, Command

LEMMA SpecTyped ==
  ASSUME TypeOK, [Next]_vars
  PROVE  spec' \in [Entries -> SpecStatuses]
<1> USE DEF SpecStatuses
<1>0. spec \in [Entries -> SpecStatuses]
  BY DEF TypeOK
<1>1. ASSUME NEW c \in Coordinators, NEW e \in Entries, Settle(c, e)
      PROVE  spec' \in [Entries -> SpecStatuses]
  BY <1>0, <1>1 DEF Settle, Isolate, PrepareRework, RetireReworked, Park, SettleTerminal
<1>2. ASSUME NEW c \in Coordinators, Receipt(c)
      PROVE  spec' \in [Entries -> SpecStatuses]
  BY <1>0, <1>2 DEF Receipt
<1>3. ASSUME NEW e \in Entries, CancelSpec(e)
      PROVE  spec' \in [Entries -> SpecStatuses]
  BY <1>0, <1>3 DEF CancelSpec
<1>4. QED
  BY <1>0, <1>1, <1>2, <1>3
     DEF Next, Work, vars, Begin, Hold, Check, Retain, Release, Land, LandAgain, Rederive, Form,
         Claim, Confirm, Mark, ReceiptFails, AnswerLost, Crash, Enqueue, GrowStale, Dequeue,
         Reevaluate, Command

\* Where a coordinator goes next: idle, on with its batch, or on with what is left.
LEMMA StepTyped ==
  ASSUME TypeOK, [Next]_vars
  PROVE  at' \in [Coordinators -> PassRecord]
<1> DEFINE Bases == 1..Len(main)
<1> DEFINE Pass  == [step : Steps, base : Bases, batch : SUBSET Entries,
                     left : SUBSET Entries, excluded : SUBSET Entries]
<1>0. at \in [Coordinators -> Pass] /\ 1 \in Bases /\ Len(main) \in Bases
  BY DEF TypeOK
<1> SUFFICES at' \in [Coordinators -> Pass]
  BY DEF PassRecord
<1> USE DEF Idle, Steps
<1> HIDE DEF Bases
<1>1. ASSUME NEW c \in Coordinators, Rest(c)
      PROVE  at' \in [Coordinators -> Pass]
  BY <1>0, <1>1 DEF Rest
<1>2. ASSUME NEW c \in Coordinators, NEW step \in Steps, NEW left \in SUBSET Entries,
             GoTo(c, step, left) \/ Leave(c, step, left)
      PROVE  at' \in [Coordinators -> Pass]
  <2>1. [at[c] EXCEPT !.step = step, !.left = left, !.excluded = {}] \in Pass
    BY <1>0
  <2>2. [Idle EXCEPT !.step = step, !.left = left] \in Pass
    BY <1>0
  <2>3. QED
    BY <1>0, <1>2, <2>1, <2>2 DEF GoTo, Leave
<1>3. ASSUME NEW c \in Coordinators, NEW e \in Entries, Settle(c, e)
      PROVE  at' \in [Coordinators -> Pass]
  <2>1. at[c].batch \in SUBSET Entries
    BY <1>0
  <2>2. ASSUME Settled(c, e)
        PROVE  at' \in [Coordinators -> Pass]
    <3> DEFINE next == [at[c] EXCEPT !.step = IF at[c].left = {e} THEN "forming" ELSE "settling",
                                     !.left = at[c].left \ {e},
                                     !.excluded = at[c].excluded \cup {e}]
    <3>1. next \in Pass
      <4>1. at[c] \in Pass /\ at[c].left \ {e} \in SUBSET Entries
            /\ at[c].excluded \cup {e} \in SUBSET Entries
        BY <1>0
      <4>2. (IF at[c].left = {e} THEN "forming" ELSE "settling") \in Steps
        OBVIOUS
      <4>3. QED
        BY <4>1, <4>2
    <3>2. CASE at[c].step = "retiring"
      BY <1>1, <1>2, <2>1, <2>2, <3>2 DEF Settled
    <3>3. CASE at[c].step # "retiring"
      <4>1. at' = [at EXCEPT ![c] = next]
        BY <2>2, <3>3 DEF Settled
      <4>2. QED
        BY <1>0, <3>1, <4>1
    <3>4. QED
      BY <3>2, <3>3
  <2>3. ASSUME SetApart(c, e)
        PROVE  at' \in [Coordinators -> Pass]
    BY <1>0, <2>3 DEF SetApart
  <2>4. QED
    BY <1>0, <1>1, <1>3, <2>2, <2>3
       DEF Settle, Isolate, PrepareRework, RetireReworked, Park, SettleTerminal
<1>4. ASSUME NEW c \in Coordinators, NEW F \in SUBSET Entries, Form(c, F)
      PROVE  at' \in [Coordinators -> Pass]
  BY <1>0, <1>4 DEF Form
<1>5. ASSUME NEW c \in Coordinators, Check(c)
      PROVE  at' \in [Coordinators -> Pass]
  <2>1. at[c].batch \in SUBSET Entries /\ at[c].excluded \in SUBSET Entries
    BY <1>0
  <2>2. ASSUME NEW K \in SUBSET at[c].batch
        PROVE  [Idle EXCEPT !.step = "settling", !.left = K, !.excluded = at[c].excluded] \in Pass
    BY <1>0, <2>1
  <2>3. CASE GoTo(c, "claiming", at[c].batch)
    BY <1>2, <2>1, <2>3
  <2>4. CASE \E K \in SUBSET at[c].batch :
               at' = [at EXCEPT ![c] = [Idle EXCEPT !.step = "settling", !.left = K,
                                                    !.excluded = at[c].excluded]]
    <3>1. PICK K \in SUBSET at[c].batch :
                 at' = [at EXCEPT ![c] = [Idle EXCEPT !.step = "settling", !.left = K,
                                                      !.excluded = at[c].excluded]]
      BY <2>4
    <3> DEFINE next == [Idle EXCEPT !.step = "settling", !.left = K, !.excluded = at[c].excluded]
    <3>2. next \in Pass
      BY <2>2
    <3>3. at' = [at EXCEPT ![c] = next]
      BY <3>1
    <3> HIDE DEF next
    <3>4. QED
      BY <1>0, <3>2, <3>3
  <2>5. CASE \E K \in SUBSET at[c].batch : Leave(c, "isolating", K)
    <3>1. PICK K \in SUBSET at[c].batch : Leave(c, "isolating", K)
      BY <2>5
    <3>2. K \in SUBSET Entries /\ "isolating" \in Steps
      BY <2>1
    <3>3. QED
      BY <1>2, <3>1, <3>2
  <2>6. QED
    BY <1>5, <2>3, <2>4, <2>5 DEF Check
<1>6. ASSUME NEW c \in Coordinators, NEW e \in Entries, Claim(c, e) \/ Confirm(c, e) \/ Mark(c, e)
      PROVE  at' \in [Coordinators -> Pass]
  <2>1. /\ at[c].batch \in SUBSET Entries /\ at[c].left \ {e} \in SUBSET Entries
        /\ at[c].batch \ at[c].left \in SUBSET Entries
    BY <1>0
  <2>2. QED
    BY <1>1, <1>2, <1>6, <2>1 DEF Claim, Confirm, Mark
<1>7. ASSUME NEW c \in Coordinators, Begin(c) \/ Hold(c) \/ Retain(c) \/ Release(c)
      PROVE  at' \in [Coordinators -> Pass]
  <2>1. \A e \in at[c].left : at[c].left \ {e} \in SUBSET Entries
    BY <1>0
  <2>2. CASE Release(c)
    BY <1>1, <1>2, <2>1, <2>2 DEF Release
  <2>3. CASE ~Release(c)
    BY <1>1, <1>2, <1>7, <2>3 DEF Begin, Hold, Retain
  <2>4. QED
    BY <2>2, <2>3
<1>8. ASSUME NEW c \in Coordinators,
             Land(c) \/ LandAgain(c) \/ Rederive(c) \/ Receipt(c) \/ ReceiptFails(c)
      PROVE  at' \in [Coordinators -> Pass]
  BY <1>0, <1>2, <1>8 DEF Land, LandAgain, Rederive, Receipt, ReceiptFails
<1>9. QED
  BY <1>0, <1>1, <1>3, <1>4, <1>5, <1>6, <1>7, <1>8
     DEF Next, Work, vars, AnswerLost, Crash, Enqueue, GrowStale, CancelSpec, Dequeue,
         Reevaluate, Command

LEMMA ClaimTyped ==
  ASSUME TypeOK, [Next]_vars
  PROVE  claim' \in [Coordinators -> [Entries -> Nat]]
<1>0. claim \in [Coordinators -> [Entries -> Nat]] /\ \A e \in Entries : row[e].epoch \in Nat
  BY DEF TypeOK
<1>1. ASSUME NEW c \in Coordinators, NEW e \in Entries,
             Forget(c, e) \/ Acquire(c, e) \/ UNCHANGED claim
      PROVE  claim' \in [Coordinators -> [Entries -> Nat]]
  BY <1>0, <1>1 DEF Forget, Acquire
<1>2. ASSUME NEW c \in Coordinators, Crash(c)
      PROVE  claim' \in [Coordinators -> [Entries -> Nat]]
  BY <1>0, <1>2 DEF Crash
<1>3. ASSUME NEW c \in Coordinators, Release(c)
      PROVE  claim' \in [Coordinators -> [Entries -> Nat]]
  BY <1>0, <1>1, <1>3 DEF Release, TypeOK
<1>4. ASSUME NEW c \in Coordinators, NEW e \in Entries,
             Settle(c, e) \/ Claim(c, e) \/ Confirm(c, e) \/ Mark(c, e)
      PROVE  claim' \in [Coordinators -> [Entries -> Nat]]
  BY <1>1, <1>4 DEF Settle, Isolate, PrepareRework, RetireReworked, Park, SettleTerminal,
                    Claim, Confirm, Mark
<1>5. QED
  BY <1>0, <1>2, <1>3, <1>4
     DEF Next, Work, vars, Begin, Hold, Check, Retain, Land, LandAgain, Rederive, Receipt, Form,
         ReceiptFails, AnswerLost, Enqueue, GrowStale, CancelSpec, Dequeue, Reevaluate, Command

\* The operators' command, the faults so far and the completed land groups.
LEMMA RestTyped ==
  ASSUME TypeOK, [Next]_vars
  PROVE  /\ receipt' \subseteq [base : Nat, members : SUBSET Entries]
         /\ policy' \in Policies
         /\ faults' \in Nat
<1>0. /\ receipt \subseteq [base : Nat, members : SUBSET Entries]
      /\ policy \in Policies /\ faults \in Nat
      /\ \A c \in Coordinators : Group(c) \in [base : Nat, members : SUBSET Entries]
  BY DEF TypeOK, Group
<1>1. ASSUME NEW c \in Coordinators, NEW e \in Entries, Settle(c, e)
      PROVE  UNCHANGED <<receipt, policy, faults>>
  BY <1>1 DEF Settle, Isolate, PrepareRework, RetireReworked, Park, SettleTerminal
<1>2. ASSUME NEW c \in Coordinators, Receipt(c)
      PROVE  receipt' = receipt \cup {Group(c)} /\ UNCHANGED <<policy, faults>>
  BY <1>2 DEF Receipt
<1>3. ASSUME NEW c \in Coordinators, ReceiptFails(c) \/ AnswerLost(c) \/ Crash(c)
      PROVE  faults' = faults + 1 /\ UNCHANGED <<receipt, policy>>
  BY <1>3 DEF ReceiptFails, AnswerLost, Crash, Fault
<1>4. /\ UNCHANGED receipt \/ \E c \in Coordinators : receipt' = receipt \cup {Group(c)}
      /\ UNCHANGED policy \/ policy' \in Policies
      /\ UNCHANGED faults \/ faults' = faults + 1
  BY <1>1, <1>2, <1>3
     DEF Next, Work, vars, Begin, Hold, Check, Retain, Release, Land, LandAgain, Rederive, Form,
         Claim, Confirm, Mark, Enqueue, GrowStale, CancelSpec, Dequeue, Reevaluate, Command
<1>5. QED
  BY <1>0, <1>4

\* A group is completed by its receipt.
LEMMA ReceiptMoves ==
  ASSUME TypeOK, [Next]_vars
  PROVE  UNCHANGED receipt \/ \E c \in Coordinators : Receipt(c)
<1>1. ASSUME NEW c \in Coordinators, NEW e \in Entries, Settle(c, e)
      PROVE  UNCHANGED receipt
  BY <1>1 DEF Settle, Isolate, PrepareRework, RetireReworked, Park, SettleTerminal
<1>2. QED
  BY <1>1 DEF Next, Work, vars, Begin, Hold, Check, Retain, Release, Land, LandAgain, Rederive,
              Form, Claim, Confirm, Mark, ReceiptFails, AnswerLost, Crash, Enqueue, GrowStale,
              CancelSpec, Dequeue, Reevaluate, Command

LEMMA NextTyped ==
  ASSUME TypeOK, [Next]_vars
  PROVE  TypeOK'
<1>1. at' \in [Coordinators -> PassRecord']
  <2>1. PassRecord \subseteq PassRecord'
    <3>1. Len(main) \in Nat /\ Len(main') \in Nat /\ Len(main) <= Len(main')
      BY MainKept DEF TypeOK
    <3>2. 1..Len(main) \subseteq 1..Len(main')
      BY <3>1
    <3>3. QED
      BY <3>2 DEF PassRecord
  <2>2. QED
    BY <2>1, StepTyped
<1>2. QED
  BY <1>1, RowTyped, SpecTyped, MainKept, ClaimTyped, RestTyped DEF TypeOK, RowRecord, PassRecord

\* The variables keep their types; in particular no proof refers to a head of
\* main that does not exist yet.
THEOREM TypeCorrect == Spec => []TypeOK
BY InitTyped, NextTyped, PTL DEF Spec

\* Main never loses the work of an entry that landed.
THEOREM MainLosesNothing == Spec => NothingLost
<1>1. TypeOK /\ [Next]_vars => [OnMain \subseteq OnMain']_vars
  BY MainKept
<1>2. QED
  BY <1>1, TypeCorrect, PTL DEF Spec, NothingLost
-----------------------------------------------------------------------------
(* Main, specs and rows *)

\* What landed and is not recorded yet is on main.
LandedOnMain == \A c \in Coordinators : at[c].step = "landed" => at[c].batch \subseteq OnMain

\* Rows are marked after their specs.
MarkingMerged ==
  \A c \in Coordinators : at[c].step = "marking" => \A e \in at[c].left : spec[e] = "merged"

\* A completed group stays completed.
ReceiptsMerged == \A g \in receipt : \A e \in g.members : spec[e] = "merged"

Agreement ==
  /\ LandedOnMain
  /\ MarkingMerged
  /\ ReceiptsMerged
  /\ MergedIsOnMain
  /\ MarkedIsMerged

\* A merged spec stays merged, and only a receipt makes one.
LEMMA SpecMoves ==
  ASSUME TypeOK, [Next]_vars, NEW e \in Entries
  PROVE  /\ spec[e] = "merged" => spec'[e] = "merged"
         /\ spec'[e] = "merged" =>
              spec[e] = "merged" \/ \E c \in Coordinators : Receipt(c) /\ e \in at[c].batch
<1>0. spec \in [Entries -> SpecStatuses]
  BY DEF TypeOK
<1> DEFINE Kept == spec'[e] = "merged" <=> spec[e] = "merged"
<1>1. ASSUME NEW c \in Coordinators, NEW f \in Entries, Settle(c, f)
      PROVE  Kept
  BY <1>0, <1>1 DEF Settle, Isolate, PrepareRework, RetireReworked, Park, SettleTerminal
<1>2. ASSUME NEW c \in Coordinators, Receipt(c)
      PROVE  spec'[e] = "merged" <=> spec[e] = "merged" \/ e \in at[c].batch
  BY <1>0, <1>2 DEF Receipt
<1>3. ASSUME NEW f \in Entries, CancelSpec(f)
      PROVE  Kept
  BY <1>0, <1>3 DEF CancelSpec, LiveDependent
<1>4. \/ UNCHANGED spec \/ \E c \in Coordinators : Receipt(c)
      \/ \E c \in Coordinators : \E f \in Entries : Settle(c, f)
      \/ \E f \in Entries : CancelSpec(f)
  BY DEF Next, Work, vars, Begin, Hold, Check, Retain, Release, Land, LandAgain, Rederive, Form,
         Claim, Confirm, Mark, ReceiptFails, AnswerLost, Crash, Enqueue, GrowStale, Dequeue,
         Reevaluate, Command
<1>5. QED
  BY <1>0, <1>1, <1>2, <1>3, <1>4

\* How a coordinator comes to have landed, or to mark rows.
LEMMA StepMoves ==
  ASSUME TypeOK, [Next]_vars, NEW c \in Coordinators
  PROVE  \/ at'[c] = at[c]
         \/ at'[c].step \notin {"landed", "marking"}
         \/ Land(c) /\ at'[c].batch = at[c].batch /\ at'[c].step = "landed"
         \/ (LandAgain(c) \/ Receipt(c)) /\ at'[c].left = at[c].batch /\ at'[c].step = "marking"
         \/ /\ at[c].step = "marking" /\ at'[c].step = "marking"
            /\ at'[c].left \subseteq at[c].left
<1> DEFINE Other == at'[c] = at[c] \/ at'[c].step \notin {"landed", "marking"}
<1>0. at \in [Coordinators -> PassRecord] /\ at[c] \in PassRecord
  BY DEF TypeOK, PassRecord
<1> USE DEF Idle
<1>1. ASSUME NEW d \in Coordinators, Rest(d)
      PROVE  Other
  BY <1>0, <1>1 DEF Rest
<1>2. ASSUME NEW d \in Coordinators, NEW step \in Steps, NEW left \in SUBSET Entries,
             GoTo(d, step, left) \/ Leave(d, step, left)
      PROVE  /\ d # c => at'[c] = at[c]
             /\ d = c => at'[c].step = step /\ at'[c].left = left
             /\ d = c /\ GoTo(d, step, left) => at'[c].batch = at[c].batch
  <2>1. ASSUME GoTo(d, step, left)
        PROVE  /\ d # c => at'[c] = at[c]
               /\ d = c => at'[c].step = step /\ at'[c].left = left /\ at'[c].batch = at[c].batch
    BY <1>0, <2>1 DEF GoTo, PassRecord
  <2>2. ASSUME Leave(d, step, left)
        PROVE  /\ d # c => at'[c] = at[c]
               /\ d = c => at'[c].step = step /\ at'[c].left = left
    BY <1>0, <2>2 DEF Leave
  <2>3. QED
    BY <1>2, <2>1, <2>2
<1>3. ASSUME NEW d \in Coordinators, NEW step \in Steps \ {"landed", "marking"},
             NEW left \in SUBSET Entries, GoTo(d, step, left) \/ Leave(d, step, left)
      PROVE  Other
  BY <1>2, <1>3
<1>4. /\ \A d \in Coordinators : at[d].batch \in SUBSET Entries /\ at[d].left \in SUBSET Entries
      /\ {"idle", "forming", "isolating", "claiming", "confirming", "landing", "releasing"}
           \subseteq Steps \ {"landed", "marking"}
      /\ {"landed", "marking"} \subseteq Steps
  BY DEF TypeOK, Steps
<1>5. ASSUME NEW d \in Coordinators, NEW e \in Entries, Settle(d, e)
      PROVE  Other
  <2>1. ASSUME Settled(d, e)
        PROVE  Other
    <3>1. CASE at[d].step = "retiring"
      BY <1>1, <1>3, <1>4, <2>1, <3>1 DEF Settled
    <3>2. CASE at[d].step # "retiring"
      <4> DEFINE next == [at[d] EXCEPT !.step = IF at[d].left = {e} THEN "forming" ELSE "settling",
                                       !.left = at[d].left \ {e},
                                       !.excluded = at[d].excluded \cup {e}]
      <4>1. next.step \notin {"landed", "marking"}
        BY <1>0 DEF PassRecord
      <4>2. at' = [at EXCEPT ![d] = next]
        BY <2>1, <3>2 DEF Settled
      <4> HIDE DEF next
      <4>3. QED
        BY <1>0, <4>1, <4>2
    <3>3. QED
      BY <3>1, <3>2
  <2>2. ASSUME SetApart(d, e)
        PROVE  Other
    BY <1>0, <2>2 DEF SetApart, PassRecord
  <2>3. QED
    BY <1>1, <1>5, <2>1, <2>2
       DEF Settle, Isolate, PrepareRework, RetireReworked, Park, SettleTerminal
<1>6. ASSUME NEW d \in Coordinators, Check(d)
      PROVE  Other
  <2>1. CASE GoTo(d, "claiming", at[d].batch)
    BY <1>3, <1>4, <2>1
  <2>2. CASE \E K \in SUBSET at[d].batch :
               at' = [at EXCEPT ![d] = [Idle EXCEPT !.step = "settling", !.left = K,
                                                    !.excluded = at[d].excluded]]
    BY <1>0, <2>2
  <2>3. CASE \E K \in SUBSET at[d].batch : Leave(d, "isolating", K)
    <3>1. PICK K \in SUBSET at[d].batch : Leave(d, "isolating", K)
      BY <2>3
    <3>2. QED
      BY <1>3, <1>4, <3>1
  <2>4. QED
    BY <1>6, <2>1, <2>2, <2>3 DEF Check
<1>7. ASSUME NEW d \in Coordinators, NEW e \in Entries, Claim(d, e) \/ Confirm(d, e)
      PROVE  Other
  <2>1. /\ at[d].left \ {e} \in SUBSET Entries /\ {} \in SUBSET Entries
        /\ at[d].batch \ at[d].left \in SUBSET Entries
    BY <1>4
  <2>2. QED
    BY <1>3, <1>4, <1>7, <2>1 DEF Claim, Confirm
<1>8. ASSUME NEW d \in Coordinators, NEW e \in Entries, Mark(d, e)
      PROVE  \/ Other
             \/ /\ at[c].step = "marking" /\ at'[c].step = "marking"
                /\ at'[c].left \subseteq at[c].left
  <2>1. at[d].left \ {e} \in SUBSET Entries
    BY <1>4
  <2>2. QED
    BY <1>1, <1>2, <1>4, <1>8, <2>1 DEF Mark
<1>9. ASSUME NEW d \in Coordinators,
             \/ Begin(d) \/ Hold(d) \/ Retain(d) \/ Release(d) \/ Rederive(d)
             \/ ReceiptFails(d) \/ AnswerLost(d) \/ Crash(d)
             \/ \E F \in SUBSET Entries : Form(d, F)
      PROVE  Other
  <2>1. \A e \in at[d].left : at[d].left \ {e} \in SUBSET Entries
    BY <1>4
  <2>2. CASE Release(d)
    <3>1. Rest(d) \/ \E e \in at[d].left : Leave(d, "releasing", at[d].left \ {e})
      BY <2>2 DEF Release
    <3>2. ASSUME NEW e \in at[d].left, Leave(d, "releasing", at[d].left \ {e})
          PROVE  Other
      <4> DEFINE rest == at[d].left \ {e}
      <4>1. rest \in SUBSET Entries /\ Leave(d, "releasing", rest)
        BY <2>1, <3>2
      <4>2. "releasing" \in Steps \ {"landed", "marking"}
        BY <1>4
      <4> HIDE DEF rest
      <4>3. QED
        BY <1>3, <4>1, <4>2
    <3>3. QED
      BY <1>1, <3>1, <3>2
  <2>3. CASE \E F \in SUBSET Entries : Form(d, F)
    BY <1>0, <2>3 DEF Form, PassRecord
  <2>4. QED
    BY <1>1, <1>3, <1>4, <1>9, <2>2, <2>3
       DEF Begin, Hold, Retain, Rederive, ReceiptFails, AnswerLost, Crash
<1>10. ASSUME NEW d \in Coordinators, Land(d) \/ LandAgain(d) \/ Receipt(d)
       PROVE  \/ Other
              \/ Land(c) /\ at'[c].batch = at[c].batch /\ at'[c].step = "landed"
              \/ /\ LandAgain(c) \/ Receipt(c)
                 /\ at'[c].left = at[c].batch /\ at'[c].step = "marking"
  <2>1. CASE Land(d)
    BY <1>2, <1>4, <2>1 DEF Land
  <2>2. CASE LandAgain(d) \/ Receipt(d)
    BY <1>2, <1>4, <2>2 DEF LandAgain, Receipt
  <2>3. QED
    BY <1>10, <2>1, <2>2
<1>11. QED
  BY <1>5, <1>6, <1>7, <1>8, <1>9, <1>10
     DEF Next, Work, vars, Enqueue, GrowStale, CancelSpec, Dequeue, Reevaluate, Command

\* A row is marked by a coordinator that marks it, and by nothing else.
LEMMA RowMoves ==
  ASSUME TypeOK, [Next]_vars, NEW e \in Entries, row'[e].status = "merged"
  PROVE  \/ row[e].status = "merged"
         \/ \E c \in Coordinators : at[c].step = "marking" /\ e \in at[c].left
<1>0. row \in [Entries -> RowRecord] /\ row[e] \in RowRecord
  BY DEF TypeOK, RowRecord
<1>1. ASSUME NEW f \in Entries, NEW status, SetRow(f, status)
      PROVE  row[e].status = "merged" \/ (status = "merged" /\ f = e)
  BY <1>0, <1>1 DEF SetRow, RowRecord
<1>2. ASSUME NEW c \in Coordinators, Begin(c)
      PROVE  row[e].status = "merged"
  BY <1>0, <1>2 DEF Begin, Recovered, Admission, RowRecord
<1>3. ASSUME NEW c \in Coordinators, NEW f \in Entries, Settle(c, f)
      PROVE  row[e].status = "merged"
  <2>1. ASSUME SetApart(c, f)
        PROVE  row[e].status = "merged"
    BY <1>0, <2>1 DEF SetApart, RowRecord
  <2>2. QED
    BY <1>1, <1>3, <2>1 DEF Settle, Isolate, PrepareRework, RetireReworked, Park, SettleTerminal
<1>4. ASSUME NEW c \in Coordinators, NEW f \in Entries, Claim(c, f) \/ Confirm(c, f)
      PROVE  row[e].status = "merged"
  BY <1>0, <1>1, <1>4 DEF Claim, Acquire, Confirm, RowRecord
<1>5. ASSUME NEW c \in Coordinators, NEW f \in Entries, Mark(c, f)
      PROVE  row[e].status = "merged" \/ (at[c].step = "marking" /\ e \in at[c].left)
  BY <1>1, <1>5 DEF Mark
<1>6. ASSUME NEW c \in Coordinators, Release(c)
      PROVE  row[e].status = "merged"
  <2>1. at[c].left \subseteq Entries
    BY DEF TypeOK
  <2>2. UNCHANGED row \/ \E f \in at[c].left : SetRow(f, "queued")
    BY <1>6 DEF Release
  <2>3. QED
    BY <1>1, <2>1, <2>2
<1>7. ASSUME NEW f \in Entries, Enqueue(f) \/ GrowStale(f) \/ Dequeue(f) \/ Reevaluate(f)
      PROVE  row[e].status = "merged"
  BY <1>0, <1>1, <1>7 DEF Enqueue, GrowStale, Dequeue, Reevaluate, Admission, RowRecord
<1>8. QED
  BY <1>2, <1>3, <1>4, <1>5, <1>6, <1>7
     DEF Next, Work, vars, Hold, Check, Retain, Land, LandAgain, Rederive, Receipt, Form,
         ReceiptFails, AnswerLost, Crash, CancelSpec, Command

LEMMA NextAgreed ==
  ASSUME TypeOK, Agreement, [Next]_vars
  PROVE  Agreement'
<1>1. ASSUME NEW c \in Coordinators, NEW e \in Entries, Receipt(c), e \in at[c].batch
      PROVE  spec'[e] = "merged" /\ e \in OnMain
  BY <1>1 DEF Receipt, Agreement, LandedOnMain
<1>2. \A e \in Entries : spec[e] = "merged" => spec'[e] = "merged"
  BY SpecMoves
<1>3. LandedOnMain'
  <2> SUFFICES ASSUME NEW c \in Coordinators, at'[c].step = "landed"
               PROVE  at'[c].batch \subseteq OnMain'
    BY DEF LandedOnMain
  <2>1. CASE at'[c] = at[c]
    BY <2>1, MainKept DEF Agreement, LandedOnMain
  <2>2. CASE Land(c) /\ at'[c].batch = at[c].batch
    <3>1. CASE Advance(c)
      BY <2>2, <3>1, MainGrows
    <3>2. CASE Advanced(c)
      BY <2>2, <3>2, AdvancedIsThere DEF Advanced, OnMain
    <3>3. QED
      BY <2>2, <3>1, <3>2 DEF Land
  <2>3. QED
    BY <2>1, <2>2, StepMoves
<1>4. MarkingMerged'
  <2> SUFFICES ASSUME NEW c \in Coordinators, at'[c].step = "marking", NEW e \in at'[c].left
               PROVE  spec'[e] = "merged"
    BY DEF MarkingMerged
  <2>1. at[c].batch \subseteq Entries /\ at[c].left \subseteq Entries
    BY DEF TypeOK
  <2>2. CASE at'[c] = at[c] \/ (at[c].step = "marking" /\ at'[c].left \subseteq at[c].left)
    BY <1>2, <2>1, <2>2 DEF Agreement, MarkingMerged
  <2>3. CASE LandAgain(c) /\ at'[c].left = at[c].batch
    BY <1>2, <2>1, <2>3 DEF LandAgain, Group, Agreement, ReceiptsMerged
  <2>4. CASE Receipt(c) /\ at'[c].left = at[c].batch
    BY <1>1, <2>1, <2>4
  <2>5. QED
    BY <2>2, <2>3, <2>4, StepMoves
<1>5. ReceiptsMerged'
  <2>1. UNCHANGED receipt \/ \E c \in Coordinators : Receipt(c)
    BY ReceiptMoves
  <2>2. \A g \in receipt : g.members \subseteq Entries
    BY DEF TypeOK
  <2>3. CASE UNCHANGED receipt
    BY <1>2, <2>2, <2>3 DEF Agreement, ReceiptsMerged
  <2>4. ASSUME NEW c \in Coordinators, Receipt(c)
        PROVE  ReceiptsMerged'
    <3>1. receipt' = receipt \cup {Group(c)} /\ Group(c).members = at[c].batch
          /\ at[c].batch \subseteq Entries
      BY <2>4 DEF Receipt, Group, TypeOK
    <3>2. QED
      BY <1>1, <1>2, <2>2, <2>4, <3>1 DEF Agreement, ReceiptsMerged
  <2>5. QED
    BY <2>1, <2>3, <2>4
<1>6. MergedIsOnMain'
  <2> SUFFICES ASSUME NEW e \in Entries, spec'[e] = "merged"
               PROVE  e \in OnMain'
    BY DEF MergedIsOnMain
  <2>1. e \in OnMain
    BY <1>1, SpecMoves DEF Agreement, MergedIsOnMain
  <2>2. QED
    BY <2>1, MainKept
<1>7. MarkedIsMerged'
  <2> SUFFICES ASSUME NEW e \in Entries, row'[e].status = "merged"
               PROVE  spec'[e] = "merged"
    BY DEF MarkedIsMerged
  <2>1. QED
    BY <1>2, RowMoves DEF Agreement, MarkedIsMerged, MarkingMerged
<1>8. QED
  BY <1>3, <1>4, <1>5, <1>6, <1>7 DEF Agreement

\* Main, specs, rows and receipts agree in every reachable state.
THEOREM InAgreement == Spec => []Agreement
<1>1. Init => Agreement
  BY DEF Init, Idle, Agreement, LandedOnMain, MarkingMerged, ReceiptsMerged, MergedIsOnMain,
         MarkedIsMerged
<1>2. QED
  BY <1>1, NextAgreed, TypeCorrect, PTL DEF Spec

\* A merged spec is on main, whatever crashes, receipts and answers are lost
\* (MergeAuthorityV2.land and the land finalizer).
THEOREM MergedCorrect == Spec => []MergedIsOnMain
BY InAgreement, PTL DEF Agreement

\* A row leaves the queue as merged only once its spec is merged
\* (landAuthorizedGroup, recordLandReceipt).
THEOREM MarkedCorrect == Spec => []MarkedIsMerged
BY InAgreement, PTL DEF Agreement

-----------------------------------------------------------------------------
(* Claims: an epoch belongs to one coordinator, and a row that left the    *)
(* queue is never touched again.                                           *)

Gone(e) == row[e].status \in {"merged", "dequeued"}

\* Only a claimed row has a heartbeat, and a claim has been counted.
Counted ==
  \A e \in Entries : /\ row[e].fresh => row[e].status = "merging"
                     /\ row[e].status = "merging" => row[e].epoch >= 1

\* Epochs are given once: none is ahead of its row, no two coordinators have one.
Owned ==
  \A e \in Entries : \A c \in Coordinators :
     /\ claim[c][e] <= row[e].epoch
     /\ \A d \in Coordinators \ {c} : claim[c][e] = claim[d][e] => claim[c][e] = 0

-----------------------------------------------------------------------------
(* What a step does to a row *)

Claimed(e, c) == row[e].status = "queued" /\ Acquire(c, e)
Renewed(e)    == /\ row[e].status = "merging" /\ row'[e].status = "merging"
                 /\ row'[e].epoch = row[e].epoch
Moved(e)      == /\ ~Gone(e)
                 /\ row'[e].status # "merging" /\ row'[e].epoch = row[e].epoch /\ ~row'[e].fresh
Touched(e)    == row'[e] = row[e] \/ Renewed(e) \/ Moved(e)

\* A statement that writes one row moves it, or leaves a settled row as it was.
LEMMA SetRowTouches ==
  ASSUME TypeOK, Counted, NEW e \in Entries, NEW f \in Entries,
         NEW status \in RowStatuses \ {"merging"},
         SetRow(f, status), Gone(f) => status = row[f].status
  PROVE  Touched(e)
<1>1. row \in [Entries -> RowRecord] /\ row[e] \in RowRecord /\ row[f] \in RowRecord
  BY DEF TypeOK, RowRecord
<1>2. row' = [row EXCEPT ![f].status = status, ![f].fresh = FALSE]
  BY DEF SetRow
<1>3. CASE e # f
  BY <1>1, <1>2, <1>3 DEF Touched
<1>4. CASE e = f /\ Gone(e)
  <2>1. row[e].fresh = FALSE
    BY <1>1, <1>4 DEF Counted, Gone, RowRecord
  <2>2. row'[e] = row[e]
    BY <1>1, <1>2, <1>4, <2>1 DEF RowRecord
  <2>3. QED
    BY <2>2 DEF Touched
<1>5. CASE e = f /\ ~Gone(e)
  BY <1>1, <1>2, <1>5 DEF Touched, Moved, RowRecord
<1>6. QED
  BY <1>3, <1>4, <1>5

LEMMA BeginTouches ==
  ASSUME TypeOK, Counted, NEW e \in Entries, NEW c \in Coordinators, Begin(c)
  PROVE  Touched(e)
<1>1. row[e] \in RowRecord
  BY DEF TypeOK, RowRecord
<1>2. row'[e] = [row[e] EXCEPT !.status = IF Recovered(e) = "queued" THEN Admission ELSE Recovered(e)]
  BY DEF Begin
<1>3. CASE Recovered(e) = "queued"
  <2>1. ~row[e].fresh /\ ~Gone(e)
    BY <1>1, <1>3 DEF Recovered, Counted, Gone
  <2>2. Admission \in {"queued", "held_policy"}
    BY DEF Admission
  <2>3. QED
    BY <1>1, <1>2, <1>3, <2>1, <2>2 DEF Touched, Moved, RowRecord
<1>4. CASE Recovered(e) # "queued"
  <2>1. Recovered(e) = row[e].status
    BY <1>4 DEF Recovered
  <2>2. QED
    BY <1>1, <1>2, <1>4, <2>1 DEF Touched, RowRecord
<1>5. QED
  BY <1>3, <1>4

LEMMA SettleTouches ==
  ASSUME TypeOK, Counted, NEW e \in Entries, NEW c \in Coordinators, NEW f \in Entries,
         Settle(c, f)
  PROVE  Touched(e)
<1>1. row \in [Entries -> RowRecord] /\ row[e] \in RowRecord
  BY DEF TypeOK, RowRecord
<1>2. CASE Isolate(c, f)
  <2>1. UNCHANGED row \/ (Active(f) /\ SetApart(c, f))
    BY <1>2 DEF Isolate
  <2>2. QED
    BY <1>1, <2>1 DEF SetApart, Active, Touched, Moved, Gone, RowRecord
<1>3. CASE RetireReworked(c, f) \/ Park(c, f)
  <2>1. SetRow(f, "dequeued") /\ (Active(f) \/ row[f].status = "dequeued")
    BY <1>3 DEF RetireReworked, Park
  <2>2. QED
    BY <2>1, SetRowTouches DEF Active, Gone, RowStatuses
<1>4. CASE PrepareRework(c, f) \/ SettleTerminal(c, f)
  BY <1>4 DEF PrepareRework, SettleTerminal, Touched
<1>5. QED
  BY <1>2, <1>3, <1>4 DEF Settle

LEMMA RowTouched ==
  ASSUME TypeOK, Counted, [Next]_vars, NEW e \in Entries
  PROVE  Touched(e) \/ \E c \in Coordinators : Claimed(e, c)
<1>1. row \in [Entries -> RowRecord] /\ row[e] \in RowRecord
  BY DEF TypeOK, RowRecord
<1>2. ASSUME NEW c \in Coordinators, NEW f \in Entries, Claim(c, f)
      PROVE  Touched(e) \/ Claimed(e, c)
  <2>1. UNCHANGED row \/ (row[f].status = "queued" /\ Acquire(c, f))
    BY <1>2 DEF Claim
  <2>2. QED
    BY <1>1, <2>1 DEF Acquire, Touched, Claimed, RowRecord
<1>3. ASSUME NEW c \in Coordinators, NEW f \in Entries, Confirm(c, f)
      PROVE  Touched(e)
  <2>1. UNCHANGED row \/ (Holds(c, f) /\ SetRow(f, "held_policy"))
        \/ (Holds(c, f) /\ row' = [row EXCEPT ![f].fresh = TRUE])
    BY <1>3 DEF Confirm
  <2>2. CASE Holds(c, f) /\ SetRow(f, "held_policy")
    BY <2>2, SetRowTouches DEF Holds, Gone, RowStatuses
  <2>3. QED
    BY <1>1, <2>1, <2>2 DEF Holds, Touched, Renewed, RowRecord
<1>4. ASSUME NEW c \in Coordinators, NEW f \in Entries, Mark(c, f)
      PROVE  Touched(e)
  <2>1. UNCHANGED row \/ (Holds(c, f) /\ SetRow(f, "merged"))
    BY <1>4 DEF Mark
  <2>2. QED
    BY <2>1, SetRowTouches DEF Holds, Gone, RowStatuses, Touched
<1>5. ASSUME NEW c \in Coordinators, Release(c)
      PROVE  Touched(e)
  <2>1. UNCHANGED row \/ \E f \in at[c].left : Holds(c, f) /\ SetRow(f, "queued")
    BY <1>5 DEF Release
  <2>2. at[c].left \subseteq Entries
    BY DEF TypeOK
  <2>3. QED
    BY <2>1, <2>2, SetRowTouches DEF Holds, Gone, RowStatuses, Touched
<1>6. ASSUME NEW f \in Entries, GrowStale(f)
      PROVE  Touched(e)
  BY <1>1, <1>6 DEF GrowStale, Touched, Renewed, RowRecord
<1>7. ASSUME NEW f \in Entries, Enqueue(f) \/ Dequeue(f) \/ Reevaluate(f)
      PROVE  Touched(e)
  <2>1. \E status \in {"queued", "held_policy", "dequeued"} :
           SetRow(f, status) /\ row[f].status \in {"none", "queued", "held_policy"}
    BY <1>7 DEF Enqueue, Dequeue, Reevaluate, Admission
  <2>2. QED
    BY <2>1, SetRowTouches DEF Gone, RowStatuses
<1>8. UNCHANGED row => Touched(e)
  BY DEF Touched
<1>9. QED
  BY <1>2, <1>3, <1>4, <1>5, <1>6, <1>7, <1>8, BeginTouches, SettleTouches
     DEF Next, Work, vars, Hold, Check, Retain, Land, LandAgain, Rederive, Receipt, Form,
         ReceiptFails, AnswerLost, Crash, CancelSpec, Command

LEMMA CountedKept ==
  ASSUME TypeOK, Counted, [Next]_vars
  PROVE  Counted'
<1> SUFFICES ASSUME NEW e \in Entries
             PROVE  /\ row'[e].fresh => row'[e].status = "merging"
                    /\ row'[e].status = "merging" => row'[e].epoch >= 1
  BY DEF Counted
<1>1. row \in [Entries -> RowRecord] /\ row[e] \in RowRecord
  BY DEF TypeOK, RowRecord
<1>2. CASE Touched(e)
  BY <1>2 DEF Touched, Renewed, Moved, Counted
<1>3. CASE \E c \in Coordinators : Claimed(e, c)
  BY <1>1, <1>3 DEF Claimed, Acquire, RowRecord
<1>4. QED
  BY <1>2, <1>3, RowTouched

THEOREM CountedAlways == Spec => []Counted
<1>1. Init => Counted
  BY DEF Init, Counted
<1>2. QED
  BY <1>1, CountedKept, TypeCorrect, PTL DEF Spec

\* No step touches a row that was marked or dequeued: an isolation, a release or
\* a mark that comes late finds a row it does not hold.
THEOREM SettledStays == Spec => SettledForGood
<1> DEFINE Stays == \A e \in Entries : row[e].status \in {"merged", "dequeued"} => row'[e] = row[e]
<1>1. TypeOK /\ Counted /\ [Next]_vars => [Stays]_vars
  <2> SUFFICES ASSUME TypeOK, Counted, [Next]_vars, NEW e \in Entries,
                      row[e].status \in {"merged", "dequeued"}
               PROVE  row'[e] = row[e]
    OBVIOUS
  <2>1. Touched(e) \/ \E c \in Coordinators : Claimed(e, c)
    BY RowTouched
  <2>2. QED
    BY <2>1 DEF Touched, Renewed, Moved, Claimed, Gone
<1>2. QED
  BY <1>1, TypeCorrect, CountedAlways, PTL DEF Spec, SettledForGood
-----------------------------------------------------------------------------
(* Epochs *)

\* A claim is kept or forgotten, unless it is acquired.
LEMMA ClaimMoves ==
  ASSUME TypeOK, [Next]_vars, NEW e \in Entries
  PROVE  \/ \A c \in Coordinators : claim'[c][e] \in {claim[c][e], 0}
         \/ \E c \in Coordinators : Claimed(e, c)
<1> DEFINE Kept == \A c \in Coordinators : claim'[c][e] \in {claim[c][e], 0}
<1>0. claim \in [Coordinators -> [Entries -> Nat]]
  BY DEF TypeOK
<1>1. ASSUME NEW d \in Coordinators, NEW f \in Entries, Forget(d, f)
      PROVE  Kept
  BY <1>0, <1>1 DEF Forget
<1>2. ASSUME NEW d \in Coordinators, NEW f \in Entries, Claim(d, f)
      PROVE  Kept \/ Claimed(e, d)
  <2>1. UNCHANGED claim \/ (row[f].status = "queued" /\ Acquire(d, f))
    BY <1>2 DEF Claim
  <2>2. CASE Acquire(d, f) /\ f # e
    BY <1>0, <2>2 DEF Acquire
  <2>3. QED
    BY <2>1, <2>2 DEF Claimed
<1>3. ASSUME NEW d \in Coordinators, Crash(d)
      PROVE  Kept
  BY <1>0, <1>3 DEF Crash
<1>4. ASSUME NEW d \in Coordinators, Release(d)
      PROVE  Kept
  <2>1. UNCHANGED claim \/ \E f \in at[d].left : Forget(d, f)
    BY <1>4 DEF Release
  <2>2. at[d].left \subseteq Entries
    BY DEF TypeOK
  <2>3. QED
    BY <1>1, <2>1, <2>2
<1>5. ASSUME NEW d \in Coordinators, NEW f \in Entries, Settle(d, f) \/ Confirm(d, f)
      PROVE  UNCHANGED claim
  BY <1>5 DEF Settle, Isolate, PrepareRework, RetireReworked, Park, SettleTerminal, Confirm
<1>6. ASSUME NEW d \in Coordinators, NEW f \in Entries, Mark(d, f)
      PROVE  Kept
  BY <1>1, <1>6 DEF Mark
<1>7. UNCHANGED claim => Kept
  OBVIOUS
<1>8. QED
  BY <1>2, <1>3, <1>4, <1>5, <1>6, <1>7
     DEF Next, Work, vars, Begin, Hold, Check, Retain, Land, LandAgain, Rederive, Receipt, Form,
         ReceiptFails, AnswerLost, Enqueue, GrowStale, CancelSpec, Dequeue, Reevaluate, Command

LEMMA OwnedKept ==
  ASSUME TypeOK, Counted, Owned, [Next]_vars
  PROVE  Owned'
<1> SUFFICES ASSUME NEW e \in Entries
             PROVE  \A c \in Coordinators :
                      /\ claim'[c][e] <= row'[e].epoch
                      /\ \A d \in Coordinators \ {c} :
                            claim'[c][e] = claim'[d][e] => claim'[c][e] = 0
  BY DEF Owned
<1>1. /\ row \in [Entries -> RowRecord] /\ row[e] \in RowRecord /\ row[e].epoch \in Nat
      /\ claim \in [Coordinators -> [Entries -> Nat]]
      /\ \A c \in Coordinators : claim[c][e] \in Nat
  BY DEF TypeOK, RowRecord
<1>2. CASE \E c \in Coordinators : Claimed(e, c)
  <2>1. PICK c \in Coordinators : Claimed(e, c)
    BY <1>2
  <2>2. row'[e].epoch = row[e].epoch + 1
    BY <1>1, <2>1 DEF Claimed, Acquire, RowRecord
  <2>3. claim'[c][e] = row[e].epoch + 1 /\ \A d \in Coordinators \ {c} : claim'[d][e] = claim[d][e]
    BY <1>1, <2>1 DEF Claimed, Acquire
  <2>4. QED
    BY <1>1, <2>2, <2>3 DEF Owned
<1>3. CASE ~\E c \in Coordinators : Claimed(e, c)
  <2>1. row'[e].epoch = row[e].epoch
    BY <1>3, RowTouched DEF Touched, Renewed, Moved
  <2>2. \A c \in Coordinators : claim'[c][e] \in {claim[c][e], 0}
    BY <1>3, ClaimMoves
  <2>3. QED
    BY <1>1, <2>1, <2>2 DEF Owned
<1>4. QED
  BY <1>2, <1>3

\* Two coordinators never both hold one row, however often it is recovered from
\* one and acquired by the other.
THEOREM HolderUnique == Spec => []OneHolder
<1>1. Init => Owned
  BY DEF Init, Owned
<1>2. TypeOK /\ Counted /\ Owned => OneHolder
  <2> SUFFICES ASSUME TypeOK, Counted, Owned, NEW c \in Coordinators, NEW d \in Coordinators,
                      NEW e \in Entries, Holds(c, e), Holds(d, e), c # d
               PROVE  FALSE
    BY DEF OneHolder
  <2>1. claim[c][e] = row[e].epoch /\ claim[d][e] = row[e].epoch /\ row[e].epoch >= 1
        /\ row[e].epoch \in Nat
    BY DEF Holds, Counted, TypeOK
  <2>2. QED
    BY <2>1 DEF Owned
<1>3. QED
  BY <1>1, <1>2, OwnedKept, CountedAlways, TypeCorrect, PTL DEF Spec
-----------------------------------------------------------------------------
(* Ancestors first *)

Proving == {"checking", "claiming", "confirming", "landing"}

\* A pass proves the batch it formed, and it leaves nothing out that it left in.
Carried(c) == /\ at'[c].step \in Proving =>
                   at[c].step \in Proving /\ at'[c].batch = at[c].batch
              /\ at'[c].excluded \subseteq at[c].excluded

\* It forms a batch without what it has settled.
Formed(c) == \E F \in SUBSET Entries : /\ Form(c, F)
                                       /\ at'[c].batch = F \ at[c].excluded
                                       /\ at'[c].excluded = at[c].excluded

\* It settles an entry.
SetAside(c) == \E e \in Entries : /\ RetireReworked(c, e) \/ Park(c, e) \/ SettleTerminal(c, e)
                                  /\ at'[c].step \notin Proving
                                  /\ at'[c].excluded = at[c].excluded \cup {e}

LEMMA PassMoves ==
  ASSUME TypeOK, [Next]_vars, NEW c \in Coordinators
  PROVE  Carried(c) \/ Formed(c) \/ SetAside(c)
<1>0. at \in [Coordinators -> PassRecord] /\ at[c] \in PassRecord
  BY DEF TypeOK, PassRecord
<1> USE DEF Idle
<1>1. ASSUME NEW d \in Coordinators, Rest(d)
      PROVE  Carried(c)
  BY <1>0, <1>1 DEF Rest, Carried, Proving
<1>2. ASSUME NEW d \in Coordinators, NEW step, NEW left, Leave(d, step, left), step \notin Proving
      PROVE  Carried(c)
  BY <1>0, <1>2 DEF Leave, Carried
<1>3. ASSUME NEW d \in Coordinators, NEW step, NEW left, GoTo(d, step, left),
             step \notin Proving \/ at[d].step \in Proving
      PROVE  Carried(c)
  BY <1>0, <1>3 DEF GoTo, Carried, PassRecord
<1>4. {"idle", "forming", "settling", "isolating", "retiring", "landed", "marking", "releasing"}
        \cap Proving = {}
  BY DEF Proving
<1>5. at'[c] = at[c] => Carried(c)
  BY DEF Carried
<1>6. ASSUME NEW d \in Coordinators, NEW e \in Entries, Settled(d, e), Settling(d, e)
      PROVE  \/ Carried(c)
             \/ /\ d = c /\ at'[c].step \notin Proving
                /\ at'[c].excluded = at[c].excluded \cup {e}
  <2>1. CASE at[d].step = "retiring"
    BY <1>1, <1>2, <1>4, <1>6, <2>1 DEF Settled
  <2>2. CASE at[d].step # "retiring"
    <3> DEFINE next == [at[d] EXCEPT !.step = IF at[d].left = {e} THEN "forming" ELSE "settling",
                                     !.left = at[d].left \ {e},
                                     !.excluded = at[d].excluded \cup {e}]
    <3>1. at[d] \in PassRecord
      BY <1>0
    <3>2. next.step \notin Proving /\ next.excluded = at[d].excluded \cup {e}
      BY <1>4, <3>1 DEF PassRecord
    <3>3. at' = [at EXCEPT ![d] = next]
      BY <1>6, <2>2 DEF Settled
    <3> HIDE DEF next
    <3>4. QED
      BY <1>0, <1>5, <3>2, <3>3
  <2>3. QED
    BY <2>1, <2>2
<1>7. ASSUME NEW d \in Coordinators, NEW e \in Entries, Settle(d, e)
      PROVE  Carried(c) \/ SetAside(c)
  <2>1. ASSUME SetApart(d, e)
        PROVE  Carried(c)
    BY <1>0, <1>4, <2>1 DEF SetApart, Carried, PassRecord
  <2>2. CASE Isolate(d, e) \/ PrepareRework(d, e)
    BY <1>1, <1>5, <2>1, <2>2 DEF Isolate, PrepareRework
  <2>3. CASE RetireReworked(d, e) \/ Park(d, e) \/ SettleTerminal(d, e)
    <3>1. Settled(d, e) /\ Settling(d, e)
      BY <2>3 DEF RetireReworked, Park, SettleTerminal
    <3>2. QED
      BY <1>6, <2>3, <3>1 DEF SetAside
  <2>4. QED
    BY <1>7, <2>2, <2>3 DEF Settle
<1>8. ASSUME NEW d \in Coordinators, NEW F \in SUBSET Entries, Form(d, F)
      PROVE  Carried(c) \/ Formed(c)
  <2>1. CASE d = c
    BY <1>0, <1>8, <2>1 DEF Form, Formed, PassRecord
  <2>2. CASE d # c
    BY <1>0, <1>5, <1>8, <2>2 DEF Form
  <2>3. QED
    BY <2>1, <2>2
<1>9. ASSUME NEW d \in Coordinators, Check(d)
      PROVE  Carried(c)
  <2>1. CASE GoTo(d, "claiming", at[d].batch)
    BY <1>3, <1>9, <2>1 DEF Check, Proving
  <2>2. CASE \E K \in SUBSET at[d].batch :
               at' = [at EXCEPT ![d] = [Idle EXCEPT !.step = "settling", !.left = K,
                                                    !.excluded = at[d].excluded]]
    <3>1. PICK K : at' = [at EXCEPT ![d] = [Idle EXCEPT !.step = "settling", !.left = K,
                                                       !.excluded = at[d].excluded]]
      BY <2>2
    <3>2. QED
      BY <1>0, <1>4, <1>5, <3>1 DEF Carried
  <2>3. CASE \E K \in SUBSET at[d].batch : Leave(d, "isolating", K)
    BY <1>2, <1>4, <2>3
  <2>4. QED
    BY <1>9, <2>1, <2>2, <2>3 DEF Check
<1>10. ASSUME NEW d \in Coordinators, NEW e \in Entries,
              Claim(d, e) \/ Confirm(d, e) \/ Mark(d, e)
       PROVE  Carried(c)
  <2>1. CASE Claim(d, e)
    BY <1>2, <1>3, <1>4, <2>1 DEF Claim, Proving
  <2>2. CASE Confirm(d, e)
    BY <1>2, <1>3, <1>4, <2>2 DEF Confirm, Proving
  <2>3. CASE Mark(d, e)
    BY <1>1, <1>2, <1>4, <2>3 DEF Mark
  <2>4. QED
    BY <1>10, <2>1, <2>2, <2>3
<1>11. ASSUME NEW d \in Coordinators, Begin(d) \/ Hold(d) \/ Retain(d) \/ Release(d)
       PROVE  Carried(c)
  BY <1>1, <1>2, <1>4, <1>11 DEF Begin, Hold, Retain, Release
<1>12. ASSUME NEW d \in Coordinators,
              \/ Land(d) \/ LandAgain(d) \/ Rederive(d) \/ Receipt(d)
              \/ ReceiptFails(d) \/ AnswerLost(d) \/ Crash(d)
       PROVE  Carried(c)
  BY <1>1, <1>2, <1>3, <1>4, <1>12
     DEF Land, LandAgain, Rederive, Receipt, ReceiptFails, AnswerLost, Crash
<1>13. QED
  BY <1>5, <1>7, <1>8, <1>9, <1>10, <1>11, <1>12
     DEF Next, Work, vars, Enqueue, GrowStale, CancelSpec, Dequeue, Reevaluate, Command

\* A spec that needs no landing any more.
Closed(e) == spec[e] \in {"merged", "cancelled"}

\* What a pass leaves out left the queue or needs no landing.
Aside == \A c \in Coordinators : \A e \in at[c].excluded : Gone(e) \/ Closed(e)

\* A batch that is proved contains what its members depend on.
Founded ==
  \A c \in Coordinators : at[c].step \in Proving =>
     \A e \in at[c].batch : \A d \in DependsOn[e] : d \in at[c].batch \/ Closed(d)

Grounded == Aside /\ Founded /\ AncestorsFirst

\* A merged or cancelled spec is not reopened by the queue.
LEMMA ClosedStays ==
  ASSUME TypeOK, [Next]_vars, NEW e \in Entries, Closed(e)
  PROVE  Closed(e)'
<1>0. spec \in [Entries -> SpecStatuses]
  BY DEF TypeOK
<1> USE DEF Closed
<1>1. ASSUME NEW c \in Coordinators, NEW f \in Entries, Settle(c, f)
      PROVE  Closed(e)'
  BY <1>0, <1>1 DEF Settle, Isolate, PrepareRework, RetireReworked, Park, SettleTerminal
<1>2. ASSUME NEW c \in Coordinators, Receipt(c)
      PROVE  Closed(e)'
  BY <1>0, <1>2 DEF Receipt
<1>3. ASSUME NEW f \in Entries, CancelSpec(f)
      PROVE  Closed(e)'
  BY <1>0, <1>3 DEF CancelSpec, LiveDependent
<1>4. QED
  BY <1>0, <1>1, <1>2, <1>3
     DEF Next, Work, vars, Begin, Hold, Check, Retain, Release, Land, LandAgain, Rederive, Form,
         Claim, Confirm, Mark, ReceiptFails, AnswerLost, Crash, Enqueue, GrowStale, Dequeue,
         Reevaluate, Command

LEMMA AsideKept ==
  ASSUME TypeOK, Counted, Aside, [Next]_vars
  PROVE  Aside'
<1> SUFFICES ASSUME NEW c \in Coordinators, NEW e \in at'[c].excluded
             PROVE  Gone(e)' \/ Closed(e)'
  BY DEF Aside
<1>1. at[c].excluded \subseteq Entries
  BY DEF TypeOK
<1>2. ASSUME NEW f \in Entries, Gone(f) \/ Closed(f)
      PROVE  Gone(f)' \/ Closed(f)'
  <2>1. CASE Gone(f)
    BY <2>1, RowTouched DEF Touched, Renewed, Moved, Claimed, Gone
  <2>2. CASE Closed(f)
    BY <2>2, ClosedStays
  <2>3. QED
    BY <1>2, <2>1, <2>2
<1>3. CASE e \in at[c].excluded
  BY <1>1, <1>2, <1>3 DEF Aside
<1>4. CASE e \notin at[c].excluded
  <2>1. /\ e \in Entries
        /\ RetireReworked(c, e) \/ Park(c, e) \/ SettleTerminal(c, e)
    BY <1>4, PassMoves DEF Carried, Formed, SetAside
  <2>2. row \in [Entries -> RowRecord]
    BY DEF TypeOK, RowRecord
  <2>3. CASE RetireReworked(c, e) \/ Park(c, e)
    BY <2>1, <2>2, <2>3 DEF RetireReworked, Park, SetRow, Gone, RowRecord
  <2>4. CASE SettleTerminal(c, e)
    BY <2>4 DEF SettleTerminal, Closed
  <2>5. QED
    BY <2>1, <2>3, <2>4
<1>5. QED
  BY <1>3, <1>4

LEMMA FoundedKept ==
  ASSUME TypeOK, Aside, Founded, [Next]_vars
  PROVE  Founded'
<1> SUFFICES ASSUME NEW c \in Coordinators, at'[c].step \in Proving,
                    NEW e \in at'[c].batch, NEW d \in DependsOn[e]
             PROVE  d \in at'[c].batch \/ Closed(d)'
  BY DEF Founded
<1>1. at[c].batch \subseteq Entries /\ at[c].excluded \subseteq Entries
  BY DEF TypeOK
<1>2. CASE Carried(c)
  <2>1. d \in at'[c].batch \/ Closed(d)
    BY <1>2 DEF Carried, Founded
  <2>2. d \in Entries
    BY <1>1, <1>2, GraphAssumption DEF Carried
  <2>3. QED
    BY <2>1, <2>2, ClosedStays
<1>3. CASE Formed(c)
  <2>1. PICK F \in SUBSET Entries : Form(c, F) /\ at'[c].batch = F \ at[c].excluded
    BY <1>3 DEF Formed
  <2>2. e \in F /\ (d \in F \/ spec[d] = "merged") /\ d \in Entries
    BY <2>1, GraphAssumption DEF Form, Formable
  <2>3. d \in F /\ d \in at[c].excluded => Closed(d)
    BY <2>1 DEF Form, Formable, Aside, Gone
  <2>4. d \in at'[c].batch \/ Closed(d)
    BY <2>1, <2>2, <2>3 DEF Closed
  <2>5. QED
    BY <2>2, <2>4, ClosedStays
<1>4. QED
  BY <1>2, <1>3, PassMoves DEF SetAside

\* Main grows by a founded batch; a spec it depends on is merged, hence on main,
\* or cancelled.
LEMMA AncestorsKept ==
  ASSUME TypeOK, Agreement, Agreement', Founded, AncestorsFirst, [Next]_vars
  PROVE  AncestorsFirst'
<1> SUFFICES ASSUME NEW e \in OnMain', NEW d \in DependsOn[e]
             PROVE  d \in OnMain' \/ spec'[d] = "cancelled"
  BY DEF AncestorsFirst
<1>1. OnMain \subseteq OnMain' /\ OnMain \subseteq Entries
  BY MainKept DEF TypeOK, OnMain
<1>2. ASSUME d \in Entries, Closed(d)
      PROVE  d \in OnMain' \/ spec'[d] = "cancelled"
  BY <1>2, ClosedStays DEF Closed, Agreement, MergedIsOnMain
<1>3. CASE e \in OnMain
  <2>1. d \in Entries
    BY <1>1, <1>3, GraphAssumption
  <2>2. QED
    BY <1>1, <1>2, <1>3, <2>1 DEF AncestorsFirst, Closed
<1>4. CASE e \notin OnMain
  <2>1. PICK c \in Coordinators : Advance(c)
    BY <1>4, MainChanges DEF OnMain
  <2>2. OnMain' = OnMain \cup at[c].batch /\ at[c].batch \subseteq Entries
    BY <2>1, MainGrows DEF TypeOK
  <2>3. e \in at[c].batch /\ at[c].step \in Proving
    BY <1>4, <2>1, <2>2 DEF Advance, Proving
  <2>4. d \in Entries /\ (d \in at[c].batch \/ Closed(d))
    BY <2>2, <2>3, GraphAssumption DEF Founded
  <2>5. QED
    BY <1>2, <2>2, <2>4
<1>5. QED
  BY <1>3, <1>4

\* An entry lands with or after what it depends on, whatever the pass settled,
\* isolated or left out before it formed the batch again, and whatever was
\* cancelled meanwhile (formBatch, the settlement of a failed batch, the landing).
THEOREM AncestorsLandFirst == Spec => []AncestorsFirst
<1>1. Init => Grounded
  BY DEF Init, Idle, Grounded, Aside, Founded, Proving, AncestorsFirst, OnMain
<1>2. TypeOK /\ Counted /\ Agreement /\ Agreement' /\ Grounded /\ [Next]_vars => Grounded'
  BY AsideKept, FoundedKept, AncestorsKept DEF Grounded
<1>3. Grounded => AncestorsFirst
  BY DEF Grounded
<1>4. QED
  BY <1>1, <1>2, <1>3, TypeCorrect, CountedAlways, InAgreement, PTL DEF Spec
-----------------------------------------------------------------------------
(* The refinement of Mainline *)

\* A batch is made of rows of the queue.
Entered == \A c \in Coordinators : at[c].step \in Proving =>
              \A e \in at[c].batch : row[e].status # "none"

\* How a step that writes rows changes places.
LEMMA SetRowPlaces ==
  ASSUME TypeOK, NEW f \in Entries, NEW status, SetRow(f, status)
  PROVE  Place' = [Place EXCEPT ![f] = PlaceOf(status)]
<1>1. row \in [Entries -> RowRecord]
  BY DEF TypeOK, RowRecord
<1>2. row' = [row EXCEPT ![f].status = status, ![f].fresh = FALSE]
  BY DEF SetRow
<1>3. \A e \in Entries : row'[e].status = IF e = f THEN status ELSE row[e].status
  BY <1>1, <1>2 DEF RowRecord
<1>4. QED
  BY <1>3 DEF Place

LEMMA SetRowStays ==
  ASSUME TypeOK, NEW f \in Entries, NEW status, SetRow(f, status),
         PlaceOf(status) = PlaceOf(row[f].status)
  PROVE  UNCHANGED Place
BY SetRowPlaces DEF Place

\* Whatever is done to a row while it is in the queue, its place is the same.
LEMMA PlaceStays ==
  ASSUME TypeOK, NEW c \in Coordinators,
         \/ Begin(c) \/ Hold(c) \/ Check(c) \/ Retain(c) \/ Release(c) \/ Land(c)
         \/ LandAgain(c) \/ Rederive(c) \/ Receipt(c) \/ ReceiptFails(c) \/ AnswerLost(c)
         \/ Crash(c) \/ \E F \in SUBSET Entries : Form(c, F)
         \/ \E e \in Entries : \/ Isolate(c, e) \/ PrepareRework(c, e) \/ SettleTerminal(c, e)
                               \/ Claim(c, e) \/ Confirm(c, e)
  PROVE  UNCHANGED Place
<1>1. row \in [Entries -> RowRecord]
  BY DEF TypeOK, RowRecord
<1>2. UNCHANGED row => UNCHANGED Place
  BY DEF Place
<1>3. /\ PlaceOf("queued") = "inside" /\ PlaceOf("merging") = "inside"
      /\ PlaceOf("held_policy") = "inside"
  BY DEF PlaceOf
<1>4. CASE Begin(c)
  <2>1. \A e \in Entries : row'[e].status = IF Recovered(e) = "queued" THEN Admission
                                            ELSE Recovered(e)
    BY <1>1, <1>4 DEF Begin, RowRecord
  <2>2. \A e \in Entries : PlaceOf(row'[e].status) = PlaceOf(row[e].status)
    BY <1>3, <2>1 DEF Recovered, Admission
  <2>3. QED
    BY <2>2 DEF Place
<1>5. ASSUME NEW e \in Entries, Isolate(c, e)
      PROVE  UNCHANGED Place
  <2>1. CASE UNCHANGED row
    BY <1>2, <2>1
  <2>2. CASE Active(e) /\ SetApart(c, e)
    <3>1. \A f \in Entries : row'[f].status = IF f = e THEN "queued" ELSE row[f].status
      BY <1>1, <2>2 DEF SetApart, RowRecord
    <3>2. QED
      BY <1>3, <2>2, <3>1 DEF Active, Place
  <2>3. QED
    BY <1>5, <2>1, <2>2 DEF Isolate
<1>6. ASSUME NEW e \in Entries, Claim(c, e)
      PROVE  UNCHANGED Place
  <2>1. CASE UNCHANGED row
    BY <1>2, <2>1
  <2>2. CASE row[e].status = "queued" /\ Acquire(c, e)
    <3>1. \A f \in Entries : row'[f].status = IF f = e THEN "merging" ELSE row[f].status
      BY <1>1, <2>2 DEF Acquire, RowRecord
    <3>2. QED
      BY <1>3, <2>2, <3>1 DEF Place
  <2>3. QED
    BY <1>6, <2>1, <2>2 DEF Claim
<1>7. ASSUME NEW e \in Entries, Confirm(c, e)
      PROVE  UNCHANGED Place
  <2>1. CASE UNCHANGED row
    BY <1>2, <2>1
  <2>2. CASE Holds(c, e) /\ SetRow(e, "held_policy")
    BY <1>3, <2>2, SetRowStays DEF Holds
  <2>3. CASE row' = [row EXCEPT ![e].fresh = TRUE]
    <3>1. \A f \in Entries : row'[f].status = row[f].status
      BY <1>1, <2>3 DEF RowRecord
    <3>2. QED
      BY <3>1 DEF Place
  <2>4. QED
    BY <1>7, <2>1, <2>2, <2>3 DEF Confirm
<1>8. CASE Release(c)
  <2>1. at[c].left \subseteq Entries
    BY DEF TypeOK
  <2>2. UNCHANGED row \/ \E e \in at[c].left : Holds(c, e) /\ SetRow(e, "queued")
    BY <1>8 DEF Release
  <2>3. QED
    BY <1>2, <1>3, <2>1, <2>2, SetRowStays DEF Holds
<1>9. ASSUME NEW e \in Entries, PrepareRework(c, e) \/ SettleTerminal(c, e)
      PROVE  UNCHANGED Place
  BY <1>2, <1>9 DEF PrepareRework, SettleTerminal
<1>10. QED
  BY <1>2, <1>4, <1>5, <1>6, <1>7, <1>8, <1>9
     DEF Hold, Check, Retain, Land, LandAgain, Rederive, Receipt, Form,
         ReceiptFails, AnswerLost, Crash

LEMMA InitMapped == Init => M!Init
BY DEF Init, M!Init, Place, PlaceOf, OnMain

\* The steps that the queue is about, one by one.
LEMMA LandMapped ==
  ASSUME TypeOK, Agreement, Founded, Entered, NEW c \in Coordinators, Land(c) \/ AnswerLost(c)
  PROVE  \E B \in SUBSET Entries : M!Land(B)
<1>1. (Advance(c) \/ Advanced(c)) /\ UNCHANGED <<row, spec>>
  BY DEF Land, AnswerLost
<1>2. at[c].batch \in SUBSET Entries /\ at[c].step \in Proving
  BY <1>1 DEF TypeOK, Advance, Advanced, Proving
<1>3. OnMain' = OnMain \cup at[c].batch /\ UNCHANGED Place
  <2>1. CASE Advance(c)
    BY <1>1, <2>1, MainGrows DEF Place
  <2>2. CASE Advanced(c)
    BY <1>1, <2>2, AdvancedIsThere DEF Advanced, OnMain, Place
  <2>3. QED
    BY <1>1, <2>1, <2>2
<1>4. \A e \in at[c].batch : Place[e] # "outside"
  BY <1>2 DEF Entered, Place, PlaceOf
<1>5. M!Founded(at[c].batch)
  <2> SUFFICES ASSUME NEW e \in at[c].batch, NEW d \in DependsOn[e]
               PROVE  d \in at[c].batch \cup OnMain \/ spec[d] = "cancelled"
    BY DEF M!Founded
  <2>1. d \in Entries /\ (d \in at[c].batch \/ Closed(d))
    BY <1>2, GraphAssumption DEF Founded
  <2>2. QED
    BY <2>1 DEF Closed, Agreement, MergedIsOnMain
<1>6. QED
  BY <1>1, <1>2, <1>3, <1>4, <1>5 DEF M!Land

LEMMA SettleMapped ==
  ASSUME TypeOK, NEW c \in Coordinators, NEW e \in Entries, Settle(c, e)
  PROVE  \/ UNCHANGED M!queue
         \/ M!Rework(e) \/ M!Dequeue(e) \/ M!Park(e)
<1>1. UNCHANGED OnMain
  BY DEF Settle, Isolate, PrepareRework, RetireReworked, Park, SettleTerminal, OnMain
<1>2. spec \in [Entries -> SpecStatuses]
  BY DEF TypeOK
<1>3. Active(e) => Place[e] = "inside"
  BY DEF Active, Place, PlaceOf
<1>4. CASE RetireReworked(c, e)
  <2>1. SetRow(e, "dequeued") /\ UNCHANGED spec
    BY <1>4 DEF RetireReworked
  <2>2. CASE Active(e)
    BY <1>1, <1>3, <2>1, <2>2, SetRowPlaces DEF M!Dequeue, M!Leave, PlaceOf
  <2>3. CASE row[e].status = "dequeued"
    BY <1>1, <2>1, <2>3, SetRowStays DEF M!queue
  <2>4. QED
    BY <1>4, <2>2, <2>3 DEF RetireReworked
<1>5. CASE Park(c, e)
  <2>1. Place' = [Place EXCEPT ![e] = "dequeued"]
    BY <1>5, SetRowPlaces DEF Park, PlaceOf
  <2>2. QED
    BY <1>1, <1>3, <1>5, <2>1 DEF Park, M!Park, M!Leave
<1>6. CASE PrepareRework(c, e)
  BY <1>1, <1>3, <1>6 DEF PrepareRework, M!Rework, Place
<1>7. CASE Isolate(c, e) \/ SettleTerminal(c, e)
  <2>1. UNCHANGED Place /\ UNCHANGED spec
    BY <1>7, PlaceStays DEF Isolate, SettleTerminal
  <2>2. QED
    BY <1>1, <2>1 DEF M!queue
<1>8. QED
  BY <1>4, <1>5, <1>6, <1>7 DEF Settle

\* A pass of a coordinator, step by step.
LEMMA WorkMapped ==
  ASSUME TypeOK, Agreement, Founded, Entered, NEW c \in Coordinators, Work(c)
  PROVE  M!Next \/ UNCHANGED M!queue
<1>1. CASE Land(c)
  BY <1>1, LandMapped DEF M!Next
<1>2. CASE Receipt(c)
  <2>1. at[c].batch \in SUBSET Entries /\ at[c].batch \subseteq OnMain /\ UNCHANGED <<Place, OnMain>>
    BY <1>2, PlaceStays DEF Receipt, Agreement, LandedOnMain, TypeOK, OnMain
  <2>2. M!Record(at[c].batch)
    BY <1>2, <2>1 DEF Receipt, M!Record
  <2>3. QED
    BY <2>1, <2>2 DEF M!Next
<1>3. ASSUME NEW e \in Entries, Settle(c, e)
      PROVE  M!Next \/ UNCHANGED M!queue
  BY <1>3, SettleMapped DEF M!Next
<1>4. ASSUME NEW e \in Entries, Mark(c, e)
      PROVE  M!Next \/ UNCHANGED M!queue
  <2>1. UNCHANGED <<spec, OnMain>>
    BY <1>4 DEF Mark, OnMain
  <2>2. CASE UNCHANGED row
    BY <2>1, <2>2 DEF M!queue, Place
  <2>3. CASE Holds(c, e) /\ SetRow(e, "merged")
    <3>1. spec[e] = "merged"
      BY <1>4 DEF Mark, Agreement, MarkingMerged
    <3>2. Place[e] = "inside" /\ Place' = [Place EXCEPT ![e] = "merged"]
      BY <2>3, SetRowPlaces DEF Holds, Place, PlaceOf
    <3>3. M!Mark(e)
      BY <2>1, <3>1, <3>2 DEF M!Mark, M!Leave
    <3>4. QED
      BY <3>3 DEF M!Next
  <2>4. QED
    BY <1>4, <2>2, <2>3 DEF Mark
<1>5. CASE \/ Hold(c) \/ Check(c) \/ Retain(c) \/ Release(c) \/ LandAgain(c) \/ Rederive(c)
           \/ \E F \in SUBSET Entries : Form(c, F)
           \/ \E e \in Entries : Claim(c, e) \/ Confirm(c, e)
  <2>1. UNCHANGED Place
    BY <1>5, PlaceStays
  <2>2. UNCHANGED <<spec, OnMain>>
    BY <1>5 DEF Hold, Check, Retain, Release, LandAgain, Rederive, Form, Claim, Confirm, OnMain
  <2>3. QED
    BY <2>1, <2>2 DEF M!queue
<1>6. QED
  BY <1>1, <1>2, <1>3, <1>4, <1>5 DEF Work

\* What operators do to one entry.
LEMMA CommandMapped ==
  ASSUME TypeOK, NEW e \in Entries,
         Enqueue(e) \/ GrowStale(e) \/ CancelSpec(e) \/ Dequeue(e) \/ Reevaluate(e)
  PROVE  M!Enter(e) \/ M!Cancel(e) \/ M!Dequeue(e) \/ UNCHANGED M!queue
<1>1. UNCHANGED OnMain
  BY DEF Enqueue, GrowStale, CancelSpec, Dequeue, Reevaluate, OnMain
<1>2. CASE Enqueue(e)
  <2>1. SetRow(e, Admission) /\ PlaceOf(Admission) = "inside" /\ Place[e] = "outside"
    BY <1>2 DEF Enqueue, Admission, Place, PlaceOf
  <2>2. QED
    BY <1>1, <1>2, <2>1, SetRowPlaces DEF Enqueue, M!Enter
<1>3. CASE CancelSpec(e)
  <2>1. UNCHANGED Place
    BY <1>3 DEF CancelSpec, Place
  <2>2. QED
    BY <1>1, <1>3, <2>1 DEF CancelSpec, LiveDependent, M!Cancel
<1>4. CASE Dequeue(e)
  <2>1. SetRow(e, "dequeued") /\ PlaceOf("dequeued") = "dequeued" /\ Place[e] = "inside"
    BY <1>4 DEF Dequeue, Place, PlaceOf
  <2>2. QED
    BY <1>1, <1>4, <2>1, SetRowPlaces DEF Dequeue, M!Dequeue, M!Leave
<1>5. CASE GrowStale(e) \/ Reevaluate(e)
  <2>1. UNCHANGED spec
    BY <1>5 DEF GrowStale, Reevaluate
  <2>2. row \in [Entries -> RowRecord]
    BY DEF TypeOK, RowRecord
  <2>3. CASE GrowStale(e)
    <3>1. \A f \in Entries : row'[f].status = row[f].status
      BY <2>2, <2>3 DEF GrowStale, RowRecord
    <3>2. QED
      BY <1>1, <2>1, <3>1 DEF M!queue, Place
  <2>4. CASE Reevaluate(e)
    <3>1. \E status \in {"queued", "held_policy"} : SetRow(e, status)
      BY <2>4 DEF Reevaluate, Admission
    <3>2. UNCHANGED Place
      BY <2>4, <3>1, SetRowStays DEF Reevaluate, PlaceOf
    <3>3. QED
      BY <1>1, <2>1, <3>2 DEF M!queue
  <2>5. QED
    BY <1>5, <2>3, <2>4
<1>6. QED
  BY <1>2, <1>3, <1>4, <1>5

LEMMA NextMapped ==
  ASSUME TypeOK, Agreement, Founded, Entered, [Next]_vars
  PROVE  [M!Next]_(M!queue)
<1>1. ASSUME NEW c \in Coordinators, Begin(c) \/ ReceiptFails(c) \/ Crash(c)
      PROVE  UNCHANGED M!queue
  <2>1. UNCHANGED Place
    BY <1>1, PlaceStays
  <2>2. UNCHANGED <<spec, OnMain>>
    BY <1>1 DEF Begin, ReceiptFails, Crash, OnMain
  <2>3. QED
    BY <2>1, <2>2 DEF M!queue
<1>2. ASSUME NEW c \in Coordinators, AnswerLost(c)
      PROVE  M!Next
  BY <1>2, LandMapped DEF M!Next
<1>3. ASSUME NEW next \in Policies, Command(next)
      PROVE  UNCHANGED M!queue
  BY <1>3 DEF Command, M!queue, Place, OnMain
<1>4. UNCHANGED vars => UNCHANGED M!queue
  BY DEF vars, M!queue, Place, OnMain
<1>5. ASSUME NEW e \in Entries,
             Enqueue(e) \/ GrowStale(e) \/ CancelSpec(e) \/ Dequeue(e) \/ Reevaluate(e)
      PROVE  M!Next \/ UNCHANGED M!queue
  BY <1>5, CommandMapped DEF M!Next
<1>6. QED
  BY <1>1, <1>2, <1>3, <1>4, <1>5, WorkMapped DEF Next

\* Rows that entered the queue are not forgotten.
LEMMA EnteredKept ==
  ASSUME TypeOK, Agreement, Founded, Entered, [Next]_vars
  PROVE  Entered'
<1> SUFFICES ASSUME NEW c \in Coordinators, at'[c].step \in Proving, NEW e \in at'[c].batch
             PROVE  row'[e].status # "none"
  BY DEF Entered
<1>1. at[c].batch \subseteq Entries
  BY DEF TypeOK
<1>2. e \in Entries /\ Place[e] # "outside"
  <2>1. CASE Carried(c)
    BY <1>1, <2>1 DEF Carried, Entered, Place, PlaceOf
  <2>2. CASE Formed(c)
    BY <2>2 DEF Formed, Form, Formable, Place, PlaceOf
  <2>3. QED
    BY <2>1, <2>2, PassMoves DEF SetAside
<1>3. Place'[e] # "outside"
  <2>1. [M!Next]_(M!queue)
    BY NextMapped
  <2>2. Place \in [Entries -> M!Places]
    BY DEF Place, PlaceOf, M!Places
  <2>3. QED
    BY <1>2, <2>1, <2>2
       DEF M!Next, M!queue, M!Land, M!Record, M!Enter, M!Mark, M!Leave, M!Dequeue, M!Rework,
           M!Park, M!Cancel
<1>4. QED
  BY <1>2, <1>3 DEF Place, PlaceOf

\* Any number of coordinators whose passes overlap, whose claims go stale, whose
\* answers and receipts are lost and who start again implement the one queue of
\* Mainline, under every graph, partitioning and command.
THEOREM Lands == Spec => ImplementsMainline
<1>1. Init => Grounded /\ Entered
  BY DEF Init, Idle, Grounded, Aside, Founded, Proving, AncestorsFirst, OnMain, Entered
<1>2. TypeOK /\ Counted /\ Agreement /\ Agreement' /\ Grounded /\ Entered /\ [Next]_vars
        => Grounded' /\ Entered'
  BY AsideKept, FoundedKept, AncestorsKept, EnteredKept DEF Grounded
<1>3. TypeOK /\ Agreement /\ Grounded /\ Entered /\ [Next]_vars => [M!Next]_(M!queue)
  BY NextMapped DEF Grounded
<1>4. QED
  BY <1>1, <1>2, <1>3, InitMapped, TypeCorrect, CountedAlways, InAgreement, PTL
     DEF Spec, ImplementsMainline, M!Spec
=============================================================================
