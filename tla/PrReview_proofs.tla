--------------------------- MODULE PrReview_proofs ----------------------------
(***************************************************************************)
(* Proofs about PrReview, for any set of PRs, any mode and any bounds: type *)
(* correctness; as long as no call fails, the single review label of an     *)
(* open PR, and what a PR may cost in reviews and in address sessions, with *)
(* the reaper, with background resumes or with both.                        *)
(***************************************************************************)
EXTENDS PrReview, FiniteSetTheorems, TLAPS

-----------------------------------------------------------------------------
(* Types of the parts *)

\* The budget of faults, edits and restarts after a step.
Totals == /\ faults' \in Nat /\ edits' \in Nat /\ kills' \in Nat
          /\ faults' + edits' + kills' <= MaxTrouble

LEMMA TotalsType ==
  ASSUME TypeOK, Fault \/ NoFault, UNCHANGED <<kills, edits>>
  PROVE  Totals
<1>1. faults \in Nat /\ edits \in Nat /\ kills \in Nat /\ MaxTrouble \in Nat
  BY LimitsAssumption DEF TypeOK
<1>2. faults + edits + kills <= MaxTrouble
  BY DEF TypeOK
<1>3. kills' = kills /\ edits' = edits
  OBVIOUS
<1>4. CASE Fault
  BY <1>1, <1>3, <1>4 DEF Fault, Room, Totals
<1>5. CASE NoFault
  BY <1>1, <1>2, <1>3, <1>5 DEF NoFault, Totals
<1> QED BY <1>4, <1>5

LEMMA SpentNat == MaxSpent \in Nat
  BY LimitsAssumption DEF MaxSpent

LEMMA IdleType == IdleTick \in Ticks /\ IdleTick.point = "next"
  BY LimitsAssumption DEF IdleTick, Ticks, Heads, Verdicts

LEMMA LeaveType ==
  ASSUME TypeOK, NEW p
  PROVE  Leave(p) \in Ticks /\ Leave(p).point = "next"
  BY DEF TypeOK, Leave, Ticks

LEMMA ClassifyingType ==
  ASSUME TypeOK
  PROVE  Classifying \in Ticks /\ Classifying.point = "next"
<1> DEFINE S == {p \in open : ~label[p].own}
<1>1. S \in SUBSET Prs
  BY DEF TypeOK
<1>2. Classifying = [IdleTick EXCEPT !.at = "classify", !.list = S]
  BY DEF Classifying
<1> HIDE DEF S
<1> QED BY <1>1, <1>2, IdleType DEF Ticks

LEMMA PhaseType ==
  ASSUME NEW phase \in {"idle", "reap", "reconcile", "review", "classify"},
         NEW S \in SUBSET Prs, Phase(phase, S)
  PROVE  tick' \in Ticks /\ tick'.point = "next"
  BY IdleType DEF Phase, IdleTick, Ticks

LEMMA AtType ==
  ASSUME TypeOK, NEW phase, NEW p, At(phase, p)
  PROVE  p \in Prs /\ label[p] \in Labels /\ p \in tick.list
  BY DEF TypeOK, At, Foremost, Ticks

LEMMA TargetType ==
  ASSUME TypeOK, NEW p, Target(p)
  PROVE  p \in Prs /\ label[p] \in Labels /\ memo[p] \in Memos /\ p \in tick.cand
  BY DEF TypeOK, Target, Eligible, Ticks

LEMMA RestTypes == Forgotten \in Memos /\ NoResume \in Resumes /\ NoSession \in Sessions
  BY LimitsAssumption DEF Forgotten, Memos, NoResume, Resumes, NoSession, Sessions, Ends, Heads

LEMMA RelabelType ==
  ASSUME TypeOK, NEW p \in Prs, NEW from \in ReviewLabels, NEW to \in ReviewLabels,
         NEW how \in Outcomes, Relabel(p, from, to, how)
  PROVE  /\ label' \in [Prs -> Labels]
         /\ news' \in SUBSET Prs
         /\ Fault \/ NoFault
<1> DEFINE S == CASE how = "moved" -> Moved(label[p].review, from, to)
                  [] how = "kept"  -> label[p].review
                  [] how = "lost"  -> label[p].review \ {from}
           r == [label[p] EXCEPT !.review = S]
<1>1. S \in SUBSET ReviewLabels
  BY DEF TypeOK, Labels, Outcomes, Moved
<1>2. label' = [label EXCEPT ![p] = r]
  BY DEF Relabel
<1>3. r \in Labels
  <2> HIDE DEF S
  <2> QED BY <1>1 DEF TypeOK, Labels
<1>4. label' \in [Prs -> Labels]
  <2> HIDE DEF r
  <2> QED BY <1>2, <1>3 DEF TypeOK
<1>5. news' \in SUBSET Prs /\ (Fault \/ NoFault)
  BY DEF Relabel, TypeOK
<1> QED BY <1>4, <1>5

LEMMA BlockType ==
  ASSUME TypeOK, NEW p \in Prs, Block(p)
  PROVE  label' \in [Prs -> Labels] /\ memo' \in [Prs -> Memos] /\ (Fault \/ NoFault)
<1>0. label[p] \in Labels
  BY DEF TypeOK
<1>1. [label[p] EXCEPT !.blocked = TRUE] \in Labels
  BY <1>0 DEF Labels
<1>2. label' \in [Prs -> Labels]
  BY <1>1 DEF Block, TypeOK
<1> QED BY <1>2, RestTypes DEF Block, TypeOK

LEMMA StartsType ==
  ASSUME TypeOK, NEW p \in Prs, NEW kind \in {"review", "address"},
         NEW by \in {"ledger", "resume", "bg", "lost"}, Starts(p, kind, by)
  PROVE  /\ live' \in [Prs -> Sessions]
         /\ spent' \in [Prs -> [rounds : 0..MaxSpent, fixes : 0..MaxSpent]]
<1>1. [kind |-> kind, by |-> by] \in Sessions
  BY DEF Sessions
<1>2. live' \in [Prs -> Sessions]
  BY <1>1 DEF Starts, TypeOK
<1>3. spent[p] \in [rounds : 0..MaxSpent, fixes : 0..MaxSpent]
  BY DEF TypeOK
<1>4. \A n \in 0..MaxSpent : More(n) \in 0..MaxSpent
  BY SpentNat DEF More
<1>5. [spent[p] EXCEPT !.rounds = More(spent[p].rounds)]
         \in [rounds : 0..MaxSpent, fixes : 0..MaxSpent]
  BY <1>3, <1>4
<1>6. [spent[p] EXCEPT !.fixes = More(spent[p].fixes)]
         \in [rounds : 0..MaxSpent, fixes : 0..MaxSpent]
  BY <1>3, <1>4
<1>7. CASE spent' = [spent EXCEPT ![p].rounds = More(@)]
  BY <1>2, <1>5, <1>7 DEF TypeOK
<1>8. CASE spent' = [spent EXCEPT ![p].fixes = More(@)]
  BY <1>2, <1>6, <1>8 DEF TypeOK
<1> QED BY <1>7, <1>8 DEF Starts

LEMMA PostType ==
  ASSUME TypeOK, NEW p \in Prs, NEW kind \in {"review", "address"}, PostNowait(p, kind)
  PROVE  /\ live' \in [Prs -> Sessions]
         /\ spent' \in [Prs -> [rounds : 0..MaxSpent, fixes : 0..MaxSpent]]
         /\ ledger' \in [Prs -> Entries]
         /\ Fault \/ NoFault
<1>1. CASE UNCHANGED <<live, ledger, spent>> /\ (Fault \/ NoFault)
  BY <1>1 DEF TypeOK
<1>2. CASE Starts(p, kind, "ledger") /\ ledger' = [ledger EXCEPT ![p] = "running"] /\ NoFault
  BY <1>2, StartsType DEF TypeOK, Entries
<1>3. CASE Starts(p, kind, "lost") /\ Fault /\ UNCHANGED ledger
  BY <1>3, StartsType DEF TypeOK
<1> QED BY <1>1, <1>2, <1>3 DEF PostNowait

LEMMA AbsorbedType ==
  ASSUME TypeOK, NEW p \in Prs, NEW m \in Absorbed(p)
  PROVE  m \in Memos
<1>1. memo[p] \in Memos
  BY DEF TypeOK
<1>2. PICK n \in (memo[p].attempt + 1)..MaxAttempts : m = [memo[p] EXCEPT !.attempt = n]
  BY DEF Absorbed
<1>3. n \in 0..MaxAttempts
  BY <1>1, <1>2, LimitsAssumption DEF Memos
<1> QED BY <1>1, <1>2, <1>3 DEF Memos

LEMMA ResumeTypes ==
  ASSUME TypeOK, NEW p \in Prs,
         NEW at \in {"none", "lookup", "posting", "running", "blocking", "concluding", "addressing"}
  PROVE  /\ BgOver(p) => bg' \in [Prs -> Resumes]
         /\ BgGoes(p, at) => bg' \in [Prs -> Resumes]
<1>1. bg[p] \in Resumes
  BY DEF TypeOK
<1>2. [bg[p] EXCEPT !.at = at] \in Resumes
  BY <1>1 DEF Resumes
<1> QED BY <1>2, RestTypes DEF BgOver, BgGoes, TypeOK

-----------------------------------------------------------------------------
(* Type correctness: one step for each action *)

LEMMA ReapTypeOK ==
  ASSUME TypeOK, NEW p \in Prs, Reap(p)
  PROVE  TypeOK'
<1> DEFINE n == NextCount(label[p].attempt)
           bare == [label[p] EXCEPT !.review = @ \ {"em_andamento"},
                                    !.own = FALSE, !.attempt = 0]
           out == [bare EXCEPT !.blocked = TRUE, !.attempt = MaxReaps]
           half == [label[p] EXCEPT !.blocked = TRUE, !.attempt = MaxReaps]
           again == [bare EXCEPT !.review = @ \cup {"pendente"}, !.attempt = n]
<1>1. label[p] \in Labels /\ MaxReaps \in Nat /\ MaxReaps \in 0..MaxReaps /\ 0 \in 0..MaxReaps
  BY LimitsAssumption DEF TypeOK
<1>2. n \in Nat
  BY <1>1 DEF Labels, NextCount
<1>3. bare \in Labels
  BY <1>1 DEF Labels
<1>4. out \in Labels /\ half \in Labels
  <2> HIDE DEF bare
  <2> QED BY <1>1, <1>3 DEF Labels
<1>5. ~Exhausted(n) => again \in Labels
  <2>1. ~Exhausted(n) => n \in 0..MaxReaps
    BY <1>1, <1>2 DEF Exhausted
  <2> HIDE DEF bare, n
  <2> QED BY <1>3, <2>1 DEF Labels, ReviewLabels
<1>6. /\ Fault \/ NoFault
      /\ \/ label' = [label EXCEPT ![p] = out]
         \/ label' = [label EXCEPT ![p] = half]
         \/ label' = [label EXCEPT ![p] = bare]
         \/ ~Exhausted(n) /\ label' = [label EXCEPT ![p] = again]
         \/ UNCHANGED label
  BY DEF Reap
<1>7. label' \in [Prs -> Labels]
  <2> HIDE DEF out, half, bare, again, n
  <2> QED BY <1>3, <1>4, <1>5, <1>6 DEF TypeOK
<1>8. tick' \in Ticks /\ tick'.point = "next"
  BY LeaveType DEF Reap
<1>9. Totals
  BY <1>6, TotalsType DEF Reap
<1> QED BY <1>7, <1>8, <1>9 DEF Reap, TypeOK, Totals, outside

LEMMA ReconcileTypeOK ==
  ASSUME TypeOK, NEW p \in Prs,
         \/ ReapSkip(p) \/ ReconcileSkip(p) \/ ReconcileGone(p) \/ ReconcileJudge(p)
         \/ ReconcileApply(p)
  PROVE  TypeOK'
<1>1. CASE ReapSkip(p)
  <2>1. Totals
    BY <1>1, TotalsType DEF ReapSkip
  <2> QED BY <1>1, <2>1, LeaveType DEF ReapSkip, TypeOK, Totals, outside
<1>2. CASE ReconcileSkip(p)
  BY <1>2, LeaveType DEF ReconcileSkip, TypeOK, outside, counters
<1>3. CASE ReconcileGone(p)
  <2>1. Totals
    BY <1>3, TotalsType DEF ReconcileGone
  <2> QED BY <1>3, <2>1, LeaveType DEF ReconcileGone, TypeOK, Totals, outside, Entries
<1>4. CASE ReconcileJudge(p)
  <2>1. Totals
    BY <1>4, TotalsType DEF ReconcileJudge
  <2>2. PICK v \in Verdicts :
          tick' = [tick EXCEPT !.point = "judged", !.on = p, !.verdict = v]
    BY <1>4 DEF ReconcileJudge, Judge, Verdicts
  <2>3. tick' \in Ticks /\ tick'.on = p
    BY <2>2 DEF TypeOK, Ticks
  <2> QED BY <1>4, <2>1, <2>3 DEF ReconcileJudge, TypeOK, Totals, outside
<1>5. CASE ReconcileApply(p)
  <2>1. CASE tick.verdict = "blocked"
    <3>1. Block(p) /\ UNCHANGED news
      BY <1>5, <2>1 DEF ReconcileApply
    <3>2. Totals
      BY <1>5, <3>1, BlockType, TotalsType DEF ReconcileApply
    <3> QED BY <1>5, <3>1, <3>2, BlockType, LeaveType
            DEF ReconcileApply, TypeOK, Totals, Entries
  <2>2. CASE tick.verdict # "blocked"
    <3>1. PICK how \in Outcomes : Relabel(p, "em_andamento", "concluida", how)
      BY <1>5, <2>2 DEF ReconcileApply
    <3>2. label' \in [Prs -> Labels] /\ news' \in SUBSET Prs /\ (Fault \/ NoFault)
      BY <3>1, RelabelType DEF ReviewLabels
    <3>3. memo' \in [Prs -> Memos]
      BY <1>5, <2>2, RestTypes DEF ReconcileApply, TypeOK
    <3>4. Totals
      BY <1>5, <3>2, TotalsType DEF ReconcileApply
    <3> QED BY <1>5, <3>2, <3>3, <3>4, LeaveType DEF ReconcileApply, TypeOK, Totals, Entries
  <2> QED BY <2>1, <2>2
<1> QED BY <1>1, <1>2, <1>3, <1>4, <1>5

LEMMA PhasesTypeOK ==
  ASSUME TypeOK, StartTick \/ ReconcileList \/ ReviewList \/ NoTarget \/ EndTick
  PROVE  TypeOK'
<1>1. CASE StartTick
  <2>1. /\ Fault \/ NoFault
        /\ tick' \in Ticks /\ tick'.point = "next"
    <3>1. CASE "reaper" \in mode
      <4>1. {p \in Claimed : label[p].own} \in SUBSET Prs
        BY DEF Claimed, TypeOK
      <4>2. Phase("reap", {p \in Claimed : label[p].own})
        BY <1>1, <3>1 DEF StartTick
      <4> QED BY <4>1, <4>2, PhaseType DEF Phase
    <3>2. CASE "reaper" \notin mode
      BY <1>1, <3>2, IdleType DEF StartTick, Ticks
    <3> QED BY <3>1, <3>2
  <2>2. Totals
    BY <1>1, <2>1, TotalsType DEF StartTick
  <2> QED BY <1>1, <2>1, <2>2 DEF StartTick, TypeOK, Totals, outside
<1>2. CASE ReconcileList
  <2>1. {p \in Claimed : ~label[p].blocked} \in SUBSET Prs
    BY DEF Claimed, TypeOK
  <2>2. Phase("reconcile", {p \in Claimed : ~label[p].blocked})
    BY <1>2 DEF ReconcileList
  <2>3. tick' \in Ticks /\ tick'.point = "next" /\ (Fault \/ NoFault)
    BY <2>1, <2>2, PhaseType DEF Phase
  <2>4. Totals
    BY <1>2, <2>3, TotalsType DEF ReconcileList
  <2> QED BY <1>2, <2>3, <2>4 DEF ReconcileList, TypeOK, Totals, outside
<1>3. CASE ReviewList
  <2> DEFINE S == {p \in open : "concluida" \in label[p].review /\ ~label[p].blocked}
             C == {p \in open : "concluida" \notin label[p].review /\ ~label[p].blocked}
             H == [p \in Prs |-> IF p \in Claimed THEN head[p] ELSE 0]
             t == [IdleTick EXCEPT !.at = "review", !.list = S, !.cand = C,
                                   !.prog = Claimed, !.heads = H]
  <2>1. S \in SUBSET Prs /\ C \in SUBSET Prs /\ Claimed \in SUBSET Prs
    BY DEF Claimed, TypeOK
  <2>2. H \in [Prs -> Heads]
    <3>1. 0 \in Heads
      BY LimitsAssumption DEF Heads
    <3> QED BY <3>1 DEF TypeOK
  <2>3. (tick' = t \/ tick' = Classifying) /\ (Fault \/ NoFault)
    BY <1>3 DEF ReviewList
  <2>4. t \in Ticks /\ t.point = "next"
    <3> HIDE DEF S, C, H
    <3> QED BY <2>1, <2>2, IdleType DEF Ticks
  <2>5. tick' \in Ticks /\ tick'.point = "next"
    <3> HIDE DEF t
    <3> QED BY <2>3, <2>4, ClassifyingType
  <2>6. Totals
    BY <1>3, <2>3, TotalsType DEF ReviewList
  <2> QED BY <1>3, <2>5, <2>6 DEF ReviewList, TypeOK, Totals, outside
<1>4. CASE NoTarget
  BY <1>4, ClassifyingType DEF NoTarget, TypeOK, outside, counters
<1>5. CASE EndTick
  BY <1>5, IdleType DEF EndTick, TypeOK, outside, counters
<1> QED BY <1>1, <1>2, <1>3, <1>4, <1>5

LEMMA ReviewTypeOK ==
  ASSUME TypeOK, NEW p \in Prs,
         \/ Invalidate(p) \/ BranchGone(p) \/ CiPending(p) \/ ClaimAborted(p)
         \/ ResumeCeiling(p) \/ ResumeStart(p)
  PROVE  TypeOK'
<1> USE DEF Target, Passes
<1>0. label[p] \in Labels
  BY DEF TypeOK
<1>1. CASE Invalidate(p)
  <2>1. /\ label' \in [Prs -> Labels] /\ news' \in SUBSET Prs
        /\ Fault \/ NoFault
    <3>1. CASE Relabel(p, "concluida", "pendente", "moved")
      BY <3>1, RelabelType DEF ReviewLabels, Outcomes
    <3>2. CASE UNCHANGED <<label, news>> /\ (Fault \/ NoFault)
      BY <3>2 DEF TypeOK
    <3>3. CASE /\ label' = [label EXCEPT ![p].review = @ \ {"concluida"}]
               /\ UNCHANGED news /\ Fault
      <4>1. [label[p] EXCEPT !.review = @ \ {"concluida"}] \in Labels
        BY <1>0 DEF Labels
      <4> QED BY <3>3, <4>1 DEF TypeOK
    <3> QED BY <1>1, <3>1, <3>2, <3>3 DEF Invalidate
  <2>2. Totals
    BY <1>1, <2>1, TotalsType DEF Invalidate
  <2> QED BY <1>1, <2>1, <2>2, LeaveType DEF Invalidate, TypeOK, Totals
<1>2. CASE BranchGone(p)
  <2>1. Totals
    BY <1>2, BlockType, TotalsType DEF BranchGone
  <2> QED BY <1>2, <2>1, BlockType, ClassifyingType DEF BranchGone, TypeOK, Totals, outside
<1>3. CASE CiPending(p)
  BY <1>3, ClassifyingType DEF CiPending, TypeOK, outside, counters
<1>4. CASE ClaimAborted(p)
  <2>1. Totals
    BY <1>4, TotalsType DEF ClaimAborted
  <2> QED BY <1>4, <2>1, IdleType DEF ClaimAborted, TypeOK, Totals, outside
<1>5. CASE ResumeCeiling(p)
  <2>1. [label[p] EXCEPT !.own = TRUE, !.blocked = TRUE] \in Labels
    BY <1>0 DEF Labels
  <2>2. [label[p] EXCEPT !.own = TRUE] \in Labels
    BY <1>0 DEF Labels
  <2>3. label' \in [Prs -> Labels] /\ (Fault \/ NoFault)
    <3>0. Fault \/ NoFault
      BY <1>5 DEF ResumeCeiling
    <3>1. CASE label' = [label EXCEPT ![p].own = TRUE, ![p].blocked = TRUE]
      BY <2>1, <3>0, <3>1 DEF TypeOK
    <3>2. CASE label' = [label EXCEPT ![p].own = TRUE]
      BY <2>2, <3>0, <3>2 DEF TypeOK
    <3> QED BY <1>5, <3>1, <3>2 DEF ResumeCeiling
  <2>4. memo' \in [Prs -> Memos]
    BY <1>5, RestTypes DEF ResumeCeiling, TypeOK
  <2>5. Totals
    BY <1>5, <2>3, TotalsType DEF ResumeCeiling
  <2> QED BY <1>5, <2>3, <2>4, <2>5, ClassifyingType DEF ResumeCeiling, TypeOK, Totals, outside
<1>6. CASE ResumeStart(p)
  <2>1. [label[p] EXCEPT !.own = TRUE] \in Labels
    BY <1>0 DEF Labels
  <2>2. label' \in [Prs -> Labels]
    BY <1>6, <2>1 DEF ResumeStart, TypeOK
  <2>3. tick.heads[p] \in Heads
    BY DEF TypeOK, Ticks
  <2>4. [NoResume EXCEPT !.at = "lookup", !.head = tick.heads[p]] \in Resumes
    BY <2>3, RestTypes DEF Resumes
  <2>5. bg' \in [Prs -> Resumes]
    BY <1>6, <2>4 DEF ResumeStart, TypeOK
  <2> QED BY <1>6, <2>2, <2>5, ClassifyingType DEF ResumeStart, TypeOK, outside, counters
<1> QED BY <1>1, <1>2, <1>3, <1>4, <1>5, <1>6

LEMMA ClaimTypeOK ==
  ASSUME TypeOK, NEW p \in Prs, FreshClaim(p) \/ FreshPost(p) \/ Classify(p)
  PROVE  TypeOK'
<1>0. label[p] \in Labels
  BY DEF TypeOK
<1>1. CASE FreshClaim(p)
  <2>1. \E S \in SUBSET ReviewLabels : label' = [label EXCEPT ![p].own = TRUE, ![p].review = S]
    <3>1. CASE label' = [label EXCEPT ![p].own = TRUE,
                                ![p].review = Moved(@, "pendente", "em_andamento")]
      <4>1. Moved(label[p].review, "pendente", "em_andamento") \in SUBSET ReviewLabels
        BY <1>0 DEF Moved, Labels, ReviewLabels
      <4> QED BY <3>1, <4>1, <1>0 DEF TypeOK, Labels
    <3>2. CASE label' = [label EXCEPT ![p].own = TRUE, ![p].review = @ \cup {"em_andamento"}]
      <4>1. label[p].review \cup {"em_andamento"} \in SUBSET ReviewLabels
        BY <1>0 DEF Labels, ReviewLabels
      <4> QED BY <3>2, <4>1, <1>0 DEF TypeOK, Labels
    <3>3. ASSUME NEW S \in SUBSET {"pendente"},
                 label' = [label EXCEPT ![p].own = TRUE, ![p].review = @ \ S]
          PROVE  \E T \in SUBSET ReviewLabels :
                    label' = [label EXCEPT ![p].own = TRUE, ![p].review = T]
      <4>1. label[p].review \ S \in SUBSET ReviewLabels
        BY <1>0 DEF Labels, ReviewLabels
      <4> QED BY <3>3, <4>1, <1>0 DEF TypeOK, Labels
    <3> QED BY <1>1, <3>1, <3>2, <3>3 DEF FreshClaim
  <2>2. label' \in [Prs -> Labels]
    <3>1. PICK S \in SUBSET ReviewLabels :
             label' = [label EXCEPT ![p].own = TRUE, ![p].review = S]
      BY <2>1
    <3>2. [label[p] EXCEPT !.own = TRUE, !.review = S] \in Labels
      BY <1>0 DEF Labels
    <3> QED BY <3>1, <3>2 DEF TypeOK
  <2>3. tick' \in Ticks /\ (tick'.point # "next" => tick'.on \in Prs)
    <3>1. CASE tick' = [tick EXCEPT !.point = "posting", !.on = p]
      BY <3>1 DEF TypeOK, Ticks
    <3>2. CASE tick' = IdleTick
      BY <3>2, IdleType
    <3> QED BY <1>1, <3>1, <3>2 DEF FreshClaim
  <2>4. Fault \/ NoFault
    BY <1>1 DEF FreshClaim
  <2>5. Totals
    BY <1>1, <2>4, TotalsType DEF FreshClaim
  <2>6. age' \in [Prs -> {"young", "old"}]
    BY <1>1 DEF FreshClaim, TypeOK
  <2> QED BY <1>1, <2>2, <2>3, <2>5, <2>6 DEF FreshClaim, TypeOK, outside, Totals
<1>2. CASE FreshPost(p)
  <2>1. PostNowait(p, "review")
    BY <1>2 DEF FreshPost
  <2>2. Totals
    BY <1>2, <2>1, PostType, TotalsType DEF FreshPost
  <2> QED BY <1>2, <2>1, <2>2, PostType, ClassifyingType DEF FreshPost, TypeOK, outside, Totals
<1>3. CASE Classify(p)
  <2>1. [label[p] EXCEPT !.review = {"pendente"}] \in Labels
    BY <1>0 DEF Labels, ReviewLabels
  <2>2. label' \in [Prs -> Labels] /\ (Fault \/ NoFault)
    <3>1. CASE label' = [label EXCEPT ![p].review = {"pendente"}] /\ NoFault
      BY <2>1, <3>1 DEF TypeOK
    <3>2. CASE UNCHANGED label /\ (Fault \/ NoFault)
      BY <3>2 DEF TypeOK
    <3> QED BY <1>3, <3>1, <3>2 DEF Classify
  <2>3. Totals
    BY <1>3, <2>2, TotalsType DEF Classify
  <2> QED BY <1>3, <2>2, <2>3, LeaveType DEF Classify, TypeOK, outside, Totals
<1> QED BY <1>1, <1>2, <1>3

LEMMA ResumeTypeOK ==
  ASSUME TypeOK, NEW p \in Prs,
         BgLookup(p) \/ BgPost(p) \/ BgTimesOut(p) \/ BgBlock(p) \/ BgConclude(p) \/ BgAddress(p)
  PROVE  TypeOK'
<1> USE DEF TypeOK, outside, Totals
<1>0. bg[p] \in Resumes /\ live[p] \in Sessions /\ ledger[p] \in Entries
  OBVIOUS
<1>1. CASE BgLookup(p)
  <2>1. Fault \/ NoFault
    BY <1>1 DEF BgLookup
  <2>2. Totals
    BY <1>1, <2>1, TotalsType DEF BgLookup
  <2>3. [bg[p] EXCEPT !.at = "posting", !.again = TRUE] \in Resumes
    BY <1>0 DEF Resumes
  <2>4. bg' \in [Prs -> Resumes]
    BY <1>1, <2>3, ResumeTypes DEF BgLookup
  <2>5. ledger' \in [Prs -> Entries]
    BY <1>1 DEF BgLookup, Entries
  <2> QED BY <1>1, <2>2, <2>4, <2>5 DEF BgLookup
<1>2. CASE BgPost(p)
  <2>1. Fault \/ NoFault
    BY <1>2 DEF BgPost
  <2>2. Totals
    BY <1>2, <2>1, TotalsType DEF BgPost
  <2>3. /\ bg' \in [Prs -> Resumes] /\ memo' \in [Prs -> Memos]
        /\ live' \in [Prs -> Sessions]
        /\ spent' \in [Prs -> [rounds : 0..MaxSpent, fixes : 0..MaxSpent]]
    <3>1. CASE /\ Starts(p, "review", IF bg[p].again THEN "resume" ELSE "bg")
               /\ BgGoes(p, "running") /\ UNCHANGED memo
      <4>1. CASE bg[p].again
        BY <3>1, <4>1, StartsType, ResumeTypes
      <4>2. CASE ~bg[p].again
        BY <3>1, <4>2, StartsType, ResumeTypes
      <4> QED BY <4>1, <4>2
    <3>2. CASE BgFails(p) /\ UNCHANGED <<live, spent>>
      <4>1. PICK m \in Absorbed(p) : memo' = [memo EXCEPT ![p] = m]
        BY <3>2 DEF BgFails
      <4>2. m \in Memos
        BY <4>1, AbsorbedType
      <4> QED BY <3>2, <4>1, <4>2, ResumeTypes DEF BgFails
    <3> QED BY <1>2, <3>1, <3>2 DEF BgPost
  <2> QED BY <1>2, <2>2, <2>3 DEF BgPost
<1>3. CASE BgTimesOut(p)
  <2>1. Totals
    BY <1>3, TotalsType DEF BgTimesOut
  <2>2. PICK m \in Absorbed(p) : memo' = [memo EXCEPT ![p] = m]
    BY <1>3 DEF BgTimesOut, BgFails
  <2>3. memo' \in [Prs -> Memos]
    BY <2>2, AbsorbedType
  <2>4. bg' \in [Prs -> Resumes]
    BY <1>3, ResumeTypes DEF BgTimesOut, BgFails
  <2>5. [live[p] EXCEPT !.by = IF @ = "bg" THEN "lost" ELSE @] \in Sessions
    BY <1>0 DEF Sessions
  <2>6. live' \in [Prs -> Sessions]
    BY <1>3, <2>5 DEF BgTimesOut
  <2> QED BY <1>3, <2>1, <2>3, <2>4, <2>6 DEF BgTimesOut
<1>4. CASE BgBlock(p)
  <2>1. Totals
    BY <1>4, BlockType, TotalsType DEF BgBlock
  <2>2. bg' \in [Prs -> Resumes]
    BY <1>4, ResumeTypes DEF BgBlock
  <2> QED BY <1>4, <2>1, <2>2, BlockType DEF BgBlock
<1>5. CASE BgConclude(p)
  <2>1. PICK how \in Outcomes : Relabel(p, "em_andamento", "concluida", how)
    BY <1>5 DEF BgConclude
  <2>2. label' \in [Prs -> Labels] /\ news' \in SUBSET Prs /\ (Fault \/ NoFault)
    BY <2>1, RelabelType DEF ReviewLabels
  <2>3. Totals
    BY <1>5, <2>2, TotalsType DEF BgConclude
  <2>4. bg' \in [Prs -> Resumes] /\ memo' \in [Prs -> Memos]
    BY <1>5, ResumeTypes, RestTypes DEF BgConclude
  <2> QED BY <1>5, <2>2, <2>3, <2>4 DEF BgConclude
<1>6. CASE BgAddress(p)
  <2>1. PostNowait(p, "address")
    BY <1>6 DEF BgAddress
  <2>2. Totals
    BY <1>6, <2>1, PostType, TotalsType DEF BgAddress
  <2>3. bg' \in [Prs -> Resumes]
    BY <1>6, ResumeTypes DEF BgAddress
  <2> QED BY <1>6, <2>1, <2>2, <2>3, PostType DEF BgAddress
<1> QED BY <1>1, <1>2, <1>3, <1>4, <1>5, <1>6

LEMMA AnswerTypeOK ==
  ASSUME TypeOK, NEW p \in Prs, BgAnswer(p)
  PROVE  TypeOK'
<1>0. bg[p] \in Resumes /\ ledger[p] \in Entries /\ memo[p] \in Memos
  BY DEF TypeOK
<1>1. bg[p].head \in Heads \cup {NoHead} /\ 0 \in 0..MaxAddress
  BY <1>0, LimitsAssumption DEF Resumes
<1>2. PICK m \in Absorbed(p) :
        /\ \/ memo' = [memo EXCEPT ![p] = m]
           \/ m.address < MaxAddress /\ memo' = [memo EXCEPT ![p] = CountedFix(m)]
           \/ memo' = [memo EXCEPT ![p] = [m EXCEPT !.address = 0, !.sha = bg[p].head]]
        /\ \/ BgOver(p)
           \/ \E at \in {"blocking", "concluding", "addressing"} : BgGoes(p, at)
  BY DEF BgAnswer
<1>3. m \in Memos
  BY AbsorbedType
<1>4. m.address < MaxAddress => CountedFix(m) \in Memos
  <2>1. m.address < MaxAddress => m.address + 1 \in 0..MaxAddress
    BY <1>3, LimitsAssumption DEF Memos
  <2> QED BY <1>3, <2>1 DEF CountedFix, Memos
<1>5. [m EXCEPT !.address = 0, !.sha = bg[p].head] \in Memos
  BY <1>1, <1>3 DEF Memos
<1>6. memo' \in [Prs -> Memos]
  BY <1>2, <1>3, <1>4, <1>5 DEF TypeOK
<1>7. bg' \in [Prs -> Resumes]
  BY <1>2, ResumeTypes
<1>8. ledger' \in [Prs -> Entries]
  BY DEF BgAnswer, Recorded, TypeOK, Entries
<1> QED BY <1>6, <1>7, <1>8 DEF BgAnswer, TypeOK, outside, counters

LEMMA WorldTypeOK ==
  ASSUME TypeOK, NEW p \in Prs,
         \/ SessionEnds(p) \/ SessionDies(p) \/ Push(p) \/ CiEnds(p) \/ Ages(p)
         \/ HumanUnblocks(p)
  PROVE  TypeOK'
<1> USE DEF TypeOK, outside, counters
<1>0. bg[p] \in Resumes /\ ledger[p] \in Entries /\ label[p] \in Labels
  OBVIOUS
<1>1. CASE SessionEnds(p)
  <2>1. PICK e \in Ends :
          /\ open' = IF e = "merged" THEN open \ {p} ELSE open
          /\ live' = [live EXCEPT ![p] = NoSession]
          /\ ledger' = [ledger EXCEPT ![p] = IF live[p].by = "ledger" THEN Told(e) ELSE @]
          /\ bg' = [bg EXCEPT ![p].end = IF BgAt(p, "running") THEN e ELSE @]
          /\ UNCHANGED <<mode, label, age, head, news, ci, memo, tick, counters, spent>>
    BY <1>1 DEF SessionEnds
  <2>2. Told(e) \in Entries
    BY DEF Told, Entries
  <2>3. [bg[p] EXCEPT !.end = IF BgAt(p, "running") THEN e ELSE @] \in Resumes
    BY <1>0 DEF Resumes
  <2>4. bg' \in [Prs -> Resumes]
    BY <2>1, <2>3
  <2>5. live' \in [Prs -> Sessions]
    BY <2>1, RestTypes
  <2>6. ledger' \in [Prs -> Entries]
    BY <1>0, <2>1, <2>2
  <2>7. open' \in SUBSET Prs
    BY <2>1
  <2> QED BY <2>1, <2>4, <2>5, <2>6, <2>7
<1>2. CASE SessionDies(p)
  <2>1. [bg[p] EXCEPT !.end = IF BgAt(p, "running") THEN "error" ELSE @] \in Resumes
    BY <1>0 DEF Resumes, Ends
  <2>2. bg' \in [Prs -> Resumes]
    BY <1>2, <2>1 DEF SessionDies
  <2>3. live' \in [Prs -> Sessions]
    BY <1>2, RestTypes DEF SessionDies
  <2>4. Totals
    BY <1>2, TotalsType DEF SessionDies
  <2> QED BY <1>2, <2>2, <2>3, <2>4 DEF SessionDies, Totals
<1>3. CASE Push(p)
  <2>1. head[p] + 1 \in Heads
    BY <1>3, LimitsAssumption DEF Push, Heads
  <2>2. head' \in [Prs -> Heads]
    BY <1>3, <2>1 DEF Push
  <2>3. news' \in SUBSET Prs /\ ci' \in SUBSET Prs
    BY <1>3 DEF Push
  <2> QED BY <1>3, <2>2, <2>3 DEF Push
<1>4. CASE CiEnds(p)
  BY <1>4 DEF CiEnds
<1>5. CASE Ages(p)
  BY <1>5 DEF Ages
<1>6. CASE HumanUnblocks(p)
  <2>1. [label[p] EXCEPT !.blocked = FALSE] \in Labels
    BY <1>0 DEF Labels
  <2>2. label' \in [Prs -> Labels]
    BY <1>6, <2>1 DEF HumanUnblocks
  <2>3. Unspent \in [rounds : 0..MaxSpent, fixes : 0..MaxSpent]
    BY SpentNat DEF Unspent
  <2>4. spent' \in [Prs -> [rounds : 0..MaxSpent, fixes : 0..MaxSpent]]
    BY <1>6, <2>3 DEF HumanUnblocks
  <2>5. Totals
    BY <1>6, LimitsAssumption DEF HumanUnblocks, Room, Totals
  <2> QED BY <1>6, <2>2, <2>4, <2>5 DEF HumanUnblocks, Totals
<1> QED BY <1>1, <1>2, <1>3, <1>4, <1>5, <1>6

LEMMA KillTypeOK ==
  ASSUME TypeOK, Kill
  PROVE  TypeOK'
<1>1. Totals
  BY LimitsAssumption DEF Kill, Room, Totals, TypeOK
<1>2. memo' \in [Prs -> Memos] /\ bg' \in [Prs -> Resumes]
  BY RestTypes DEF Kill
<1>3. \A p \in Prs : [live[p] EXCEPT !.by = "lost"] \in Sessions
  BY DEF TypeOK, Sessions
<1>4. live' \in [Prs -> Sessions]
  BY <1>3 DEF Kill, TypeOK
<1>5. Unspent \in [rounds : 0..MaxSpent, fixes : 0..MaxSpent]
  BY SpentNat DEF Unspent
<1>6. spent' \in [Prs -> [rounds : 0..MaxSpent, fixes : 0..MaxSpent]]
  BY <1>5 DEF Kill
<1> QED BY <1>1, <1>2, <1>4, <1>6, IdleType DEF Kill, TypeOK, Totals, outside

\* Everything keeps its type, whatever fails: the counters stay within their
\* limits and what is to be applied is always for a PR.
THEOREM PrTypeOK == Spec => []TypeOK
<1>1. Init => TypeOK
  <2> SUFFICES ASSUME Init PROVE TypeOK
    OBVIOUS
  <2>1. [review |-> {}, blocked |-> FALSE, own |-> FALSE, attempt |-> 0] \in Labels
    BY LimitsAssumption DEF Labels
  <2>2. [rounds |-> 0, fixes |-> 0] \in [rounds : 0..MaxSpent, fixes : 0..MaxSpent]
    BY SpentNat
  <2>3. 0 \in Heads /\ 0 <= MaxTrouble
    BY LimitsAssumption DEF Heads
  <2> QED BY <2>1, <2>2, <2>3, RestTypes, IdleType DEF Init, TypeOK, Entries
<1>2. TypeOK /\ [Next]_vars => TypeOK'
  <2> SUFFICES ASSUME TypeOK, [Next]_vars PROVE TypeOK'
    OBVIOUS
  <2>1. CASE TickStep
    BY <2>1, ReapTypeOK, ReconcileTypeOK, PhasesTypeOK, ReviewTypeOK, ClaimTypeOK
       DEF TickStep, PrStep
  <2>2. ASSUME NEW p \in Prs, BgStep(p) \/ BgTimesOut(p) PROVE TypeOK'
    BY <2>2, ResumeTypeOK, AnswerTypeOK DEF BgStep
  <2>3. ASSUME NEW p \in Prs,
               \/ SessionEnds(p) \/ SessionDies(p) \/ Push(p) \/ CiEnds(p) \/ Ages(p)
               \/ HumanUnblocks(p)
        PROVE  TypeOK'
    BY <2>3, WorldTypeOK
  <2>4. CASE Kill
    BY <2>4, KillTypeOK
  <2>5. CASE UNCHANGED vars
    BY <2>5 DEF vars, outside, counters, TypeOK
  <2> QED BY <2>1, <2>2, <2>3, <2>4, <2>5 DEF Next
<1> QED BY <1>1, <1>2, PTL DEF Spec

-----------------------------------------------------------------------------
(* One review label *)

Single(p) == \A a, b \in label[p].review : a = b

\* What a phase has listed of a PR is still so when the phase comes to it.
Listed(p) ==
    p \in tick.list =>
        /\ tick.at \in {"reap", "reconcile"} => "em_andamento" \in label[p].review
        /\ tick.at = "review" => "concluida" \in label[p].review

\* A candidate that was listed without a claim is pendente or without label.
Unclaimed(p) ==
    tick.at = "review" /\ tick.point = "next" /\ p \in tick.cand \ tick.prog
        => label[p].review \subseteq {"pendente"}

Read(p) == Single(p) /\ Listed(p) /\ Unclaimed(p)

\* A verdict that waits to be applied is that of a PR of the list.
Judged == tick.point = "judged" => tick.at = "reconcile" /\ tick.on \in tick.list

\* A resume that concludes its PR does so after it was merged.
Merged(p) ==
    /\ bg[p].end = "merged" => p \notin open
    /\ bg[p].at = "concluding" => bg[p].end = "merged"

ReadInv ==
    /\ \A p \in Prs : Merged(p)
    /\ Judged
    /\ faults = 0 => \A p \in open : Read(p)

LEMMA FaultCounts == ASSUME TypeOK, Fault PROVE faults' # 0
  BY DEF TypeOK, Fault

LEMMA MovedSingle ==
  ASSUME NEW S, \A a, b \in S : a = b, NEW from \in S, NEW to
  PROVE  Moved(S, from, to) = {to}
  BY DEF Moved

LEMMA RelabelCalm ==
  ASSUME TypeOK, NEW p \in Prs, NEW from \in ReviewLabels, NEW to \in ReviewLabels,
         NEW how \in Outcomes, Relabel(p, from, to, how), faults' = 0
  PROVE  /\ label'[p].review = Moved(label[p].review, from, to)
         /\ \A q \in Prs \ {p} : label'[q] = label[q]
<1>1. how = "moved"
  BY FaultCounts DEF Relabel
<1>2. label' = [label EXCEPT ![p].review = Moved(@, from, to)]
  BY <1>1 DEF Relabel
<1>3. label \in [Prs -> Labels] /\ label[p] \in Labels
  BY DEF TypeOK
<1> QED BY <1>2, <1>3 DEF Labels

LEMMA BlockCalm ==
  ASSUME TypeOK, NEW p \in Prs, Block(p), NEW q \in Prs
  PROVE  label'[q].review = label[q].review
<1>1. label \in [Prs -> Labels] /\ label[p] \in Labels
  BY DEF TypeOK
<1> QED BY <1>1 DEF Block, Labels

\* The tick stands where it stood, or it is past its reviews.
LEMMA TickStays ==
  ASSUME NEW p, Read(p), label'[p].review = label[p].review, UNCHANGED tick
  PROVE  Read(p)'
  BY DEF Read, Single, Listed, Unclaimed

LEMMA TickAway ==
  ASSUME NEW p, tick' = IdleTick \/ tick' = Classifying
  PROVE  Listed(p)' /\ Unclaimed(p)'
<1>1. IdleTick.at = "idle"
  BY DEF IdleTick
<1>2. Classifying.at = "classify"
  BY IdleType DEF Classifying, Ticks
<1>3. tick'.at \in {"idle", "classify"}
  BY <1>1, <1>2
<1> QED BY <1>3 DEF Listed, Unclaimed

LEMMA TickLeaves ==
  ASSUME TypeOK, NEW p, NEW q, Read(p), label'[p].review = label[p].review,
         tick' = Leave(q), tick.point = "next" \/ tick.at = "reconcile"
  PROVE  Read(p)'
<1>1. /\ tick'.at = tick.at /\ tick'.list = tick.list \ {q}
      /\ tick'.cand = tick.cand /\ tick'.prog = tick.prog
  BY DEF Leave, TypeOK, Ticks
<1> QED BY <1>1 DEF Read, Single, Listed, Unclaimed

LEMMA LabelsKept ==
  ASSUME TypeOK, ReadInv, faults = 0, faults' = 0, NEW p \in open, NEW q \in Prs,
         \/ ReapSkip(q) \/ ReconcileSkip(q) \/ ReconcileGone(q) \/ ReconcileJudge(q)
         \/ BranchGone(q) \/ CiPending(q) \/ ClaimAborted(q) \/ ResumeCeiling(q)
         \/ ResumeStart(q) \/ FreshPost(q)
  PROVE  Read(p)'
<1>0. Read(p) /\ p \in Prs /\ label[p] \in Labels /\ label[q] \in Labels
  BY DEF ReadInv, TypeOK
<1>1. CASE ReapSkip(q) \/ ReconcileSkip(q) \/ ReconcileGone(q)
  BY <1>0, <1>1, TickLeaves DEF ReapSkip, ReconcileSkip, ReconcileGone, At
<1>2. CASE ReconcileJudge(q)
  <2>1. PICK v : tick' = [tick EXCEPT !.point = "judged", !.on = q, !.verdict = v]
    BY <1>2 DEF ReconcileJudge
  <2>2. tick'.at = "reconcile" /\ tick'.list = tick.list /\ tick.at = "reconcile"
    BY <1>2, <2>1 DEF ReconcileJudge, At, TypeOK, Ticks
  <2> QED BY <1>0, <1>2, <2>2 DEF ReconcileJudge, Read, Single, Listed, Unclaimed
<1>3. CASE \/ BranchGone(q) \/ CiPending(q) \/ ClaimAborted(q) \/ ResumeCeiling(q)
           \/ ResumeStart(q) \/ FreshPost(q)
  <2>1. label'[p].review = label[p].review
    <3>1. CASE BranchGone(q)
      BY <1>0, <3>1, BlockCalm DEF BranchGone
    <3>2. CASE CiPending(q) \/ ClaimAborted(q) \/ FreshPost(q)
      BY <3>2 DEF CiPending, ClaimAborted, FreshPost
    <3>3. CASE ResumeCeiling(q) \/ ResumeStart(q)
      <4>1. \/ label' = [label EXCEPT ![q].own = TRUE, ![q].blocked = TRUE]
            \/ label' = [label EXCEPT ![q].own = TRUE]
        BY <3>3 DEF ResumeCeiling, ResumeStart
      <4>2. CASE label' = [label EXCEPT ![q].own = TRUE, ![q].blocked = TRUE]
        BY <1>0, <4>2 DEF TypeOK, Labels
      <4>3. CASE label' = [label EXCEPT ![q].own = TRUE]
        BY <1>0, <4>3 DEF TypeOK, Labels
      <4> QED BY <4>1, <4>2, <4>3
    <3> QED BY <1>3, <3>1, <3>2, <3>3
  <2>2. tick' = IdleTick \/ tick' = Classifying
    BY <1>3 DEF BranchGone, CiPending, ClaimAborted, ResumeCeiling, ResumeStart, FreshPost
  <2>3. Listed(p)' /\ Unclaimed(p)'
    BY <2>2, TickAway
  <2> QED BY <1>0, <2>1, <2>3 DEF Read, Single
<1> QED BY <1>1, <1>2, <1>3

LEMMA ClaimsMove ==
  ASSUME TypeOK, ReadInv, faults = 0, faults' = 0, NEW p \in open, NEW q \in Prs,
         Reap(q) \/ ReconcileApply(q) \/ Invalidate(q) \/ FreshClaim(q) \/ Classify(q)
  PROVE  Read(p)'
<1>0. Read(p) /\ p \in Prs /\ label[p] \in Labels /\ label[q] \in Labels
  BY DEF ReadInv, TypeOK
<1>1. CASE Reap(q)
  <2> DEFINE n == NextCount(label[q].attempt)
             bare == [label[q] EXCEPT !.review = @ \ {"em_andamento"},
                                      !.own = FALSE, !.attempt = 0]
             out == [bare EXCEPT !.blocked = TRUE, !.attempt = MaxReaps]
             again == [bare EXCEPT !.review = @ \cup {"pendente"}, !.attempt = n]
  <2>1. tick.at = "reap" /\ tick.point = "next" /\ q \in tick.list /\ tick' = Leave(q)
    BY <1>1 DEF Reap, At, Foremost
  <2>2. label' = [label EXCEPT ![q] = out] \/ label' = [label EXCEPT ![q] = again]
    BY <1>1, FaultCounts DEF Reap
  <2>3. CASE p # q
    <3>1. label'[p] = label[p]
      <4> HIDE DEF out, again
      <4> QED BY <1>0, <2>2, <2>3 DEF TypeOK
    <3> QED BY <1>0, <2>1, <3>1, TickLeaves
  <2>4. CASE p = q
    <3>1. "em_andamento" \in label[p].review /\ Single(p)
      BY <1>0, <2>1, <2>4 DEF Read, Listed
    <3>2. label[p].review \ {"em_andamento"} = {}
      BY <3>1 DEF Single
    <3>3. out.review = {} /\ again.review = {"pendente"}
      BY <1>0, <2>4, <3>2 DEF Labels
    <3>4. label'[p].review = {} \/ label'[p].review = {"pendente"}
      <4> HIDE DEF out, again
      <4> QED BY <1>0, <2>2, <2>4, <3>3 DEF TypeOK
    <3>5. p \notin tick'.list /\ tick'.at = "reap"
      BY <2>1, <2>4 DEF Leave, TypeOK, Ticks
    <3> QED BY <3>4, <3>5 DEF Read, Single, Listed, Unclaimed
  <2> QED BY <2>3, <2>4
<1>2. CASE ReconcileApply(q)
  <2>1. tick.at = "reconcile" /\ q \in tick.list /\ tick' = Leave(q)
    BY <1>2 DEF ReconcileApply, ReadInv, Judged
  <2>2. CASE tick.verdict = "blocked"
    BY <1>0, <1>2, <2>1, <2>2, BlockCalm, TickLeaves DEF ReconcileApply
  <2>3. CASE tick.verdict # "blocked"
    <3>1. PICK how \in Outcomes : Relabel(q, "em_andamento", "concluida", how)
      BY <1>2, <2>3 DEF ReconcileApply
    <3>2. /\ label'[q].review = Moved(label[q].review, "em_andamento", "concluida")
          /\ \A r \in Prs \ {q} : label'[r] = label[r]
      BY <3>1, RelabelCalm DEF ReviewLabels
    <3>3. CASE p # q
      BY <1>0, <2>1, <3>2, <3>3, TickLeaves
    <3>4. CASE p = q
      <4>1. "em_andamento" \in label[p].review /\ Single(p)
        BY <1>0, <2>1, <3>4 DEF Read, Listed
      <4>2. label'[p].review = {"concluida"}
        BY <3>2, <3>4, <4>1, MovedSingle DEF Single
      <4>3. p \notin tick'.list /\ tick'.at = "reconcile"
        BY <2>1, <3>4 DEF Leave, TypeOK, Ticks
      <4> QED BY <4>2, <4>3 DEF Read, Single, Listed, Unclaimed
    <3> QED BY <3>3, <3>4
  <2> QED BY <2>2, <2>3
<1>3. CASE Invalidate(q)
  <2>1. /\ tick.at = "review" /\ tick.point = "next" /\ q \in tick.list /\ tick' = Leave(q)
    BY <1>3 DEF Invalidate, At, Foremost
  <2>2. CASE UNCHANGED label
    BY <1>0, <2>1, <2>2, TickLeaves
  <2>3. CASE Relabel(q, "concluida", "pendente", "moved")
    <3>1. /\ label'[q].review = Moved(label[q].review, "concluida", "pendente")
          /\ \A r \in Prs \ {q} : label'[r] = label[r]
      BY <2>3, RelabelCalm DEF ReviewLabels, Outcomes
    <3>2. CASE p # q
      BY <1>0, <2>1, <3>1, <3>2, TickLeaves
    <3>3. CASE p = q
      <4>1. "concluida" \in label[p].review /\ Single(p)
        BY <1>0, <2>1, <3>3 DEF Read, Listed
      <4>2. label'[p].review = {"pendente"}
        BY <3>1, <3>3, <4>1, MovedSingle DEF Single
      <4>3. p \notin tick'.list
        BY <2>1, <3>3 DEF Leave, TypeOK, Ticks
      <4> QED BY <4>2, <4>3 DEF Read, Single, Listed, Unclaimed
    <3> QED BY <3>2, <3>3
  <2> QED BY <1>3, <2>2, <2>3, FaultCounts DEF Invalidate
<1>4. CASE FreshClaim(q)
  <2>1. /\ label' = [label EXCEPT ![q].own = TRUE,
                                  ![q].review = Moved(@, "pendente", "em_andamento")]
        /\ tick' = [tick EXCEPT !.point = "posting", !.on = q]
    BY <1>4, FaultCounts DEF FreshClaim
  <2>2. /\ tick.at = "review" /\ tick.point = "next" /\ tick.list = {}
        /\ q \in tick.cand \ tick.prog
    BY <1>4 DEF FreshClaim, Passes, Target, Done, Eligible
  <2>3. tick'.list = {} /\ tick'.point = "posting"
    BY <2>1, <2>2 DEF TypeOK, Ticks
  <2>4. Single(p)'
    <3>1. CASE p # q
      BY <1>0, <2>1, <3>1 DEF TypeOK, Read, Single
    <3>2. CASE p = q
      <4>1. label[p].review \subseteq {"pendente"}
        BY <1>0, <2>2, <3>2 DEF Read, Unclaimed
      <4>2. label'[p].review = Moved(label[p].review, "pendente", "em_andamento")
        BY <1>0, <2>1, <3>2 DEF TypeOK, Labels
      <4>3. label'[p].review = {"em_andamento"}
        BY <4>1, <4>2 DEF Moved
      <4> QED BY <4>3 DEF Single
    <3> QED BY <3>1, <3>2
  <2> QED BY <2>3, <2>4 DEF Read, Listed, Unclaimed
<1>5. CASE Classify(q)
  <2>1. tick.at = "classify" /\ tick.point = "next" /\ tick' = Leave(q)
    BY <1>5 DEF Classify, At
  <2>2. CASE UNCHANGED label
    BY <1>0, <2>1, <2>2, TickLeaves
  <2>3. CASE label' = [label EXCEPT ![q].review = {"pendente"}]
    <3>1. tick'.at = "classify"
      BY <2>1 DEF Leave, TypeOK, Ticks
    <3>2. label'[p].review = label[p].review \/ label'[p].review = {"pendente"}
      BY <1>0, <2>3 DEF TypeOK, Labels
    <3> QED BY <1>0, <3>1, <3>2 DEF Read, Single, Listed, Unclaimed
  <2> QED BY <1>5, <2>2, <2>3 DEF Classify
<1> QED BY <1>1, <1>2, <1>3, <1>4, <1>5

LEMMA PhasesRead ==
  ASSUME TypeOK, ReadInv, faults = 0, faults' = 0, NEW p \in open,
         StartTick \/ ReconcileList \/ ReviewList \/ NoTarget \/ EndTick
  PROVE  Read(p)'
<1>0. Read(p) /\ p \in Prs /\ UNCHANGED label
  BY DEF ReadInv, TypeOK, StartTick, ReconcileList, ReviewList, NoTarget, EndTick
<1>1. Single(p)'
  BY <1>0 DEF Read, Single
<1>2. Listed(p)' /\ Unclaimed(p)'
  <2>1. CASE NoTarget \/ EndTick
    BY <2>1, TickAway DEF NoTarget, EndTick
  <2>2. ASSUME NEW phase \in {"reap", "reconcile"}, NEW S \in SUBSET Claimed,
               tick' = [IdleTick EXCEPT !.at = phase, !.list = S]
        PROVE  Listed(p)' /\ Unclaimed(p)'
    <3>1. tick'.at = phase /\ tick'.list = S
      BY <2>2, IdleType DEF Ticks
    <3>2. p \in S => "em_andamento" \in label[p].review
      BY <2>2 DEF Claimed
    <3> QED BY <1>0, <2>2, <3>1, <3>2 DEF Listed, Unclaimed
  <2>3. CASE StartTick
    <3>1. CASE "reaper" \in mode
      <4> DEFINE S == {q \in Claimed : label[q].own}
      <4>1. tick' = [IdleTick EXCEPT !.at = "reap", !.list = S]
        BY <2>3, <3>1, FaultCounts DEF StartTick, Phase
      <4>2. S \in SUBSET Claimed
        OBVIOUS
      <4> HIDE DEF S
      <4> QED BY <2>2, <4>1, <4>2
    <3>2. CASE "reaper" \notin mode
      <4>1. tick' = [IdleTick EXCEPT !.at = "reap"]
        BY <2>3, <3>2 DEF StartTick
      <4>2. tick'.at = "reap" /\ tick'.list = {}
        BY <4>1 DEF IdleTick
      <4> QED BY <4>2 DEF Listed, Unclaimed
    <3> QED BY <3>1, <3>2
  <2>4. CASE ReconcileList
    <3> DEFINE S == {q \in Claimed : ~label[q].blocked}
    <3>1. tick' = [IdleTick EXCEPT !.at = "reconcile", !.list = S]
      BY <2>4, FaultCounts DEF ReconcileList, Phase
    <3>2. S \in SUBSET Claimed
      OBVIOUS
    <3> HIDE DEF S
    <3> QED BY <2>2, <3>1, <3>2
  <2>5. CASE ReviewList
    <3> DEFINE S == {q \in open : "concluida" \in label[q].review /\ ~label[q].blocked}
               C == {q \in open : "concluida" \notin label[q].review /\ ~label[q].blocked}
               H == [q \in Prs |-> IF q \in Claimed THEN head[q] ELSE 0]
    <3>1. tick' = [IdleTick EXCEPT !.at = "review", !.list = S, !.cand = C,
                                   !.prog = Claimed, !.heads = H]
      BY <2>5, FaultCounts DEF ReviewList
    <3>2. tick'.at = "review" /\ tick'.list = S /\ tick'.cand = C /\ tick'.prog = Claimed
      <4> HIDE DEF S, C, H
      <4> QED BY <3>1, IdleType DEF Ticks
    <3>3. p \in S => "concluida" \in label[p].review
      OBVIOUS
    <3>4. p \in C \ Claimed => label[p].review \subseteq {"pendente"}
      BY <1>0 DEF Claimed, TypeOK, Labels, ReviewLabels
    <3> HIDE DEF S, C
    <3> QED BY <1>0, <3>2, <3>3, <3>4 DEF Listed, Unclaimed
  <2> QED BY <2>1, <2>3, <2>4, <2>5
<1> QED BY <1>1, <1>2 DEF Read

LEMMA OthersRead ==
  ASSUME TypeOK, ReadInv, faults = 0, faults' = 0, NEW p \in open', NEW q \in Prs,
         \/ BgStep(q) \/ BgTimesOut(q) \/ SessionEnds(q) \/ SessionDies(q)
         \/ Push(q) \/ CiEnds(q) \/ Ages(q) \/ HumanUnblocks(q)
  PROVE  Read(p)'
<1>0. p \in open /\ Read(p) /\ p \in Prs /\ label[p] \in Labels /\ label[q] \in Labels
  <2>1. p \in open
    BY DEF BgStep, BgLookup, BgPost, BgAnswer, BgBlock, BgConclude, BgAddress, BgTimesOut,
           SessionEnds, SessionDies, Push, CiEnds, Ages, HumanUnblocks, outside
  <2> QED BY <2>1 DEF ReadInv, TypeOK
<1>1. UNCHANGED tick
  BY DEF BgStep, BgLookup, BgPost, BgAnswer, BgBlock, BgConclude, BgAddress, BgTimesOut,
         SessionEnds, SessionDies, Push, CiEnds, Ages, HumanUnblocks
<1>2. label'[p].review = label[p].review
  <2>1. CASE BgBlock(q)
    BY <1>0, <2>1, BlockCalm DEF BgBlock
  <2>2. CASE BgConclude(q)
    <3>1. PICK how \in Outcomes : Relabel(q, "em_andamento", "concluida", how)
      BY <2>2 DEF BgConclude
    <3>2. \A r \in Prs \ {q} : label'[r] = label[r]
      BY <3>1, RelabelCalm DEF ReviewLabels
    <3>3. q \notin open
      BY <2>2 DEF BgConclude, BgAt, ReadInv, Merged
    <3> QED BY <1>0, <3>2, <3>3
  <2>3. CASE HumanUnblocks(q)
    BY <1>0, <2>3 DEF HumanUnblocks, TypeOK, Labels
  <2> QED BY <2>1, <2>2, <2>3
          DEF BgStep, BgLookup, BgPost, BgAnswer, BgAddress, BgTimesOut,
              SessionEnds, SessionDies, Push, CiEnds, Ages
<1> QED BY <1>0, <1>1, <1>2, TickStays

LEMMA JudgedStep ==
  ASSUME TypeOK, ReadInv, [Next]_vars
  PROVE  Judged'
<1>1. CASE tick' = tick
  BY <1>1 DEF ReadInv, Judged
<1>2. CASE tick'.point # "judged"
  BY <1>2 DEF Judged
<1>3. ASSUME NEW q \in Prs, ReconcileJudge(q) PROVE Judged'
  <2>1. PICK v : tick' = [tick EXCEPT !.point = "judged", !.on = q, !.verdict = v]
    BY <1>3 DEF ReconcileJudge
  <2>2. tick'.at = "reconcile" /\ tick'.list = tick.list /\ tick'.on = q /\ q \in tick.list
    BY <1>3, <2>1 DEF ReconcileJudge, At, Foremost, TypeOK, Ticks
  <2> QED BY <2>2 DEF Judged
<1>4. ASSUME NEW q \in Prs, PrStep(q), ~ReconcileJudge(q) PROVE tick'.point # "judged"
  <2>1. \/ tick' \in {Leave(q), Classifying, IdleTick}
        \/ tick' = [tick EXCEPT !.point = "posting", !.on = q]
    BY <1>4 DEF PrStep, ReapSkip, Reap, ReconcileSkip, ReconcileGone, ReconcileApply,
                Invalidate, BranchGone, CiPending, ClaimAborted, ResumeCeiling,
                ResumeStart, FreshClaim, FreshPost, Classify
  <2>2. CASE tick' = [tick EXCEPT !.point = "posting", !.on = q]
    BY <2>2 DEF TypeOK, Ticks
  <2> QED BY <2>1, <2>2, LeaveType, ClassifyingType, IdleType
<1>5. CASE StartTick \/ ReconcileList \/ ReviewList \/ NoTarget \/ EndTick
  <2>1. \/ tick' \in {Classifying, IdleTick}
        \/ tick'.point = IdleTick.point
    <3>1. ASSUME NEW phase, NEW S, tick' = [IdleTick EXCEPT !.at = phase, !.list = S]
          PROVE  tick'.point = IdleTick.point
      BY <3>1, IdleType DEF Ticks
    <3>2. ASSUME NEW phase, tick' = [IdleTick EXCEPT !.at = phase]
          PROVE  tick'.point = IdleTick.point
      BY <3>2, IdleType DEF Ticks
    <3>3. ASSUME NEW phase, NEW S, Phase(phase, S)
          PROVE  tick'.point = IdleTick.point
      BY <3>1, <3>2, <3>3 DEF Phase
    <3>4. CASE StartTick
      BY <3>2, <3>3, <3>4 DEF StartTick
    <3>5. CASE ReconcileList
      BY <3>3, <3>5 DEF ReconcileList
    <3>6. CASE ReviewList
      <4>1. ASSUME NEW S, NEW C, NEW H,
                   tick' = [IdleTick EXCEPT !.at = "review", !.list = S, !.cand = C,
                                            !.prog = Claimed, !.heads = H]
            PROVE  tick'.point = IdleTick.point
        BY <4>1, IdleType DEF Ticks
      <4> QED BY <3>6, <4>1 DEF ReviewList
    <3> QED BY <1>5, <3>4, <3>5, <3>6 DEF NoTarget, EndTick
  <2> QED BY <1>2, <2>1, ClassifyingType, IdleType
<1>6. CASE Kill
  BY <1>2, <1>6, IdleType DEF Kill
<1>7. ASSUME NEW q \in Prs,
             \/ BgStep(q) \/ BgTimesOut(q) \/ SessionEnds(q) \/ SessionDies(q)
             \/ Push(q) \/ CiEnds(q) \/ Ages(q) \/ HumanUnblocks(q)
      PROVE  tick' = tick
  BY <1>7 DEF BgStep, BgLookup, BgPost, BgAnswer, BgBlock, BgConclude, BgAddress, BgTimesOut,
              SessionEnds, SessionDies, Push, CiEnds, Ages, HumanUnblocks
<1>8. CASE UNCHANGED vars
  BY <1>1, <1>8 DEF vars
<1> QED BY <1>1, <1>2, <1>3, <1>4, <1>5, <1>6, <1>7, <1>8 DEF Next, TickStep

LEMMA MergedStep ==
  ASSUME TypeOK, ReadInv, [Next]_vars, NEW p \in Prs
  PROVE  Merged(p)'
<1>0. Merged(p) /\ bg[p] \in Resumes /\ bg \in [Prs -> Resumes]
  BY DEF ReadInv, TypeOK
<1>1. CASE UNCHANGED <<bg, open>>
  BY <1>0, <1>1 DEF Merged
<1>2. ASSUME NEW q \in Prs, ResumeStart(q) PROVE Merged(p)'
  <2>1. [NoResume EXCEPT !.at = "lookup", !.head = tick.heads[q]].end = "none"
    BY DEF NoResume
  <2>2. [NoResume EXCEPT !.at = "lookup", !.head = tick.heads[q]].at = "lookup"
    BY DEF NoResume
  <2> QED BY <1>0, <1>2, <2>1, <2>2 DEF ResumeStart, outside, Merged
<1>3. ASSUME NEW q \in Prs, BgStep(q) \/ BgTimesOut(q) PROVE Merged(p)'
  <2>1. UNCHANGED open
    BY <1>3 DEF BgStep, BgLookup, BgPost, BgAnswer, BgBlock, BgConclude, BgAddress,
                BgTimesOut, outside
  <2>2. CASE BgOver(q)
    BY <1>0, <2>1, <2>2 DEF BgOver, NoResume, Merged
  <2>3. ASSUME NEW at \in {"posting", "running", "blocking", "addressing"}, BgGoes(q, at)
        PROVE  Merged(p)'
    BY <1>0, <2>1, <2>3 DEF BgGoes, Merged, Resumes
  <2>4. CASE BgGoes(q, "concluding") /\ bg[q].end = "merged"
    BY <1>0, <2>1, <2>4 DEF BgGoes, Merged, Resumes
  <2>5. CASE bg' = [bg EXCEPT ![q].at = "posting", ![q].again = TRUE]
    BY <1>0, <2>1, <2>5 DEF Merged, Resumes
  <2> QED BY <1>3, <2>2, <2>3, <2>4, <2>5
          DEF BgStep, BgLookup, BgPost, BgAnswer, BgBlock, BgConclude, BgAddress,
              BgTimesOut, BgFails
<1>4. ASSUME NEW q \in Prs, SessionEnds(q) PROVE Merged(p)'
  <2>1. PICK e \in Ends :
          /\ open' = IF e = "merged" THEN open \ {q} ELSE open
          /\ bg' = [bg EXCEPT ![q].end = IF BgAt(q, "running") THEN e ELSE @]
    BY <1>4 DEF SessionEnds
  <2>2. CASE p # q
    BY <1>0, <2>1, <2>2 DEF Merged
  <2>3. CASE p = q /\ BgAt(q, "running")
    <3>1. bg'[p].end = e /\ bg'[p].at = "running"
      BY <1>0, <2>1, <2>3 DEF BgAt, Resumes
    <3> QED BY <2>1, <2>3, <3>1 DEF Merged
  <2>4. CASE p = q /\ ~BgAt(q, "running")
    <3>1. bg'[p].end = bg[p].end /\ bg'[p].at = bg[p].at
      BY <1>0, <2>1, <2>4 DEF Resumes
    <3> QED BY <1>0, <2>1, <3>1 DEF Merged
  <2> QED BY <2>2, <2>3, <2>4
<1>5. ASSUME NEW q \in Prs, SessionDies(q) PROVE Merged(p)'
  <2>1. /\ bg' = [bg EXCEPT ![q].end = IF BgAt(q, "running") THEN "error" ELSE @]
        /\ UNCHANGED open
    BY <1>5 DEF SessionDies, outside
  <2> QED BY <1>0, <2>1 DEF Merged, BgAt, Resumes
<1>6. CASE Kill
  BY <1>6 DEF Kill, NoResume, Merged, outside
<1>7. CASE UNCHANGED vars
  BY <1>1, <1>7 DEF vars, outside
<1>8. ASSUME TickStep, \A q \in Prs : ~ResumeStart(q) PROVE UNCHANGED <<bg, open>>
  BY <1>8 DEF TickStep, StartTick, ReconcileList, ReviewList, NoTarget, EndTick, PrStep,
              ReapSkip, Reap, ReconcileSkip, ReconcileGone, ReconcileJudge, ReconcileApply,
              Invalidate, BranchGone, CiPending, ClaimAborted, ResumeCeiling,
              FreshClaim, FreshPost, Classify, outside
<1>9. ASSUME NEW q \in Prs, Push(q) \/ CiEnds(q) \/ Ages(q) \/ HumanUnblocks(q)
      PROVE  UNCHANGED <<bg, open>>
  BY <1>9 DEF Push, CiEnds, Ages, HumanUnblocks, outside
<1> QED BY <1>1, <1>2, <1>3, <1>4, <1>5, <1>6, <1>7, <1>8, <1>9 DEF Next

LEMMA FaultsOnlyGrow ==
  ASSUME TypeOK, [Next]_vars, faults' = 0
  PROVE  faults = 0
<1>1. CASE UNCHANGED faults
  BY <1>1
<1>2. CASE Fault \/ NoFault
  BY <1>2, FaultCounts DEF NoFault
<1>3. CASE \E q \in Prs : PrStep(q)
  <2>1. PICK q \in Prs : PrStep(q)
    BY <1>3
  <2>2. CASE ReconcileApply(q) \/ BranchGone(q)
    BY <1>2, <2>2 DEF ReconcileApply, BranchGone, Block, Relabel
  <2>3. CASE FreshPost(q)
    BY <1>2, <2>3 DEF FreshPost, PostNowait
  <2>4. CASE \/ ReapSkip(q) \/ Reap(q) \/ ReconcileGone(q) \/ ReconcileJudge(q)
             \/ Invalidate(q) \/ ClaimAborted(q) \/ ResumeCeiling(q) \/ FreshClaim(q)
             \/ Classify(q)
    BY <1>2, <2>4 DEF ReapSkip, Reap, ReconcileGone, ReconcileJudge, Invalidate, Relabel,
                      ClaimAborted, ResumeCeiling, FreshClaim, Classify
  <2>5. CASE ReconcileSkip(q) \/ CiPending(q) \/ ResumeStart(q)
    BY <1>1, <2>5 DEF ReconcileSkip, CiPending, ResumeStart, counters
  <2> QED BY <2>1, <2>2, <2>3, <2>4, <2>5 DEF PrStep
<1>4. CASE StartTick \/ ReconcileList \/ ReviewList \/ NoTarget \/ EndTick
  BY <1>1, <1>2, <1>4 DEF StartTick, ReconcileList, ReviewList, Phase, NoTarget, EndTick, counters
<1>5. ASSUME NEW q \in Prs, BgStep(q) \/ BgTimesOut(q) PROVE Fault \/ NoFault
  BY <1>5 DEF BgStep, BgLookup, BgPost, BgAnswer, BgBlock, Block, BgConclude, Relabel,
              BgAddress, PostNowait, BgTimesOut, NoFault, counters
<1>6. ASSUME NEW q \in Prs,
             \/ SessionEnds(q) \/ SessionDies(q) \/ Push(q) \/ CiEnds(q) \/ Ages(q)
             \/ HumanUnblocks(q)
      PROVE  Fault \/ NoFault
  BY <1>6 DEF SessionEnds, SessionDies, Push, CiEnds, Ages, HumanUnblocks, NoFault, counters
<1>7. CASE Kill \/ UNCHANGED vars
  BY <1>1, <1>7 DEF Kill, vars, counters
<1> QED BY <1>2, <1>3, <1>4, <1>5, <1>6, <1>7 DEF Next, TickStep

LEMMA ReadInvStep ==
  ASSUME TypeOK, ReadInv, [Next]_vars
  PROVE  ReadInv'
<1>1. Judged' /\ \A p \in Prs : Merged(p)'
  BY JudgedStep, MergedStep
<1>2. ASSUME faults' = 0, NEW p \in open' PROVE Read(p)'
  <2>1. faults = 0
    BY <1>2, FaultsOnlyGrow
  <2>2. CASE StartTick \/ ReconcileList \/ ReviewList \/ NoTarget \/ EndTick
    <3>1. UNCHANGED open
      BY <2>2 DEF StartTick, ReconcileList, ReviewList, NoTarget, EndTick, outside
    <3> QED BY <1>2, <2>1, <2>2, <3>1, PhasesRead
  <2>3. ASSUME NEW q \in Prs, PrStep(q) PROVE Read(p)'
    <3>1. UNCHANGED open
      BY <2>3 DEF PrStep, ReapSkip, Reap, ReconcileSkip, ReconcileGone, ReconcileJudge,
                  ReconcileApply, Invalidate, BranchGone, CiPending, ClaimAborted,
                  ResumeCeiling, ResumeStart, FreshClaim, FreshPost, Classify, outside
    <3> QED BY <1>2, <2>1, <2>3, <3>1, LabelsKept, ClaimsMove DEF PrStep
  <2>4. ASSUME NEW q \in Prs,
               \/ BgStep(q) \/ BgTimesOut(q) \/ SessionEnds(q) \/ SessionDies(q)
               \/ Push(q) \/ CiEnds(q) \/ Ages(q) \/ HumanUnblocks(q)
        PROVE  Read(p)'
    BY <1>2, <2>1, <2>4, OthersRead
  <2>5. CASE Kill
    <3>1. p \in open /\ UNCHANGED label /\ tick' = IdleTick
      BY <1>2, <2>5 DEF Kill, outside
    <3> QED BY <2>1, <3>1, TickAway DEF ReadInv, Read, Single
  <2>6. CASE UNCHANGED vars
    BY <1>2, <2>1, <2>6, TickStays DEF vars, outside, ReadInv
  <2> QED BY <2>2, <2>3, <2>4, <2>5, <2>6 DEF Next, TickStep
<1> QED BY <1>1, <1>2 DEF ReadInv

\* What the listings of a tick and the resumes next to it have read of a PR
\* still holds when they act on it, as long as no call has failed: the
\* inductive invariant behind OneLabel.
THEOREM WhatWasReadHolds == Spec => []ReadInv
<1>1. Init => ReadInv
  <2> SUFFICES ASSUME Init PROVE ReadInv
    OBVIOUS
  <2>1. tick.point = "next" /\ tick.at = "idle" /\ tick.list = {}
    BY DEF Init, IdleTick
  <2>2. \A p \in Prs : label[p].review = {}
    BY DEF Init
  <2>3. \A p \in Prs : bg[p].end = "none" /\ bg[p].at = "none"
    BY DEF Init, NoResume
  <2>4. open = Prs
    BY DEF Init
  <2> QED BY <2>1, <2>2, <2>3, <2>4 DEF ReadInv, Judged, Merged, Read, Single, Listed, Unclaimed
<1>2. TypeOK /\ ReadInv /\ [Next]_vars => ReadInv'
  BY ReadInvStep
<1> QED BY <1>1, <1>2, PrTypeOK, PTL DEF Spec

\* As long as no call has failed, an open PR has at most one review label.
THEOREM ReviewLabelIsUnique == Spec => []OneLabel
<1>1. TypeOK /\ ReadInv => OneLabel
  <2> SUFFICES ASSUME TypeOK, ReadInv, NEW p \in open, ~(faults > 0)
               PROVE  Cardinality(label[p].review) <= 1
    BY DEF OneLabel
  <2>1. faults = 0
    BY DEF TypeOK
  <2>2. Single(p)
    BY <2>1 DEF ReadInv, Read
  <2>3. CASE label[p].review = {}
    BY <2>3, FS_EmptySet
  <2>4. CASE label[p].review # {}
    <3>1. PICK a : a \in label[p].review
      BY <2>4
    <3>2. label[p].review = {a}
      BY <2>2, <3>1 DEF Single
    <3> QED BY <3>2, FS_Singleton
  <2> QED BY <2>3, <2>4
<1> QED BY <1>1, PrTypeOK, WhatWasReadHolds, PTL

-----------------------------------------------------------------------------
(* What a PR costs *)

One(b) == IF b THEN 1 ELSE 0

\* The fresh review of p is about to be dispatched; its resume is before the
\* dispatch, or waits for the answer.
Posts(p) == tick.point = "posting" /\ tick.on = p

Asks(p) == bg[p].at \in {"lookup", "posting"}

Runs(p) == bg[p].at = "running"

\* Only the review phase has candidates, and it dispatches for one of them.
ListShape ==
    /\ tick.at # "review" => tick.cand = {}
    /\ tick.point = "posting" =>
          tick.at = "review" /\ tick.on \in tick.cand /\ tick.on \notin tick.prog

\* A candidate that was listed without a claim has none but that of this tick.
AsListed(p) ==
    /\ p \in tick.cand /\ p \notin tick.prog /\ ~Posts(p) =>
          label[p].review \subseteq {"pendente"}
    /\ Posts(p) => label[p].review = {"em_andamento"}

\* What is switched off does nothing.
FeaturesOk(p) ==
    /\ "reaper" \notin mode => age[p] = "young" /\ label[p].attempt = 0
    /\ "resume" \notin mode => bg[p].at = "none" /\ memo[p].attempt = 0

\* The HEADs that a resume, the listing and the memory of the last review know
\* of grow in this order.
HeadsOk(p) ==
    /\ memo[p].sha <= head[p]
    /\ memo[p].sha = NoHead => memo[p].address = 0
    /\ p \in tick.cand /\ p \in tick.prog =>
          memo[p].sha <= tick.heads[p] /\ 0 <= tick.heads[p] /\ tick.heads[p] <= head[p]
    /\ Asks(p) \/ Runs(p) =>
          memo[p].sha <= bg[p].head /\ 0 <= bg[p].head /\ bg[p].head <= head[p]
    /\ (Asks(p) \/ Runs(p)) /\ p \in tick.cand /\ p \in tick.prog =>
          bg[p].head <= tick.heads[p]

\* The fresh review that the present claim, or the review that is concluded,
\* has had.
Credit(p) == One(\/ "em_andamento" \in label[p].review /\ ~Posts(p)
                 \/ "concluida" \in label[p].review /\ p \notin news)

\* Fresh reviews without commits and humans.
FreshBudget == IF "reaper" \in mode THEN MaxReaps ELSE 1

\* What the resumes since the memory of the PR was cleared may have cost.
Resumed(p) == memo[p].attempt + One(Runs(p))

Closed(p) == label[p].blocked \/ p \notin open

\* A PR is served: the reaper's count and the HEAD account for fresh reviews, ...
Served(p) ==
    /\ ~label[p].blocked
    /\ label[p].attempt < MaxReaps \/ edits >= 1
    /\ AsListed(p)
    /\ spent[p].rounds <= label[p].attempt + Credit(p) + head[p] + Resumed(p)

\* ... or the reaper blocked it, which leaves its resumes alone, ...
GivenUp(p) ==
    /\ label[p].blocked /\ p \notin tick.cand
    /\ spent[p].rounds <= FreshBudget + head[p] + edits + Resumed(p)

\* ... or it is blocked or merged and only what is under way may cost more.
Over(p) ==
    /\ Closed(p)
    /\ spent[p].rounds + One(Asks(p)) + One(p \in tick.cand) <= Budget + head[p] + edits

RoundOk(p) == Served(p) \/ GivenUp(p) \/ Over(p)

\* Address sessions for the HEADs before the one last reviewed, and for it.
Fixing(p) == One(bg[p].at = "addressing")

FixesSoFar(p) ==
    MaxAddress * (IF memo[p].sha = NoHead THEN 0 ELSE memo[p].sha) + memo[p].address

FixServed(p) == spent[p].fixes + Fixing(p) <= FixesSoFar(p) + edits

\* Once the memory is cleared one more review may come, which has no earlier
\* HEAD to compare with.
FixOver(p) ==
    /\ Closed(p)
    /\ spent[p].fixes + Fixing(p) <= MaxAddress * (head[p] + 1) + edits
    /\ One(Asks(p) \/ Runs(p)) + One(p \in tick.cand) <= One(memo[p].sha = NoHead)

FixOk(p) == FixServed(p) \/ FixOver(p)

CostOk(p) ==
    /\ FeaturesOk(p)
    /\ p \in open => AsListed(p)
    /\ HeadsOk(p)
    /\ RoundOk(p)
    /\ FixOk(p)

\* Without faults only a PR that is not open is judged to be merged.
JudgedMerged ==
    tick.point = "judged" /\ tick.verdict = "merged" => tick.on \notin open

CostInv == faults = 0 => ListShape /\ JudgedMerged /\ \A p \in Prs : CostOk(p)

\* The numbers it compares.
Sized(p) ==
    /\ label[p] \in Labels /\ memo[p] \in Memos /\ bg[p] \in Resumes
    /\ label[p].attempt \in Nat /\ label[p].attempt <= MaxReaps
    /\ head[p] \in Nat
    /\ memo[p].attempt \in Nat /\ memo[p].attempt <= MaxAttempts
    /\ memo[p].address \in Nat /\ memo[p].address <= MaxAddress
    /\ memo[p].sha \in Int /\ (memo[p].sha = NoHead \/ memo[p].sha \in Nat)
    /\ bg[p].head \in Int
    /\ spent[p].rounds \in Nat /\ spent[p].fixes \in Nat
    /\ edits \in Nat /\ faults \in Nat
    /\ tick.heads[p] \in Nat

LEMMA CostTypes == TypeOK => \A p \in Prs : Sized(p)
<1> SUFFICES ASSUME TypeOK, NEW p \in Prs PROVE Sized(p)
  OBVIOUS
<1>1. MaxReaps \in Nat /\ MaxAttempts \in Nat /\ MaxAddress \in Nat /\ MaxPushes \in Nat
  BY LimitsAssumption
<1>2. /\ label[p] \in Labels /\ memo[p] \in Memos /\ bg[p] \in Resumes /\ head[p] \in Heads
      /\ spent[p] \in [rounds : 0..MaxSpent, fixes : 0..MaxSpent]
      /\ edits \in Nat /\ faults \in Nat /\ tick \in Ticks
  BY DEF TypeOK
<1>3. /\ label[p].attempt \in Nat /\ label[p].attempt <= MaxReaps
      /\ head[p] \in Nat
  BY <1>1, <1>2 DEF Labels, Heads
<1>4. /\ memo[p].attempt \in Nat /\ memo[p].attempt <= MaxAttempts
      /\ memo[p].address \in Nat /\ memo[p].address <= MaxAddress
      /\ memo[p].sha \in Int /\ (memo[p].sha = NoHead \/ memo[p].sha \in Nat)
  BY <1>1, <1>2 DEF Memos, Heads, NoHead
<1>5. bg[p].head \in Int
  BY <1>1, <1>2 DEF Resumes, Heads, NoHead
<1>6. spent[p].rounds \in Nat /\ spent[p].fixes \in Nat
  BY <1>2, SpentNat
<1>7. tick.heads[p] \in Nat
  BY <1>1, <1>2 DEF Ticks, Heads
<1> QED BY <1>2, <1>3, <1>4, <1>5, <1>6, <1>7 DEF Sized

LEMMA CostTypesNext == TypeOK' => \A p \in Prs : Sized(p)'
<1>1. (TypeOK => \A p \in Prs : Sized(p))'
  BY CostTypes, PTL
<1> QED BY <1>1

LEMMA Times ==
  ASSUME NEW a \in Nat, NEW s \in Nat, NEW h \in Nat, s < h
  PROVE  a * s \in Nat /\ a * h \in Nat /\ a * s + a <= a * h
<1>1. a * s \in Nat /\ a * h \in Nat /\ a * (h - s - 1) \in Nat
  OBVIOUS
<1>2. a * h = a * s + a + a * (h - s - 1)
  OBVIOUS
<1> QED BY <1>1, <1>2

LEMMA OneType == \A b \in BOOLEAN : One(b) \in {0, 1}
  BY DEF One

LEMMA BudgetType ==
  /\ FreshBudget \in Nat /\ FreshBudget >= 1
  /\ "reaper" \in mode => FreshBudget = MaxReaps
  /\ "reaper" \notin mode => FreshBudget = 1
  /\ "resume" \in mode => Budget = FreshBudget + MaxAttempts + 1
  /\ "resume" \notin mode => Budget = FreshBudget
  /\ MaxReaps \in Nat /\ MaxAttempts \in Nat /\ MaxAddress \in Nat /\ Budget \in Nat
  BY LimitsAssumption DEF FreshBudget, Budget


\* What the count of the reaper, the HEAD and the resumes grant to a PR.
Allowance(p) == label[p].attempt + Credit(p) + head[p] + Resumed(p)

LEMMA Allowed ==
  ASSUME TypeOK, NEW p \in Prs
  PROVE  /\ Credit(p) \in {0, 1} /\ Resumed(p) \in Nat /\ Allowance(p) \in Nat
         /\ Resumed(p) = memo[p].attempt + One(Runs(p))
         /\ Allowance(p) = label[p].attempt + Credit(p) + head[p] + Resumed(p)
<1>1. Sized(p)
  BY CostTypes
<1>2. One(Runs(p)) \in {0, 1} /\ Credit(p) \in {0, 1}
  BY DEF One, Credit
<1>3. Resumed(p) \in Nat
  BY <1>1, <1>2 DEF Resumed, Sized
<1> QED BY <1>1, <1>2, <1>3 DEF Allowance, Resumed, Sized

LEMMA AllowedNext ==
  ASSUME TypeOK', NEW p \in Prs
  PROVE  /\ Credit(p)' \in {0, 1} /\ Resumed(p)' \in Nat /\ Allowance(p)' \in Nat
         /\ Resumed(p)' = memo'[p].attempt + One(Runs(p)')
         /\ Allowance(p)' = label'[p].attempt + Credit(p)' + head'[p] + Resumed(p)'
<1>1. Sized(p)'
  BY CostTypesNext
<1>2. One(Runs(p)') \in {0, 1} /\ Credit(p)' \in {0, 1}
  BY DEF One, Credit
<1>3. Resumed(p)' \in Nat
  BY <1>1, <1>2 DEF Resumed, Sized
<1> QED BY <1>1, <1>2, <1>3 DEF Allowance, Resumed, Sized

\* Fresh reviews are within their budget, whoever counted them.
LEMMA FreshWithin ==
  ASSUME TypeOK, NEW p \in Prs, FeaturesOk(p), Served(p) \/ GivenUp(p)
  PROVE  spent[p].rounds <= FreshBudget + head[p] + edits + Resumed(p)
<1>1. Sized(p) /\ Credit(p) \in {0, 1} /\ Resumed(p) \in Nat
  BY CostTypes, Allowed
<1>2. CASE GivenUp(p)
  BY <1>2 DEF GivenUp
<1>3. CASE Served(p)
  <2>1. label[p].attempt + Credit(p) <= FreshBudget + edits
    BY <1>1, <1>3, BudgetType DEF Served, FeaturesOk, Sized
  <2> QED BY <1>1, <1>3, <2>1, BudgetType DEF Served, Sized
<1> QED BY <1>2, <1>3

\* The work goes on: nothing is dispatched, and what was granted is kept.
LEMMA RoundKeep ==
  ASSUME TypeOK, TypeOK', NEW p \in Prs, UNCHANGED mode, edits' >= edits, RoundOk(p),
         AsListed(p) => AsListed(p)' /\ Allowance(p)' >= Allowance(p),
         label'[p].blocked = label[p].blocked, p \in open' => p \in open,
         label'[p].attempt = label[p].attempt \/ label'[p].attempt < MaxReaps,
         head'[p] >= head[p], Resumed(p)' >= Resumed(p),
         Asks(p)' => Asks(p), p \in tick'.cand => p \in tick.cand,
         spent'[p].rounds = spent[p].rounds
  PROVE  RoundOk(p)'
<1>1. Sized(p) /\ Sized(p)' /\ FreshBudget' = FreshBudget /\ Budget' = Budget
  BY CostTypes, CostTypesNext DEF FreshBudget, Budget
<1>2. /\ Resumed(p) \in Nat /\ Resumed(p)' \in Nat /\ Allowance(p) \in Nat /\ Allowance(p)' \in Nat
      /\ FreshBudget \in Nat /\ Budget \in Nat
  BY Allowed, AllowedNext, BudgetType
<1>3. CASE Served(p)
  <2>1. spent'[p].rounds <= Allowance(p)'
    BY <1>1, <1>2, <1>3 DEF Served, Sized, Allowance
  <2>2. label'[p].attempt < MaxReaps \/ edits' >= 1
    BY <1>1, <1>3 DEF Served, Sized
  <2> QED BY <1>3, <2>1, <2>2 DEF Served, RoundOk, Allowance
<1>4. CASE GivenUp(p)
  BY <1>1, <1>2, <1>4 DEF GivenUp, RoundOk, Sized
<1>5. CASE Over(p)
  <2>1. One(Asks(p)') <= One(Asks(p)) /\ One(p \in tick'.cand) <= One(p \in tick.cand)
    BY DEF One
  <2>2. /\ One(Asks(p)) \in {0, 1} /\ One(p \in tick.cand) \in {0, 1}
        /\ One(Asks(p)') \in {0, 1} /\ One(p \in tick'.cand) \in {0, 1}
    BY DEF One
  <2>3. Closed(p)'
    BY <1>5 DEF Over, Closed
  <2>4. spent'[p].rounds + One(Asks(p)') + One(p \in tick'.cand) <= Budget + head'[p] + edits'
    BY <1>1, <1>2, <1>5, <2>1, <2>2 DEF Over, Sized
  <2> QED BY <1>1, <2>3, <2>4 DEF Over, RoundOk
<1> QED BY <1>3, <1>4, <1>5 DEF RoundOk


\* The memory of a PR that is blocked or merged is cleared.
LEMMA RoundClear ==
  ASSUME TypeOK, TypeOK', NEW p \in Prs, UNCHANGED mode, edits' = edits, FeaturesOk(p),
         RoundOk(p), Closed(p)', Closed(p) => Closed(p)', head'[p] = head[p],
         Asks(p)' => Asks(p), p \in tick'.cand => p \in tick.cand,
         ~Asks(p)' \/ p \notin tick'.cand,
         p \in tick'.cand => "resume" \in mode /\ ~Runs(p),
         spent'[p].rounds = spent[p].rounds
  PROVE  RoundOk(p)'
<1>1. Sized(p) /\ Sized(p)' /\ Budget' = Budget
  BY CostTypes, CostTypesNext DEF Budget
<1>2. Resumed(p) \in Nat /\ FreshBudget \in Nat /\ Budget \in Nat /\ MaxAttempts \in Nat
  BY Allowed, BudgetType
<1>3. spent'[p].rounds + One(Asks(p)') + One(p \in tick'.cand) <= Budget + head'[p] + edits'
  <2>1. CASE Over(p)
    <3>1. One(Asks(p)') <= One(Asks(p)) /\ One(p \in tick'.cand) <= One(p \in tick.cand)
      BY DEF One
    <3>2. /\ One(Asks(p)) \in {0, 1} /\ One(p \in tick.cand) \in {0, 1}
          /\ One(Asks(p)') \in {0, 1} /\ One(p \in tick'.cand) \in {0, 1}
      BY DEF One
    <3> QED BY <1>1, <1>2, <2>1, <3>1, <3>2 DEF Over, Sized
  <2>2. CASE Served(p) \/ GivenUp(p)
    <3>1. spent[p].rounds <= FreshBudget + head[p] + edits + Resumed(p)
      BY <2>2, FreshWithin
    <3>2. Resumed(p) + One(Asks(p)') + One(p \in tick'.cand) <= Budget - FreshBudget
      <4>1. CASE "resume" \in mode
        <5>1. Budget - FreshBudget = MaxAttempts + 1
          BY <1>2, <4>1, BudgetType
        <5>2. One(Runs(p)) + One(Asks(p)') + One(p \in tick'.cand) <= 1
          BY DEF One, Asks, Runs
        <5>3. /\ One(Runs(p)) \in {0, 1} /\ One(Asks(p)') \in {0, 1}
              /\ One(p \in tick'.cand) \in {0, 1}
          BY DEF One
        <5> QED BY <1>1, <1>2, <5>1, <5>2, <5>3 DEF Resumed, Sized
      <4>2. CASE "resume" \notin mode
        <5>1. Budget - FreshBudget = 0
          BY <1>2, <4>2, BudgetType
        <5>2. ~Runs(p) /\ ~Asks(p)' /\ p \notin tick'.cand /\ memo[p].attempt = 0
          BY <4>2 DEF FeaturesOk, Runs, Asks
        <5>3. One(Runs(p)) = 0 /\ One(Asks(p)') = 0 /\ One(p \in tick'.cand) = 0
          BY <5>2 DEF One
        <5> QED BY <5>1, <5>2, <5>3 DEF Resumed
      <4> QED BY <4>1, <4>2
    <3>3. One(Asks(p)') \in {0, 1} /\ One(p \in tick'.cand) \in {0, 1}
      BY DEF One
    <3> QED BY <1>1, <1>2, <3>1, <3>2, <3>3 DEF Sized
  <2> QED BY <2>1, <2>2 DEF RoundOk
<1> QED BY <1>1, <1>3 DEF Over, RoundOk

LEMMA TimesGrows ==
  ASSUME NEW a \in Nat, NEW s \in Nat, NEW h \in Nat, s <= h
  PROVE  a * s \in Nat /\ a * h \in Nat /\ a * s <= a * h
<1>1. a * s \in Nat /\ a * h \in Nat /\ a * (h - s) \in Nat
  OBVIOUS
<1>2. a * h = a * s + a * (h - s)
  OBVIOUS
<1> QED BY <1>1, <1>2

\* The address sessions of the HEAD last reviewed and of those before it.
LEMMA FixesWithin ==
  ASSUME TypeOK, NEW p \in Prs, HeadsOk(p)
  PROVE  /\ FixesSoFar(p) \in Nat
         /\ MaxAddress * (head[p] + 1) \in Nat
         /\ FixesSoFar(p) <= MaxAddress * (head[p] + 1)
<1>1. Sized(p) /\ MaxAddress \in Nat
  BY CostTypes, LimitsAssumption
<1>2. CASE memo[p].sha = NoHead
  <2>1. MaxAddress * 0 = 0 /\ MaxAddress * (head[p] + 1) \in Nat
    BY <1>1 DEF Sized
  <2>2. FixesSoFar(p) = 0
    BY <1>1, <1>2, <2>1 DEF FixesSoFar, HeadsOk, Sized
  <2> QED BY <2>1, <2>2
<1>3. CASE memo[p].sha # NoHead
  <2>1. memo[p].sha \in Nat /\ head[p] + 1 \in Nat /\ memo[p].sha < head[p] + 1
    BY <1>1, <1>3 DEF HeadsOk, Sized
  <2>2. /\ MaxAddress * memo[p].sha \in Nat /\ MaxAddress * (head[p] + 1) \in Nat
        /\ MaxAddress * memo[p].sha + MaxAddress <= MaxAddress * (head[p] + 1)
    BY <1>1, <2>1, Times
  <2>3. FixesSoFar(p) = MaxAddress * memo[p].sha + memo[p].address
    BY <1>3 DEF FixesSoFar
  <2> QED BY <1>1, <2>2, <2>3 DEF Sized
<1> QED BY <1>2, <1>3

\* Nothing is addressed that was not to be, and the memory stays.
LEMMA FixKeep ==
  ASSUME TypeOK, TypeOK', NEW p \in Prs, edits' >= edits, FixOk(p),
         memo'[p].sha = memo[p].sha, memo'[p].address = memo[p].address,
         Closed(p) => Closed(p)', head'[p] >= head[p],
         Asks(p)' \/ Runs(p)' => Asks(p) \/ Runs(p), p \in tick'.cand => p \in tick.cand,
         spent'[p].fixes + Fixing(p)' <= spent[p].fixes + Fixing(p)
  PROVE  FixOk(p)'
<1>1. Sized(p) /\ Sized(p)' /\ MaxAddress \in Nat
  BY CostTypes, CostTypesNext, LimitsAssumption
<1>2. Fixing(p) \in {0, 1} /\ Fixing(p)' \in {0, 1}
  BY DEF Fixing, One
<1>3. CASE FixServed(p)
  <2>1. FixesSoFar(p)' = FixesSoFar(p)
    BY DEF FixesSoFar
  <2>2. FixesSoFar(p) \in Int
    BY <1>1 DEF FixesSoFar, Sized
  <2> QED BY <1>1, <1>2, <1>3, <2>1, <2>2 DEF FixServed, FixOk, Sized
<1>4. CASE FixOver(p)
  <2>1. head[p] + 1 \in Nat /\ head'[p] + 1 \in Nat /\ head[p] + 1 <= head'[p] + 1
    BY <1>1 DEF Sized
  <2>2. /\ MaxAddress * (head[p] + 1) \in Nat /\ MaxAddress * (head'[p] + 1) \in Nat
        /\ MaxAddress * (head[p] + 1) <= MaxAddress * (head'[p] + 1)
    BY <1>1, <2>1, TimesGrows
  <2>3. spent'[p].fixes + Fixing(p)' <= MaxAddress * (head'[p] + 1) + edits'
    BY <1>1, <1>2, <1>4, <2>2 DEF FixOver, Sized
  <2>4. One(Asks(p)' \/ Runs(p)') + One(p \in tick'.cand) <= One(memo'[p].sha = NoHead)
    BY <1>4 DEF FixOver, One
  <2>5. Closed(p)'
    BY <1>4 DEF FixOver
  <2> QED BY <2>3, <2>4, <2>5 DEF FixOver, FixOk
<1> QED BY <1>3, <1>4 DEF FixOk

LEMMA FixClear ==
  ASSUME TypeOK, TypeOK', NEW p \in Prs, edits' = edits, HeadsOk(p), FixOk(p),
         memo'[p] = Forgotten, Closed(p)', head'[p] = head[p],
         ~(Asks(p)' \/ Runs(p)') \/ p \notin tick'.cand,
         spent'[p].fixes + Fixing(p)' <= spent[p].fixes + Fixing(p)
  PROVE  FixOk(p)'
<1>1. Sized(p) /\ Sized(p)' /\ MaxAddress \in Nat
  BY CostTypes, CostTypesNext, LimitsAssumption
<1>2. Fixing(p) \in {0, 1} /\ Fixing(p)' \in {0, 1}
  BY DEF Fixing, One
<1>3. spent[p].fixes + Fixing(p) <= MaxAddress * (head[p] + 1) + edits
  <2>1. /\ FixesSoFar(p) \in Nat /\ MaxAddress * (head[p] + 1) \in Nat
        /\ FixesSoFar(p) <= MaxAddress * (head[p] + 1)
    BY FixesWithin
  <2> QED BY <1>1, <1>2, <2>1 DEF FixOk, FixServed, FixOver, Sized
<1>4. spent'[p].fixes + Fixing(p)' <= MaxAddress * (head'[p] + 1) + edits'
  <2>1. MaxAddress * (head[p] + 1) \in Nat
    BY <1>1, FixesWithin
  <2> QED BY <1>1, <1>2, <1>3, <2>1 DEF Sized
<1>5. One(Asks(p)' \/ Runs(p)') + One(p \in tick'.cand) <= One(memo'[p].sha = NoHead)
  BY DEF One, Forgotten
<1> QED BY <1>4, <1>5 DEF FixOver, FixOk


\* The tick sees p as before, or its candidates are no more.
TickKeeps(p) ==
    \/ /\ p \in tick'.cand <=> p \in tick.cand
       /\ p \in tick'.prog <=> p \in tick.prog
       /\ tick'.heads[p] = tick.heads[p]
       /\ Posts(p)' <=> Posts(p)
    \/ p \notin tick'.cand /\ ~Posts(p)'

LEMMA HeadsKeep ==
  ASSUME TypeOK, TypeOK', NEW p \in Prs, HeadsOk(p), TickKeeps(p),
         memo'[p] = Forgotten
           \/ (memo'[p].sha = memo[p].sha /\ memo'[p].address = memo[p].address),
         head'[p] >= head[p],
         Asks(p)' \/ Runs(p)' => (Asks(p) \/ Runs(p)) /\ bg'[p].head = bg[p].head
  PROVE  HeadsOk(p)'
<1>1. Sized(p) /\ Sized(p)'
  BY CostTypes, CostTypesNext
<1>2. memo'[p].sha <= memo[p].sha /\ (memo'[p].sha = NoHead => memo'[p].address = 0)
  BY <1>1 DEF HeadsOk, Forgotten, NoHead, Sized
<1>3. memo'[p].sha <= head'[p]
  BY <1>1, <1>2 DEF HeadsOk, Sized
<1>4. p \in tick'.cand /\ p \in tick'.prog =>
        /\ p \in tick.cand /\ p \in tick.prog /\ tick'.heads[p] = tick.heads[p]
        /\ memo'[p].sha <= tick'.heads[p] /\ 0 <= tick'.heads[p] /\ tick'.heads[p] <= head'[p]
  BY <1>1, <1>2 DEF TickKeeps, HeadsOk, Sized
<1>5. Asks(p)' \/ Runs(p)' =>
        memo'[p].sha <= bg'[p].head /\ 0 <= bg'[p].head /\ bg'[p].head <= head'[p]
  BY <1>1, <1>2 DEF HeadsOk, Sized
<1>6. (Asks(p)' \/ Runs(p)') /\ p \in tick'.cand /\ p \in tick'.prog =>
        bg'[p].head <= tick'.heads[p]
  BY <1>4 DEF HeadsOk
<1> QED BY <1>2, <1>3, <1>4, <1>5, <1>6 DEF HeadsOk

LEMMA FeaturesKeep ==
  ASSUME NEW p \in Prs, UNCHANGED mode, FeaturesOk(p),
         age'[p] = age[p] \/ age'[p] = "young" \/ "reaper" \in mode,
         label'[p].attempt = label[p].attempt \/ "reaper" \in mode,
         bg[p].at = "none" => bg'[p].at = "none",
         bg[p].at = "none" => memo'[p].attempt \in {0, memo[p].attempt}
  PROVE  FeaturesOk(p)'
  BY DEF FeaturesOk

LEMMA AsListedKeeps ==
  ASSUME NEW p \in Prs, AsListed(p), TickKeeps(p), label'[p].review = label[p].review
  PROVE  AsListed(p)'
  BY DEF AsListed, TickKeeps

\* A step that is not about p.
LEMMA Unmoved ==
  ASSUME TypeOK, TypeOK', NEW p \in Prs, UNCHANGED mode, edits' >= edits, CostOk(p), TickKeeps(p),
         label'[p].review = label[p].review, label'[p].blocked = label[p].blocked,
         label'[p].attempt = label[p].attempt,
         age'[p] = age[p] \/ "reaper" \in mode,
         head'[p] = head[p], memo'[p] = memo[p],
         p \in open' => p \in open, p \in news' <=> p \in news,
         \/ bg'[p].at = bg[p].at /\ bg'[p].head = bg[p].head
         \/ bg[p].at = "lookup" /\ bg'[p].at \in {"none", "posting"} /\ bg'[p].head = bg[p].head
         \/ bg[p].at = "lookup" /\ bg'[p].at = "none",
         spent'[p] = spent[p]
  PROVE  CostOk(p)'
<1>1. Sized(p) /\ Sized(p)'
  BY CostTypes, CostTypesNext
<1>2. /\ Asks(p)' => Asks(p) /\ bg'[p].head = bg[p].head
      /\ Runs(p)' <=> Runs(p)
      /\ Runs(p)' => bg'[p].head = bg[p].head
      /\ bg'[p].at = "addressing" <=> bg[p].at = "addressing"
  BY DEF Asks, Runs
<1>3. FeaturesOk(p)'
  BY FeaturesKeep DEF CostOk
<1>4. AsListed(p) => AsListed(p)'
  BY AsListedKeeps
<1>5. HeadsOk(p)'
  BY <1>1, <1>2, HeadsKeep DEF CostOk, Sized
<1>6. RoundOk(p)'
  <2>1. Resumed(p)' = Resumed(p)
    BY <1>2 DEF Resumed, One
  <2>2. AsListed(p) => Credit(p)' >= Credit(p)
    BY <1>4 DEF Credit, One, AsListed, TickKeeps, Posts
  <2>3. AsListed(p) => Allowance(p)' >= Allowance(p)
    BY <1>1, <2>1, <2>2, Allowed, AllowedNext DEF Sized
  <2>4. p \in tick'.cand => p \in tick.cand
    BY DEF TickKeeps
  <2>5. Resumed(p)' >= Resumed(p) /\ head'[p] >= head[p]
    BY <1>1, <2>1, Allowed DEF Sized
  <2> QED BY <1>2, <1>4, <2>3, <2>4, <2>5, RoundKeep DEF CostOk
<1>7. FixOk(p)'
  <2>1. Fixing(p)' = Fixing(p)
    BY <1>2 DEF Fixing, One
  <2>2. spent'[p].fixes + Fixing(p)' <= spent[p].fixes + Fixing(p)
    <3>1. Fixing(p) \in {0, 1}
      BY DEF Fixing, One
    <3> QED BY <1>1, <2>1, <3>1 DEF Sized
  <2>3. head'[p] >= head[p]
    BY <1>1 DEF Sized
  <2> QED BY <1>2, <2>2, <2>3, FixKeep DEF CostOk, Closed, TickKeeps
<1> QED BY <1>3, <1>4, <1>5, <1>6, <1>7 DEF CostOk


\* The tick passes on to another PR, phase or tick.
LEMMA TickPasses ==
  ASSUME TypeOK, ListShape, JudgedMerged, NEW p, NEW q, open' \subseteq open,
         \/ tick' = tick
         \/ tick' = Leave(p) /\ tick.point # "posting"
         \/ tick' \in {Classifying, IdleTick}
  PROVE  /\ ListShape' /\ JudgedMerged' /\ TickKeeps(q)
         /\ p \in tick'.cand => p \in tick.cand
<1>1. CASE tick' = tick
  BY <1>1 DEF ListShape, JudgedMerged, TickKeeps, Posts
<1>2. CASE tick' = Leave(p) /\ tick.point # "posting"
  <2>1. /\ tick'.at = tick.at /\ tick'.point = "next" /\ tick'.cand = tick.cand
        /\ tick'.prog = tick.prog /\ tick'.heads = tick.heads
    BY <1>2 DEF Leave, TypeOK, Ticks
  <2> QED BY <1>2, <2>1 DEF ListShape, JudgedMerged, TickKeeps, Posts
<1>3. CASE tick' \in {Classifying, IdleTick}
  <2>1. IdleTick.cand = {} /\ IdleTick.point = "next"
    BY DEF IdleTick
  <2>2. Classifying.cand = {} /\ Classifying.point = "next"
    BY IdleType, <2>1 DEF Classifying, Ticks
  <2>3. tick'.cand = {} /\ tick'.point = "next"
    BY <1>3, <2>1, <2>2
  <2> QED BY <2>3 DEF ListShape, JudgedMerged, TickKeeps, Posts
<1> QED BY <1>1, <1>2, <1>3

\* What a step about p leaves as it is for q.
Spares(q) ==
    /\ label'[q] = label[q] /\ age'[q] = age[q] /\ head'[q] = head[q]
    /\ memo'[q] = memo[q] /\ bg'[q] = bg[q] /\ spent'[q] = spent[q]
    /\ q \in open' => q \in open
    /\ q \in news' <=> q \in news

LEMMA SparedCost ==
  ASSUME TypeOK, TypeOK', NEW q \in Prs, UNCHANGED mode, edits' >= edits, CostOk(q),
         TickKeeps(q), Spares(q)
  PROVE  CostOk(q)'
  BY Unmoved DEF Spares

LEMMA TickStepsSpare ==
  ASSUME TypeOK, faults' = 0, NEW p \in Prs, PrStep(p), NEW q \in Prs, q # p
  PROVE  Spares(q) /\ UNCHANGED mode /\ edits' = edits
<1>1. ASSUME label'[q] = label[q], UNCHANGED <<mode, age, outside, live, bg, kills, edits, spent>>,
             memo'[q] = memo[q]
      PROVE  Spares(q) /\ UNCHANGED mode /\ edits' = edits
  BY <1>1 DEF Spares, outside
<1>2. CASE \/ ReapSkip(p) \/ ReconcileSkip(p) \/ ReconcileGone(p) \/ ReconcileJudge(p)
           \/ CiPending(p) \/ ClaimAborted(p)
  BY <1>1, <1>2 DEF ReapSkip, ReconcileSkip, ReconcileGone, ReconcileJudge, CiPending,
                    ClaimAborted, counters
<1>3. CASE Reap(p)
  <2>1. label'[q] = label[q]
    <3> DEFINE n == NextCount(label[p].attempt)
               bare == [label[p] EXCEPT !.review = @ \ {"em_andamento"},
                                        !.own = FALSE, !.attempt = 0]
               out == [bare EXCEPT !.blocked = TRUE, !.attempt = MaxReaps]
               again == [bare EXCEPT !.review = @ \cup {"pendente"}, !.attempt = n]
    <3>1. label' = [label EXCEPT ![p] = out] \/ label' = [label EXCEPT ![p] = again]
      BY <1>3, FaultCounts DEF Reap
    <3> HIDE DEF out, again
    <3> QED BY <3>1 DEF TypeOK
  <2> QED BY <1>1, <1>3, <2>1 DEF Reap
<1>4. CASE ReconcileApply(p)
  <2>1. CASE tick.verdict = "blocked"
    <3>1. label'[q] = label[q] /\ memo'[q] = memo[q]
      BY <1>4, <2>1 DEF ReconcileApply, Block, TypeOK
    <3> QED BY <1>1, <1>4, <2>1, <3>1 DEF ReconcileApply, outside
  <2>2. CASE tick.verdict # "blocked"
    <3>1. PICK how \in Outcomes : Relabel(p, "em_andamento", "concluida", how)
      BY <1>4, <2>2 DEF ReconcileApply
    <3>2. label'[q] = label[q]
      BY <3>1, RelabelCalm DEF ReviewLabels
    <3>3. q \in news' <=> q \in news
      BY <3>1 DEF Relabel
    <3>4. memo'[q] = memo[q]
      BY <1>4, <2>2 DEF ReconcileApply, TypeOK
    <3> QED BY <1>4, <3>2, <3>3, <3>4 DEF ReconcileApply, Spares
  <2> QED BY <2>1, <2>2
<1>5. CASE Invalidate(p)
  <2>1. label'[q] = label[q]
    <3>1. CASE UNCHANGED label
      BY <3>1
    <3>2. CASE Relabel(p, "concluida", "pendente", "moved")
      BY <3>2, RelabelCalm DEF ReviewLabels, Outcomes
    <3> QED BY <1>5, <3>1, <3>2, FaultCounts DEF Invalidate
  <2>2. UNCHANGED news
    BY <1>5 DEF Invalidate, Relabel
  <2> QED BY <1>1, <1>5, <2>1, <2>2 DEF Invalidate, outside
<1>6. CASE BranchGone(p)
  <2>1. label'[q] = label[q] /\ memo'[q] = memo[q]
    BY <1>6 DEF BranchGone, Block, TypeOK
  <2> QED BY <1>1, <1>6, <2>1 DEF BranchGone
<1>7. CASE ResumeCeiling(p)
  <2>1. memo'[q] = memo[q]
    BY <1>7 DEF ResumeCeiling, TypeOK
  <2>2. label' = [label EXCEPT ![p].own = TRUE, ![p].blocked = TRUE]
    BY <1>7, FaultCounts DEF ResumeCeiling
  <2>3. label'[q] = label[q]
    BY <2>2 DEF TypeOK
  <2> QED BY <1>1, <1>7, <2>1, <2>3 DEF ResumeCeiling
<1>8. CASE ResumeStart(p)
  BY <1>8 DEF ResumeStart, TypeOK, Spares, outside, counters
<1>9. CASE FreshClaim(p)
  <2>1. label' = [label EXCEPT ![p].own = TRUE,
                              ![p].review = Moved(@, "pendente", "em_andamento")]
    BY <1>9, FaultCounts DEF FreshClaim
  <2>2. label'[q] = label[q]
    BY <2>1 DEF TypeOK
  <2>3. age'[q] = age[q]
    BY <1>9 DEF FreshClaim, TypeOK
  <2> QED BY <1>9, <2>2, <2>3 DEF FreshClaim, Spares, outside
<1>10. CASE FreshPost(p)
  <2>1. spent'[q] = spent[q]
    BY <1>10 DEF FreshPost, PostNowait, Starts, TypeOK
  <2> QED BY <1>10, <2>1 DEF FreshPost, Spares, outside
<1>11. CASE Classify(p)
  <2>1. label'[q] = label[q]
    BY <1>11 DEF Classify, TypeOK
  <2> QED BY <1>1, <1>11, <2>1 DEF Classify
<1> QED BY <1>2, <1>3, <1>4, <1>5, <1>6, <1>7, <1>8, <1>9, <1>10, <1>11 DEF PrStep

LEMMA OtherStepsSpare ==
  ASSUME TypeOK, faults' = 0, NEW p \in Prs, NEW q \in Prs, q # p,
         \/ BgStep(p) \/ BgTimesOut(p) \/ SessionEnds(p) \/ SessionDies(p)
         \/ Push(p) \/ CiEnds(p) \/ Ages(p) \/ HumanUnblocks(p)
  PROVE  Spares(q) /\ UNCHANGED <<mode, tick>> /\ edits' >= edits
<1>0. edits \in Nat
  BY DEF TypeOK
<1>1. UNCHANGED <<mode, tick>> /\ edits' >= edits
  <2>1. CASE BgStep(p) \/ BgTimesOut(p)
    <3>1. UNCHANGED <<mode, tick>>
      BY <2>1 DEF BgStep, BgLookup, BgPost, BgAnswer, BgBlock, BgConclude, BgAddress, BgTimesOut
    <3>2. edits' = edits
      BY <2>1 DEF BgStep, BgLookup, BgPost, BgAnswer, BgBlock, BgConclude, BgAddress,
                  BgTimesOut, counters
    <3> QED BY <1>0, <3>1, <3>2
  <2>2. CASE SessionEnds(p) \/ SessionDies(p) \/ Push(p) \/ CiEnds(p) \/ Ages(p)
    <3>1. UNCHANGED <<mode, tick, edits>>
      BY <2>2 DEF SessionEnds, SessionDies, Push, CiEnds, Ages, counters
    <3> QED BY <1>0, <3>1
  <2>3. CASE HumanUnblocks(p)
    BY <1>0, <2>3 DEF HumanUnblocks
  <2> QED BY <2>1, <2>2, <2>3
<1>2. CASE BgLookup(p)
  BY <1>2 DEF BgLookup, BgOver, BgGoes, Spares, TypeOK, outside
<1>3. CASE BgPost(p)
  BY <1>3 DEF BgPost, BgFails, BgOver, BgGoes, Starts, Spares, TypeOK, outside
<1>4. CASE BgAnswer(p)
  <2>1. \E m : memo' = [memo EXCEPT ![p] = m]
    BY <1>4 DEF BgAnswer
  <2>2. memo'[q] = memo[q]
    BY <2>1 DEF TypeOK
  <2>3. BgOver(p) \/ \E at : BgGoes(p, at)
    BY <1>4 DEF BgAnswer
  <2>4. bg'[q] = bg[q]
    BY <2>3 DEF BgOver, BgGoes, TypeOK
  <2>5. UNCHANGED <<label, age, open, head, news, spent>>
    BY <1>4 DEF BgAnswer, outside
  <2> QED BY <1>1, <2>2, <2>4, <2>5 DEF Spares
<1>5. CASE BgBlock(p)
  BY <1>5 DEF BgBlock, Block, BgOver, Spares, TypeOK, outside
<1>6. CASE BgConclude(p)
  <2>1. PICK how \in Outcomes : Relabel(p, "em_andamento", "concluida", how)
    BY <1>6 DEF BgConclude
  <2>2. label'[q] = label[q]
    BY <2>1, RelabelCalm DEF ReviewLabels
  <2>3. q \in news' <=> q \in news
    BY <2>1 DEF Relabel
  <2> QED BY <1>6, <2>2, <2>3 DEF BgConclude, BgOver, Spares, TypeOK
<1>7. CASE BgAddress(p)
  BY <1>7 DEF BgAddress, PostNowait, Starts, BgOver, Spares, TypeOK, outside
<1>8. CASE BgTimesOut(p) \/ SessionDies(p)
  BY <1>8, FaultCounts DEF BgTimesOut, SessionDies
<1>9. CASE SessionEnds(p)
  BY <1>9 DEF SessionEnds, Spares, TypeOK, counters
<1>10. CASE Push(p)
  BY <1>10 DEF Push, Spares, TypeOK, counters
<1>11. CASE CiEnds(p) \/ Ages(p)
  BY <1>11 DEF CiEnds, Ages, Spares, TypeOK, outside, counters
<1>12. CASE HumanUnblocks(p)
  BY <1>12 DEF HumanUnblocks, Spares, TypeOK, outside
<1> QED BY <1>1, <1>2, <1>3, <1>4, <1>5, <1>6, <1>7, <1>8, <1>9, <1>10, <1>11, <1>12
        DEF BgStep


LEMMA JudgeTick ==
  ASSUME TypeOK, ListShape, faults' = 0, NEW p \in Prs, ReconcileJudge(p), NEW q
  PROVE  ListShape' /\ JudgedMerged' /\ TickKeeps(q)
<1>1. tick' = [tick EXCEPT !.point = "judged", !.on = p, !.verdict = Judge(p, p \notin open)]
  BY FaultCounts DEF ReconcileJudge
<1>2. /\ tick.at = "reconcile" /\ tick'.at = "reconcile" /\ tick'.point = "judged" /\ tick'.on = p
      /\ tick'.cand = tick.cand /\ tick'.verdict = Judge(p, p \notin open) /\ open' = open
  BY <1>1 DEF ReconcileJudge, At, TypeOK, Ticks, outside
<1>3. tick'.verdict = "merged" => p \notin open
  BY <1>2 DEF Judge
<1>4. tick'.cand = {} /\ tick'.point = "judged"
  BY <1>2 DEF ListShape
<1> QED BY <1>2, <1>3, <1>4 DEF ListShape, JudgedMerged, TickKeeps, Posts

LEMMA ClaimTick ==
  ASSUME TypeOK, ListShape, faults' = 0, NEW p \in Prs, FreshClaim(p), NEW q
  PROVE  /\ ListShape' /\ JudgedMerged'
         /\ q # p => TickKeeps(q)
         /\ tick.point = "next" /\ p \in tick.cand /\ p \notin tick.prog
         /\ Posts(p)' /\ tick'.cand = tick.cand /\ tick'.prog = tick.prog
         /\ tick'.heads = tick.heads
<1>1. tick' = [tick EXCEPT !.point = "posting", !.on = p]
  BY FaultCounts DEF FreshClaim
<1>2. /\ tick'.at = tick.at /\ tick'.point = "posting" /\ tick'.on = p
      /\ tick'.cand = tick.cand /\ tick'.prog = tick.prog /\ tick'.heads = tick.heads
  BY <1>1 DEF TypeOK, Ticks
<1>3. /\ tick.at = "review" /\ tick.point = "next" /\ p \in tick.cand /\ p \notin tick.prog
  BY DEF FreshClaim, Passes, Target, Done, Eligible
<1> QED BY <1>2, <1>3 DEF ListShape, JudgedMerged, TickKeeps, Posts

\* How the tick goes on after it has looked at p.
LEMMA PrTick ==
  ASSUME TypeOK, ListShape, JudgedMerged, faults' = 0, NEW p \in Prs, PrStep(p), NEW q,
         q # p \/ ~FreshClaim(p)
  PROVE  /\ ListShape' /\ JudgedMerged' /\ TickKeeps(q)
         /\ p \in tick'.cand => p \in tick.cand
<1>0. UNCHANGED open
  BY DEF PrStep, ReapSkip, Reap, ReconcileSkip, ReconcileGone, ReconcileJudge, ReconcileApply,
         Invalidate, BranchGone, CiPending, ClaimAborted, ResumeCeiling, ResumeStart,
         FreshClaim, FreshPost, Classify, outside
<1>1. CASE \/ ReapSkip(p) \/ Reap(p) \/ ReconcileSkip(p) \/ ReconcileGone(p)
           \/ Invalidate(p) \/ Classify(p)
  <2>1. tick' = Leave(p) /\ tick.point = "next"
    BY <1>1 DEF ReapSkip, Reap, ReconcileSkip, ReconcileGone, Invalidate, Classify, At
  <2> QED BY <1>0, <2>1, TickPasses
<1>2. CASE ReconcileApply(p)
  <2>1. tick' = Leave(p) /\ tick.point = "judged"
    BY <1>2 DEF ReconcileApply
  <2> QED BY <1>0, <2>1, TickPasses
<1>3. CASE \/ BranchGone(p) \/ CiPending(p) \/ ClaimAborted(p) \/ ResumeCeiling(p)
           \/ ResumeStart(p) \/ FreshPost(p)
  <2>1. tick' \in {Classifying, IdleTick}
    BY <1>3 DEF BranchGone, CiPending, ClaimAborted, ResumeCeiling, ResumeStart, FreshPost
  <2> QED BY <1>0, <2>1, TickPasses
<1>4. CASE ReconcileJudge(p)
  <2>1. p \notin tick'.cand
    BY <1>4, JudgeTick, FaultCounts DEF ReconcileJudge, At, ListShape, TypeOK, Ticks
  <2> QED BY <1>4, <2>1, JudgeTick
<1>5. CASE FreshClaim(p)
  BY <1>5, ClaimTick
<1> QED BY <1>1, <1>2, <1>3, <1>4, <1>5 DEF PrStep

\* Steps that read the labels, the CI or the ledger, and go on.
LEMMA ReadingCost ==
  ASSUME TypeOK, TypeOK', ListShape, JudgedMerged, faults' = 0, NEW p \in Prs, CostOk(p),
         \/ ReapSkip(p) \/ ReconcileSkip(p) \/ ReconcileGone(p) \/ ReconcileJudge(p)
         \/ CiPending(p) \/ ClaimAborted(p)
  PROVE  CostOk(p)'
<1>0. UNCHANGED open
  BY DEF ReapSkip, ReconcileSkip, ReconcileGone, ReconcileJudge, CiPending, ClaimAborted, outside
<1>1. TickKeeps(p)
  <2>1. CASE ReapSkip(p) \/ ReconcileSkip(p) \/ ReconcileGone(p)
    <3>1. tick' = Leave(p) /\ tick.point = "next"
      BY <2>1 DEF ReapSkip, ReconcileSkip, ReconcileGone, At
    <3> QED BY <1>0, <3>1, TickPasses
  <2>2. CASE CiPending(p) \/ ClaimAborted(p)
    <3>1. tick' \in {Classifying, IdleTick}
      BY <2>2 DEF CiPending, ClaimAborted
    <3> QED BY <1>0, <3>1, TickPasses
  <2> QED BY <2>1, <2>2, JudgeTick
<1>2. /\ UNCHANGED <<mode, label, age, open, head, news, memo, bg, spent, edits>>
  BY DEF ReapSkip, ReconcileSkip, ReconcileGone, ReconcileJudge, CiPending, ClaimAborted,
         outside, counters
<1>3. Spares(p)
  BY <1>2 DEF Spares
<1>4. edits' >= edits
  BY <1>2 DEF TypeOK
<1> QED BY <1>1, <1>2, <1>3, <1>4, SparedCost

\* Steps next to the poll loop that dispatch nothing.
LEMMA CalmCost ==
  ASSUME TypeOK, TypeOK', faults' = 0, NEW p \in Prs, CostOk(p),
         BgLookup(p) \/ SessionEnds(p) \/ CiEnds(p) \/ Ages(p)
  PROVE  CostOk(p)'
<1>0. bg[p] \in Resumes /\ edits \in Nat /\ bg \in [Prs -> Resumes]
  BY DEF TypeOK
<1>1. TickKeeps(p) /\ UNCHANGED <<mode, head, news, label, memo, spent, edits>>
  BY DEF BgLookup, SessionEnds, CiEnds, Ages, TickKeeps, Posts, outside, counters
<1>2. p \in open' => p \in open
  BY DEF BgLookup, SessionEnds, CiEnds, Ages, outside
<1>3. age'[p] = age[p] \/ "reaper" \in mode
  BY DEF BgLookup, SessionEnds, CiEnds, Ages
<1>4. \/ bg'[p].at = bg[p].at /\ bg'[p].head = bg[p].head
      \/ bg[p].at = "lookup" /\ bg'[p].at \in {"none", "posting"} /\ bg'[p].head = bg[p].head
      \/ bg[p].at = "lookup" /\ bg'[p].at = "none"
  <2>1. CASE BgLookup(p)
    <3>1. \/ BgOver(p) \/ BgGoes(p, "posting")
          \/ bg' = [bg EXCEPT ![p].at = "posting", ![p].again = TRUE]
      BY <2>1 DEF BgLookup
    <3>2. bg[p].at = "lookup"
      BY <2>1 DEF BgLookup, BgAt
    <3>3. CASE BgOver(p)
      BY <1>0, <3>2, <3>3 DEF BgOver, NoResume
    <3>4. CASE BgGoes(p, "posting")
      BY <1>0, <3>2, <3>4 DEF BgGoes, Resumes
    <3>5. CASE bg' = [bg EXCEPT ![p].at = "posting", ![p].again = TRUE]
      BY <1>0, <3>2, <3>5 DEF Resumes
    <3> QED BY <3>1, <3>3, <3>4, <3>5
  <2>2. CASE SessionEnds(p)
    <3>1. PICK e : bg' = [bg EXCEPT ![p].end = IF BgAt(p, "running") THEN e ELSE @]
      BY <2>2 DEF SessionEnds
    <3> QED BY <1>0, <3>1 DEF Resumes
  <2>3. CASE CiEnds(p) \/ Ages(p)
    BY <2>3 DEF CiEnds, Ages
  <2> QED BY <2>1, <2>2, <2>3
<1> QED BY <1>0, <1>1, <1>2, <1>3, <1>4, Unmoved


LEMMA ReapLabels ==
  ASSUME TypeOK, faults' = 0, NEW p \in Prs, Reap(p)
  PROVE  \/ label'[p].blocked = TRUE
         \/ /\ label'[p].blocked = label[p].blocked
            /\ label'[p].attempt = label[p].attempt + 1 /\ label'[p].attempt < MaxReaps
<1> DEFINE n == NextCount(label[p].attempt)
           bare == [label[p] EXCEPT !.review = @ \ {"em_andamento"},
                                    !.own = FALSE, !.attempt = 0]
           out == [bare EXCEPT !.blocked = TRUE, !.attempt = MaxReaps]
           again == [bare EXCEPT !.review = @ \cup {"pendente"}, !.attempt = n]
<1>1. \/ Exhausted(n) /\ label' = [label EXCEPT ![p] = out]
      \/ ~Exhausted(n) /\ label' = [label EXCEPT ![p] = again]
  BY FaultCounts DEF Reap
<1>2. \/ label'[p].blocked = TRUE
      \/ /\ label'[p].blocked = label[p].blocked
         /\ label'[p].attempt = label[p].attempt + 1 /\ label'[p].attempt < MaxReaps
  <2>1. label[p] \in Labels /\ label \in [Prs -> Labels] /\ MaxReaps \in Nat
    BY LimitsAssumption DEF TypeOK
  <2>2. out.blocked = TRUE /\ again.blocked = label[p].blocked /\ again.attempt = n
    BY <2>1 DEF Labels
  <2>3. n = label[p].attempt + 1 /\ (~Exhausted(n) => n < MaxReaps)
    BY <2>1, CostTypes DEF NextCount, Exhausted, Sized
  <2>4. label'[p] = out \/ (label'[p] = again /\ ~Exhausted(n))
    <3> HIDE DEF out, again, n
    <3> QED BY <1>1, <2>1
  <2> HIDE DEF out, again, n
  <2> QED BY <2>2, <2>3, <2>4
<1> HIDE DEF n, out, again
<1> QED BY <1>2

\* The reaper: one more attempt, or the block.
LEMMA ReapCost ==
  ASSUME TypeOK, TypeOK', ListShape, JudgedMerged, faults' = 0, NEW p \in Prs, CostOk(p), Reap(p)
  PROVE  CostOk(p)'
<1>1. /\ tick.at = "reap" /\ tick.point = "next" /\ tick' = Leave(p)
      /\ UNCHANGED <<mode, age, open, head, news, memo, bg, edits, spent>>
      /\ age[p] = "old"
  BY DEF Reap, At, outside
<1>2. Sized(p) /\ Sized(p)' /\ "reaper" \in mode
  BY <1>1, CostTypes, CostTypesNext DEF CostOk, FeaturesOk
<1>3. TickKeeps(p)
  BY <1>1, TickPasses
<1>4. p \notin tick.cand /\ p \notin tick'.cand /\ ~Posts(p) /\ ~Posts(p)'
  BY <1>1 DEF ListShape, Posts, Leave, TypeOK, Ticks
<1>5. /\ ~Asks(p)' <=> ~Asks(p)
      /\ ~Runs(p)' <=> ~Runs(p)
      /\ Resumed(p)' = Resumed(p) /\ Fixing(p)' = Fixing(p)
  BY <1>1 DEF Asks, Runs, Resumed, Fixing
<1>7. \/ label'[p].blocked = TRUE
      \/ /\ label'[p].blocked = label[p].blocked
         /\ label'[p].attempt = label[p].attempt + 1 /\ label'[p].attempt < MaxReaps
  BY ReapLabels
<1>8. FeaturesOk(p)' /\ AsListed(p)' /\ HeadsOk(p)'
  <2>1. FeaturesOk(p)'
    BY <1>1, <1>2 DEF CostOk, FeaturesOk
  <2>2. AsListed(p)'
    BY <1>4 DEF AsListed
  <2>3. head'[p] >= head[p]
    BY <1>1, <1>2 DEF Sized
  <2>4. HeadsOk(p)'
    BY <1>1, <1>3, <2>3, HeadsKeep DEF CostOk, Asks, Runs
  <2> QED BY <2>1, <2>2, <2>4
<1>9. FixOk(p)'
  <2>1. spent'[p].fixes + Fixing(p)' <= spent[p].fixes + Fixing(p)
    <3>1. Fixing(p) \in {0, 1}
      BY DEF Fixing, One
    <3> QED BY <1>1, <1>2, <1>5, <3>1 DEF Sized
  <2>2. Closed(p) => Closed(p)'
    BY <1>1, <1>7 DEF Closed
  <2>3. head'[p] >= head[p] /\ edits' >= edits
    BY <1>1, <1>2 DEF Sized
  <2> QED BY <1>1, <1>4, <1>5, <2>1, <2>2, <2>3, FixKeep DEF CostOk
<1>10. RoundOk(p)'
  <2>1. edits' >= edits /\ head'[p] >= head[p] /\ Resumed(p)' >= Resumed(p)
    BY <1>1, <1>2, <1>5, Allowed DEF Sized
  <2>2. CASE label'[p].blocked = TRUE
    <3>1. CASE Over(p)
      BY <1>1, <1>4, <1>5, <2>2, <3>1 DEF Over, Closed, RoundOk, Budget, One
    <3>2. CASE Served(p) \/ GivenUp(p)
      <4>1. spent[p].rounds <= FreshBudget + head[p] + edits + Resumed(p)
        BY <3>2, FreshWithin DEF CostOk
      <4>2. FreshBudget' = FreshBudget
        BY <1>1 DEF FreshBudget
      <4> QED BY <1>1, <1>4, <1>5, <2>2, <4>1, <4>2 DEF GivenUp, RoundOk
    <3> QED BY <3>1, <3>2 DEF CostOk, RoundOk
  <2>3. CASE label'[p].blocked # TRUE
    <3>1. Allowance(p)' >= Allowance(p)
      <4>1. label'[p].attempt = label[p].attempt + 1 /\ head'[p] = head[p]
        BY <1>1, <1>7, <2>3
      <4>2. Allowance(p)' = (label[p].attempt + 1) + Credit(p)' + head[p] + Resumed(p)
        BY <1>5, <4>1, AllowedNext
      <4>3. /\ Allowance(p) = label[p].attempt + Credit(p) + head[p] + Resumed(p)
            /\ Credit(p) \in {0, 1} /\ Resumed(p) \in Nat
        BY Allowed
      <4>4. Credit(p)' \in {0, 1}
        BY AllowedNext
      <4> QED BY <1>2, <4>2, <4>3, <4>4 DEF Sized
    <3> QED BY <1>1, <1>4, <1>5, <1>7, <1>8, <2>1, <2>3, <3>1, RoundKeep DEF CostOk
  <2> QED BY <2>2, <2>3
<1> QED BY <1>8, <1>9, <1>10 DEF CostOk

\* The labels of p are moved and nothing else is: what is granted is kept.
LEMMA RelabelCost ==
  ASSUME TypeOK, TypeOK', NEW p \in Prs, CostOk(p), UNCHANGED <<mode, open, head, bg, edits, spent>>,
         memo'[p] = memo[p], age'[p] = age[p] \/ age'[p] = "young",
         label'[p].blocked = label[p].blocked, label'[p].attempt = label[p].attempt,
         HeadsOk(p)', p \in tick'.cand => p \in tick.cand,
         AsListed(p) => AsListed(p)' /\ Credit(p)' >= Credit(p)
  PROVE  CostOk(p)'
<1>1. Sized(p) /\ Sized(p)'
  BY CostTypes, CostTypesNext
<1>2. /\ Asks(p)' <=> Asks(p)
      /\ Runs(p)' <=> Runs(p)
      /\ Resumed(p)' = Resumed(p) /\ Fixing(p)' = Fixing(p)
  BY DEF Asks, Runs, Resumed, Fixing
<1>3. head'[p] >= head[p] /\ edits' >= edits /\ Resumed(p)' >= Resumed(p)
  BY <1>1, <1>2, Allowed DEF Sized
<1>4. FeaturesOk(p)'
  BY DEF CostOk, FeaturesOk
<1>5. RoundOk(p)'
  <2>1. AsListed(p) => Allowance(p)' >= Allowance(p)
    BY <1>1, <1>2, Allowed, AllowedNext DEF Sized
  <2> QED BY <1>2, <1>3, <2>1, RoundKeep DEF CostOk
<1>6. FixOk(p)'
  <2>1. spent'[p].fixes + Fixing(p)' <= spent[p].fixes + Fixing(p)
    <3>1. Fixing(p) \in {0, 1}
      BY DEF Fixing, One
    <3> QED BY <1>1, <1>2, <3>1 DEF Sized
  <2> QED BY <1>2, <1>3, <2>1, FixKeep DEF CostOk, Closed
<1> QED BY <1>4, <1>5, <1>6 DEF CostOk


\* The memory of p is cleared with its block, its merge or both.
LEMMA ClearCost ==
  ASSUME TypeOK, TypeOK', NEW p \in Prs, CostOk(p), UNCHANGED <<mode, open, head, edits, spent>>,
         memo'[p] = Forgotten, age'[p] = age[p], label'[p].attempt = label[p].attempt,
         Closed(p)', Closed(p) => Closed(p)', TickKeeps(p),
         bg'[p] = bg[p] \/ bg'[p] = NoResume,
         p \in open => label'[p].review = label[p].review,
         p \in tick'.cand => "resume" \in mode /\ ~Asks(p) /\ ~Runs(p)
  PROVE  CostOk(p)'
<1>1. Sized(p) /\ Sized(p)'
  BY CostTypes, CostTypesNext
<1>2. /\ Asks(p)' => Asks(p) /\ bg'[p].head = bg[p].head
      /\ Runs(p)' => Runs(p) /\ bg'[p].head = bg[p].head
      /\ bg'[p].at = "addressing" => bg[p].at = "addressing"
      /\ bg[p].at = "none" => bg'[p].at = "none"
  BY DEF Asks, Runs, NoResume
<1>3. FeaturesOk(p)'
  <2>1. memo'[p].attempt = 0
    BY DEF Forgotten
  <2> QED BY <1>2, <2>1, FeaturesKeep DEF CostOk
<1>4. p \in open' => AsListed(p)'
  BY AsListedKeeps DEF CostOk
<1>5. head'[p] >= head[p] /\ head'[p] = head[p] /\ edits' = edits /\ spent'[p] = spent[p]
  BY <1>1 DEF Sized
<1>6. HeadsOk(p)'
  BY <1>2, <1>5, HeadsKeep DEF CostOk
<1>7. p \in tick'.cand => p \in tick.cand
  BY DEF TickKeeps
<1>8. RoundOk(p)'
  BY <1>2, <1>5, <1>7, RoundClear DEF CostOk
<1>9. FixOk(p)'
  <2>1. Fixing(p) \in {0, 1} /\ Fixing(p)' \in {0, 1} /\ Fixing(p)' <= Fixing(p)
    BY <1>2 DEF Fixing, One
  <2>2. spent'[p].fixes + Fixing(p)' <= spent[p].fixes + Fixing(p)
    BY <1>1, <1>5, <2>1 DEF Sized
  <2> QED BY <1>2, <1>5, <2>2, FixClear DEF CostOk
<1> QED BY <1>3, <1>4, <1>6, <1>8, <1>9 DEF CostOk

LEMMA BlockedLabel ==
  ASSUME TypeOK, faults' = 0, NEW p \in Prs, Block(p)
  PROVE  /\ label'[p].blocked = TRUE /\ label'[p].review = label[p].review
         /\ label'[p].attempt = label[p].attempt /\ memo'[p] = Forgotten
<1>1. label' = [label EXCEPT ![p].blocked = TRUE] /\ memo' = [memo EXCEPT ![p] = Forgotten]
  BY FaultCounts DEF Block
<1>2. label \in [Prs -> Labels] /\ label[p] \in Labels /\ memo \in [Prs -> Memos]
  BY DEF TypeOK
<1> QED BY <1>1, <1>2 DEF Labels

LEMMA MovedLabel ==
  ASSUME TypeOK, faults' = 0, NEW p \in Prs, NEW from \in ReviewLabels, NEW to \in ReviewLabels,
         NEW how \in Outcomes, Relabel(p, from, to, how)
  PROVE  /\ label'[p].review = Moved(label[p].review, from, to)
         /\ label'[p].blocked = label[p].blocked /\ label'[p].attempt = label[p].attempt
         /\ p \in news' <=> p \in news /\ to # "concluida"
<1>1. how = "moved"
  BY FaultCounts DEF Relabel
<1>2. label' = [label EXCEPT ![p].review = Moved(@, from, to)]
  BY <1>1 DEF Relabel
<1>3. label \in [Prs -> Labels] /\ label[p] \in Labels
  BY DEF TypeOK
<1>4. p \in news' <=> p \in news /\ to # "concluida"
  BY <1>1 DEF Relabel
<1> QED BY <1>2, <1>3, <1>4 DEF Labels

\* reconcile_review_prs blocks the PR, or learns that it was merged or that the
\* review was delivered.
LEMMA ApplyCost ==
  ASSUME TypeOK, TypeOK', ListShape, JudgedMerged, faults' = 0, NEW p \in Prs, CostOk(p),
         ReconcileApply(p)
  PROVE  CostOk(p)'
<1>1. /\ tick.at = "reconcile" /\ tick.point = "judged" /\ tick.on = p /\ tick' = Leave(p)
      /\ UNCHANGED <<mode, age, open, head, bg, edits, spent>>
  BY DEF ReconcileApply
<1>2. TickKeeps(p)
  BY <1>1, TickPasses
<1>3. p \notin tick.cand /\ p \notin tick'.cand /\ ~Posts(p) /\ ~Posts(p)'
  BY <1>1 DEF ListShape, Posts, Leave, TypeOK, Ticks
<1>4. CASE tick.verdict = "blocked"
  <2>1. Block(p)
    BY <1>4 DEF ReconcileApply
  <2>2. /\ label'[p].blocked = TRUE /\ label'[p].review = label[p].review
        /\ label'[p].attempt = label[p].attempt /\ memo'[p] = Forgotten
    BY <2>1, BlockedLabel
  <2> QED BY <1>1, <1>2, <1>3, <2>2, ClearCost DEF Closed
<1>5. CASE tick.verdict # "blocked"
  <2>1. PICK how \in Outcomes : Relabel(p, "em_andamento", "concluida", how)
    BY <1>5 DEF ReconcileApply
  <2>2. /\ label'[p].review = Moved(label[p].review, "em_andamento", "concluida")
        /\ label'[p].blocked = label[p].blocked /\ label'[p].attempt = label[p].attempt
        /\ p \notin news'
    BY <2>1, MovedLabel DEF ReviewLabels
  <2>3. CASE tick.verdict = "merged"
    <3>1. p \notin open /\ memo'[p] = Forgotten
      BY <1>1, <1>5, <2>3 DEF ReconcileApply, JudgedMerged, TypeOK
    <3> QED BY <1>1, <1>2, <1>3, <2>2, <3>1, ClearCost DEF Closed
  <2>4. CASE tick.verdict # "merged"
    <3>1. memo'[p] = memo[p]
      BY <1>5, <2>4 DEF ReconcileApply
    <3>2. Credit(p)' = 1 /\ Credit(p) \in {0, 1}
      BY <2>2 DEF Credit, One, Moved
    <3>3. AsListed(p)'
      BY <1>3 DEF AsListed
    <3>4. HeadsOk(p)'
      <4>1. head'[p] >= head[p]
        BY <1>1, CostTypes DEF Sized
      <4> QED BY <1>1, <1>2, <3>1, <4>1, HeadsKeep DEF CostOk, Asks, Runs
    <3> QED BY <1>1, <1>3, <2>2, <3>1, <3>2, <3>3, <3>4, RelabelCost
  <2> QED BY <2>3, <2>4
<1> QED BY <1>4, <1>5

\* Commits put a PR back, and a new PR is marked.
LEMMA MarkCost ==
  ASSUME TypeOK, TypeOK', ListShape, JudgedMerged, faults' = 0, NEW p \in Prs, CostOk(p),
         Invalidate(p) \/ Classify(p)
  PROVE  CostOk(p)'
<1>1. /\ tick.at \in {"review", "classify"} /\ tick.point = "next" /\ tick' = Leave(p)
      /\ UNCHANGED <<mode, age, open, head, memo, bg, edits, spent>>
  BY DEF Invalidate, Classify, At, outside
<1>2. TickKeeps(p)
  BY <1>1, TickPasses
<1>3. ~Posts(p) /\ ~Posts(p)' /\ tick'.cand = tick.cand /\ tick'.prog = tick.prog
  BY <1>1 DEF Posts, Leave, TypeOK, Ticks
<1>4. HeadsOk(p)'
  <2>1. head'[p] >= head[p]
    BY <1>1, CostTypes DEF Sized
  <2> QED BY <1>1, <1>2, <2>1, HeadsKeep DEF CostOk, Asks, Runs
<1>5. CASE UNCHANGED label /\ (p \in news' <=> p \in news)
  <2>1. Spares(p) /\ edits' >= edits
    BY <1>1, <1>5, CostTypes DEF Spares, Sized
  <2> QED BY <1>1, <1>2, <2>1, SparedCost
<1>6. CASE Invalidate(p) /\ HasNews(p) /\ Relabel(p, "concluida", "pendente", "moved")
  <2>1. /\ label'[p].review = Moved(label[p].review, "concluida", "pendente")
        /\ label'[p].blocked = label[p].blocked /\ label'[p].attempt = label[p].attempt
        /\ p \in news' /\ p \in news
    BY <1>6, MovedLabel DEF ReviewLabels, Outcomes, HasNews
  <2>2. Credit(p)' = Credit(p) /\ Credit(p) \in {0, 1}
    BY <1>3, <2>1 DEF Credit, One, Moved
  <2>3. AsListed(p) => AsListed(p)'
    BY <1>3, <2>1 DEF AsListed, Moved
  <2> QED BY <1>1, <1>3, <1>4, <2>1, <2>2, <2>3, RelabelCost
<1>7. CASE /\ Classify(p)
           /\ label[p] = [review |-> {}, blocked |-> FALSE, own |-> FALSE, attempt |-> 0]
           /\ label' = [label EXCEPT ![p].review = {"pendente"}]
  <2>1. label \in [Prs -> Labels] /\ label[p] \in Labels
    BY DEF TypeOK
  <2>2. /\ label'[p].review = {"pendente"} /\ label[p].review = {}
        /\ label'[p].blocked = label[p].blocked /\ label'[p].attempt = label[p].attempt
    BY <1>7, <2>1 DEF Labels
  <2>3. Credit(p)' = 0 /\ Credit(p) = 0
    BY <2>2 DEF Credit, One
  <2>4. AsListed(p)'
    BY <1>3, <2>2 DEF AsListed
  <2> QED BY <1>1, <1>3, <1>4, <2>2, <2>3, <2>4, RelabelCost
<1> QED BY <1>5, <1>6, <1>7, FaultCounts DEF Invalidate, Classify, outside


\* The branch is gone, or the resumes are used up.
LEMMA EndsCost ==
  ASSUME TypeOK, TypeOK', ListShape, JudgedMerged, faults' = 0, NEW p \in Prs, CostOk(p),
         BranchGone(p) \/ ResumeCeiling(p)
  PROVE  CostOk(p)'
<1>1. /\ tick' = Classifying
      /\ UNCHANGED <<mode, age, open, head, bg, edits, spent>>
  BY DEF BranchGone, ResumeCeiling, outside
<1>2. TickKeeps(p) /\ p \notin tick'.cand
  <2>1. TickKeeps(p)
    BY <1>1, TickPasses
  <2>2. tick'.cand = {}
    BY <1>1, IdleType DEF Classifying, IdleTick, Ticks
  <2> QED BY <2>1, <2>2
<1>3. /\ label'[p].blocked = TRUE /\ label'[p].review = label[p].review
      /\ label'[p].attempt = label[p].attempt /\ memo'[p] = Forgotten
  <2>1. CASE BranchGone(p)
    BY <2>1, BlockedLabel DEF BranchGone
  <2>2. CASE ResumeCeiling(p)
    <3>1. label' = [label EXCEPT ![p].own = TRUE, ![p].blocked = TRUE]
      BY <2>2, FaultCounts DEF ResumeCeiling
    <3>2. label \in [Prs -> Labels] /\ label[p] \in Labels /\ memo \in [Prs -> Memos]
      BY DEF TypeOK
    <3> QED BY <2>2, <3>1, <3>2 DEF ResumeCeiling, Labels
  <2> QED BY <2>1, <2>2
<1> QED BY <1>1, <1>2, <1>3, ClearCost DEF Closed

\* A resume sets out from the listing: the candidate becomes the resume.
LEMMA SetOutCost ==
  ASSUME TypeOK, TypeOK', ListShape, JudgedMerged, faults' = 0, NEW p \in Prs, CostOk(p),
         ResumeStart(p)
  PROVE  CostOk(p)'
<1>1. /\ tick' = Classifying /\ p \in tick.cand /\ p \in tick.prog
      /\ tick.at = "review" /\ tick.point = "next" /\ "resume" \in mode /\ bg[p].at = "none"
      /\ UNCHANGED <<mode, age, open, head, news, memo, edits, spent>>
  BY DEF ResumeStart, Passes, Target, Eligible, Done, outside, counters
<1>2. tick'.cand = {} /\ tick'.point = "next"
  BY <1>1, IdleType DEF Classifying, IdleTick, Ticks
<1>3. Sized(p) /\ Sized(p)'
  BY CostTypes, CostTypesNext
<1>4. bg'[p].at = "lookup" /\ bg'[p].head = tick.heads[p]
  <2>1. bg' = [bg EXCEPT ![p] = [NoResume EXCEPT !.at = "lookup", !.head = tick.heads[p]]]
    BY DEF ResumeStart
  <2>2. bg'[p] = [NoResume EXCEPT !.at = "lookup", !.head = tick.heads[p]]
    BY <2>1 DEF TypeOK
  <2>3. NoResume \in Resumes
    BY RestTypes
  <2> QED BY <2>2, <2>3 DEF Resumes
<1>5. /\ label'[p].review = label[p].review /\ label'[p].blocked = label[p].blocked
      /\ label'[p].attempt = label[p].attempt
  <2>1. label' = [label EXCEPT ![p].own = TRUE]
    BY DEF ResumeStart
  <2>2. label \in [Prs -> Labels] /\ label[p] \in Labels
    BY DEF TypeOK
  <2> QED BY <2>1, <2>2 DEF Labels
<1>6. ~Posts(p) /\ ~Posts(p)' /\ p \notin tick'.cand
  BY <1>1, <1>2 DEF Posts
<1>7. ~Asks(p) /\ ~Runs(p) /\ Asks(p)' /\ ~Runs(p)'
  BY <1>1, <1>4 DEF Asks, Runs
<1>8. FeaturesOk(p)'
  BY <1>1, <1>5 DEF CostOk, FeaturesOk
<1>9. AsListed(p)'
  BY <1>6 DEF AsListed
<1>10. HeadsOk(p)'
  BY <1>1, <1>3, <1>4, <1>6, <1>7 DEF CostOk, HeadsOk
<1>11. Credit(p)' = Credit(p)
  BY <1>1, <1>5, <1>6 DEF Credit
<1>12. Resumed(p)' = Resumed(p)
  BY <1>1, <1>7 DEF Resumed, One
<1>13. RoundOk(p)'
  <2>1. CASE Served(p)
    BY <1>1, <1>5, <1>9, <1>11, <1>12, <2>1 DEF Served, RoundOk
  <2>2. CASE GivenUp(p)
    BY <1>1, <2>2 DEF GivenUp
  <2>3. CASE Over(p)
    <3>1. Budget' = Budget
      BY <1>1 DEF Budget
    <3>2. One(Asks(p)') + One(p \in tick'.cand) = One(Asks(p)) + One(p \in tick.cand)
      BY <1>1, <1>6, <1>7 DEF One
    <3>3. /\ One(Asks(p)) \in {0, 1} /\ One(p \in tick.cand) \in {0, 1}
          /\ One(Asks(p)') \in {0, 1} /\ One(p \in tick'.cand) \in {0, 1}
      BY DEF One
    <3>4. spent[p].rounds + One(Asks(p)') + One(p \in tick'.cand) <= Budget + head[p] + edits
      BY <1>3, <2>3, <3>2, <3>3, BudgetType DEF Over, Sized
    <3>5. Closed(p)'
      BY <1>1, <1>5, <2>3 DEF Over, Closed
    <3> QED BY <1>1, <3>1, <3>4, <3>5 DEF Over, RoundOk
  <2> QED BY <2>1, <2>2, <2>3 DEF CostOk, RoundOk
<1>14. FixOk(p)'
  <2>1. Fixing(p)' = Fixing(p)
    BY <1>1, <1>4 DEF Fixing
  <2>2. CASE FixServed(p)
    BY <1>1, <2>1, <2>2 DEF FixServed, FixOk, FixesSoFar
  <2>3. CASE FixOver(p)
    <3>1. /\ Closed(p)'
          /\ One(Asks(p)' \/ Runs(p)') + One(p \in tick'.cand)
               = One(Asks(p) \/ Runs(p)) + One(p \in tick.cand)
      BY <1>1, <1>5, <1>6, <1>7, <2>3 DEF FixOver, Closed, One
    <3> QED BY <1>1, <2>1, <2>3, <3>1 DEF FixOver, FixOk
  <2> QED BY <2>2, <2>3 DEF CostOk, FixOk
<1> QED BY <1>8, <1>9, <1>10, <1>13, <1>14 DEF CostOk

\* A candidate that was listed without a claim is claimed.
LEMMA ClaimCost ==
  ASSUME TypeOK, TypeOK', ListShape, JudgedMerged, faults' = 0, NEW p \in Prs, CostOk(p),
         FreshClaim(p)
  PROVE  CostOk(p)'
<1>1. /\ tick.point = "next" /\ p \in tick.cand /\ p \notin tick.prog
      /\ Posts(p)' /\ tick'.cand = tick.cand /\ tick'.prog = tick.prog
  BY ClaimTick
<1>2. UNCHANGED <<mode, open, head, news, memo, bg, edits, spent>> /\ age'[p] = "young"
  BY DEF FreshClaim, outside, TypeOK
<1>3. /\ label'[p].review = Moved(label[p].review, "pendente", "em_andamento")
      /\ label'[p].blocked = label[p].blocked /\ label'[p].attempt = label[p].attempt
  <2>1. label' = [label EXCEPT ![p].own = TRUE,
                               ![p].review = Moved(@, "pendente", "em_andamento")]
    BY FaultCounts DEF FreshClaim
  <2>2. label \in [Prs -> Labels] /\ label[p] \in Labels
    BY DEF TypeOK
  <2> QED BY <2>1, <2>2 DEF Labels
<1>4. AsListed(p) => AsListed(p)' /\ Credit(p)' = 0 /\ Credit(p) = 0
  <2>1. SUFFICES ASSUME AsListed(p) PROVE AsListed(p)' /\ Credit(p)' = 0 /\ Credit(p) = 0
    OBVIOUS
  <2>2. label[p].review \subseteq {"pendente"}
    BY <1>1, <2>1 DEF AsListed, Posts
  <2>3. label'[p].review = {"em_andamento"}
    BY <1>3, <2>2 DEF Moved
  <2> QED BY <1>1, <2>2, <2>3 DEF AsListed, Credit, One
<1>5. HeadsOk(p)'
  BY <1>1, <1>2 DEF CostOk, HeadsOk, Asks, Runs
<1> QED BY <1>1, <1>2, <1>3, <1>4, <1>5, RelabelCost


LEMMA StartsSpends ==
  ASSUME TypeOK, NEW p \in Prs, NEW kind \in {"review", "address"}, NEW by, Starts(p, kind, by)
  PROVE  /\ kind = "review" =>
              spent'[p].rounds <= spent[p].rounds + 1 /\ spent'[p].fixes = spent[p].fixes
         /\ kind = "address" =>
              spent'[p].fixes <= spent[p].fixes + 1 /\ spent'[p].rounds = spent[p].rounds
<1>1. spent \in [Prs -> [rounds : 0..MaxSpent, fixes : 0..MaxSpent]] /\ MaxSpent \in Nat
  BY SpentNat DEF TypeOK
<1>2. \A n \in 0..MaxSpent : More(n) <= n + 1
  BY <1>1 DEF More
<1>3. spent[p] \in [rounds : 0..MaxSpent, fixes : 0..MaxSpent]
  BY <1>1
<1>4. CASE kind = "review"
  <2>1. spent' = [spent EXCEPT ![p].rounds = More(@)]
    BY <1>4 DEF Starts
  <2>2. spent'[p].rounds = More(spent[p].rounds) /\ spent'[p].fixes = spent[p].fixes
    BY <1>1, <1>3, <2>1
  <2> QED BY <1>2, <1>3, <1>4, <2>2
<1>5. CASE kind = "address"
  <2>1. spent' = [spent EXCEPT ![p].fixes = More(@)]
    BY <1>5 DEF Starts
  <2>2. spent'[p].fixes = More(spent[p].fixes) /\ spent'[p].rounds = spent[p].rounds
    BY <1>1, <1>3, <2>1
  <2> QED BY <1>2, <1>3, <1>5, <2>2
<1> QED BY <1>4, <1>5

\* The fresh review is dispatched, which its claim is the credit for.
LEMMA PostCost ==
  ASSUME TypeOK, TypeOK', ListShape, JudgedMerged, faults' = 0, NEW p \in Prs, CostOk(p),
         FreshPost(p)
  PROVE  CostOk(p)'
<1>1. /\ tick' = Classifying /\ Posts(p) /\ p \in tick.cand
      /\ UNCHANGED <<mode, label, age, open, head, news, memo, bg, edits>>
  BY DEF FreshPost, Posts, ListShape, outside
<1>2. tick'.cand = {} /\ tick'.point = "next"
  BY <1>1, IdleType DEF Classifying, IdleTick, Ticks
<1>3. Sized(p) /\ Sized(p)' /\ TickKeeps(p)
  BY <1>1, TickPasses, CostTypes, CostTypesNext
<1>4. CASE UNCHANGED spent
  <2>1. Spares(p) /\ edits' >= edits
    BY <1>1, <1>3, <1>4 DEF Spares, Sized
  <2> QED BY <1>1, <1>3, <2>1, SparedCost
<1>5. CASE Starts(p, "review", "ledger")
  <2>1. spent'[p].rounds <= spent[p].rounds + 1 /\ spent'[p].fixes = spent[p].fixes
    BY <1>5, StartsSpends
  <2>2. ~Posts(p)' /\ p \notin tick'.cand
    BY <1>2 DEF Posts
  <2>3. /\ Asks(p)' <=> Asks(p)
        /\ Runs(p)' <=> Runs(p)
        /\ Resumed(p)' = Resumed(p) /\ Fixing(p)' = Fixing(p)
    BY <1>1 DEF Asks, Runs, Resumed, Fixing
  <2>4. FeaturesOk(p)' /\ AsListed(p)'
    BY <1>1, <2>2 DEF CostOk, FeaturesOk, AsListed
  <2>5. head'[p] >= head[p] /\ edits' >= edits
    BY <1>1, <1>3 DEF Sized
  <2>6. HeadsOk(p)'
    BY <1>1, <1>3, <2>3, <2>5, HeadsKeep DEF CostOk
  <2>7. RoundOk(p)'
    <3>1. CASE Served(p)
      <4>1. Credit(p)' = 1 /\ Credit(p) = 0
        BY <1>1, <2>2, <3>1 DEF Served, AsListed, Credit, One
      <4>2. spent'[p].rounds <= label[p].attempt + 1 + head[p] + Resumed(p)
        BY <1>3, <2>1, <3>1, <4>1, Allowed DEF Served, Sized
      <4> QED BY <1>1, <2>3, <2>4, <3>1, <4>1, <4>2 DEF Served, RoundOk
    <3>2. CASE GivenUp(p)
      BY <1>1, <3>2 DEF GivenUp
    <3>3. CASE Over(p)
      <4>1. One(p \in tick'.cand) = 0 /\ One(p \in tick.cand) = 1 /\ One(Asks(p)') = One(Asks(p))
        BY <1>1, <2>2, <2>3 DEF One
      <4>2. One(Asks(p)) \in {0, 1}
        BY DEF One
      <4>3. spent'[p].rounds + One(Asks(p)) + 0 <= Budget + head[p] + edits
        BY <1>3, <2>1, <3>3, <4>1, <4>2, BudgetType DEF Over, Sized
      <4>4. Budget' = Budget /\ Closed(p)'
        BY <1>1, <3>3 DEF Budget, Over, Closed
      <4> QED BY <1>1, <4>1, <4>3, <4>4 DEF Over, RoundOk
    <3> QED BY <3>1, <3>2, <3>3 DEF CostOk, RoundOk
  <2>8. FixOk(p)'
    <3>1. spent'[p].fixes + Fixing(p)' <= spent[p].fixes + Fixing(p)
      <4>1. Fixing(p) \in {0, 1}
        BY DEF Fixing, One
      <4> QED BY <1>3, <2>1, <2>3, <4>1 DEF Sized
    <3> QED BY <1>1, <2>2, <2>3, <2>5, <3>1, FixKeep DEF CostOk, Closed
  <2> QED BY <2>4, <2>6, <2>7, <2>8 DEF CostOk
<1> QED BY <1>4, <1>5, FaultCounts DEF FreshPost, PostNowait

\* The resume is dispatched, or refused because a session is alive.
LEMMA ResumePostCost ==
  ASSUME TypeOK, TypeOK', faults' = 0, NEW p \in Prs, CostOk(p), BgPost(p)
  PROVE  CostOk(p)'
<1>1. /\ bg[p].at = "posting" /\ UNCHANGED <<mode, label, age, open, head, news, tick, edits>>
  BY DEF BgPost, BgAt, outside
<1>2. Sized(p) /\ Sized(p)' /\ TickKeeps(p) /\ bg \in [Prs -> Resumes] /\ memo \in [Prs -> Memos]
  BY <1>1, CostTypes, CostTypesNext DEF TickKeeps, Posts, TypeOK
<1>3. Asks(p) /\ ~Runs(p) /\ "resume" \in mode /\ Fixing(p) = 0
  BY <1>1 DEF Asks, Runs, Fixing, One, CostOk, FeaturesOk
<1>4. head'[p] >= head[p] /\ edits' >= edits
  BY <1>1, <1>2 DEF Sized
<1>5. AsListed(p) => AsListed(p)' /\ Credit(p)' = Credit(p)
  BY <1>1 DEF AsListed, Posts, Credit
<1>6. CASE /\ \E by : Starts(p, "review", by)
           /\ BgGoes(p, "running") /\ UNCHANGED memo
  <2>1. spent'[p].rounds <= spent[p].rounds + 1 /\ spent'[p].fixes = spent[p].fixes
    BY <1>6, StartsSpends
  <2>2. bg'[p].at = "running" /\ bg'[p].head = bg[p].head
    BY <1>2, <1>6 DEF BgGoes, Resumes
  <2>3. ~Asks(p)' /\ Runs(p)' /\ Fixing(p)' = 0
    BY <2>2 DEF Asks, Runs, Fixing, One
  <2>4. Resumed(p)' = Resumed(p) + 1
    BY <1>2, <1>3, <1>6, <2>3 DEF Resumed, One, Sized
  <2>5. FeaturesOk(p)'
    BY <1>1, <1>3, <1>6 DEF CostOk, FeaturesOk
  <2>6. HeadsOk(p)'
    BY <1>2, <1>3, <1>4, <1>6, <2>2, HeadsKeep DEF CostOk
  <2>7. RoundOk(p)'
    <3>1. CASE Served(p)
      <4>1. spent'[p].rounds <= label[p].attempt + Credit(p) + head[p] + (Resumed(p) + 1)
        BY <1>2, <2>1, <3>1, Allowed DEF Served, Sized
      <4> QED BY <1>1, <1>5, <2>4, <3>1, <4>1 DEF Served, RoundOk
    <3>2. CASE GivenUp(p)
      <4>1. spent'[p].rounds <= FreshBudget + head[p] + edits + (Resumed(p) + 1)
        BY <1>2, <2>1, <3>2, Allowed, BudgetType DEF GivenUp, Sized
      <4>2. FreshBudget' = FreshBudget
        BY <1>1 DEF FreshBudget
      <4> QED BY <1>1, <2>4, <3>2, <4>1, <4>2 DEF GivenUp, RoundOk
    <3>3. CASE Over(p)
      <4>1. One(Asks(p)) = 1 /\ One(Asks(p)') = 0 /\ One(p \in tick'.cand) = One(p \in tick.cand)
        BY <1>1, <1>3, <2>3 DEF One
      <4>2. One(p \in tick.cand) \in {0, 1}
        BY DEF One
      <4>3. spent'[p].rounds + 0 + One(p \in tick.cand) <= Budget + head[p] + edits
        BY <1>2, <2>1, <3>3, <4>1, <4>2, BudgetType DEF Over, Sized
      <4>4. Budget' = Budget /\ Closed(p)'
        BY <1>1, <3>3 DEF Budget, Over, Closed
      <4> QED BY <1>1, <4>1, <4>3, <4>4 DEF Over, RoundOk
    <3> QED BY <3>1, <3>2, <3>3 DEF CostOk, RoundOk
  <2>8. FixOk(p)'
    <3>1. spent'[p].fixes + Fixing(p)' <= spent[p].fixes + Fixing(p)
      BY <1>2, <1>3, <2>1, <2>3 DEF Sized
    <3> QED BY <1>1, <1>3, <1>4, <1>6, <3>1, FixKeep DEF CostOk, Closed
  <2> QED BY <1>1, <1>5, <2>5, <2>6, <2>7, <2>8 DEF CostOk
<1>7. CASE BgFails(p) /\ UNCHANGED spent
  <2>1. PICK m \in Absorbed(p) : memo' = [memo EXCEPT ![p] = m]
    BY <1>7 DEF BgFails
  <2>2. PICK n \in (memo[p].attempt + 1)..MaxAttempts : m = [memo[p] EXCEPT !.attempt = n]
    BY <2>1 DEF Absorbed
  <2>3. /\ memo'[p].attempt = n /\ memo'[p].sha = memo[p].sha /\ memo'[p].address = memo[p].address
    BY <1>2, <2>1, <2>2 DEF Memos, Sized
  <2>4. bg'[p].at = "none"
    BY <1>2, <1>7 DEF BgFails, BgOver, NoResume
  <2>5. ~Asks(p)' /\ ~Runs(p)' /\ Fixing(p)' = 0
    BY <2>4 DEF Asks, Runs, Fixing, One
  <2>6. Resumed(p)' >= Resumed(p)
    <3>1. n \in Int /\ n >= memo[p].attempt + 1
      BY <1>2, <2>2, LimitsAssumption DEF Sized
    <3>2. Resumed(p)' = n + 0 /\ Resumed(p) = memo[p].attempt + 0
      BY <1>3, <2>3, <2>5 DEF Resumed, One
    <3> QED BY <1>2, <3>1, <3>2 DEF Sized
  <2>7. FeaturesOk(p)'
    BY <1>1, <1>3 DEF CostOk, FeaturesOk
  <2>8. HeadsOk(p)'
    BY <1>2, <1>4, <2>3, <2>5, HeadsKeep DEF CostOk
  <2>9. RoundOk(p)'
    <3>1. AsListed(p) => Allowance(p)' >= Allowance(p)
      <4>1. SUFFICES ASSUME AsListed(p) PROVE Allowance(p)' >= Allowance(p)
        OBVIOUS
      <4>2. Allowance(p)' = label[p].attempt + Credit(p) + head[p] + Resumed(p)'
        BY <1>1, <1>5, <4>1 DEF Allowance
      <4>3. /\ Allowance(p) = label[p].attempt + Credit(p) + head[p] + Resumed(p)
            /\ Credit(p) \in {0, 1} /\ Resumed(p) \in Nat
        BY Allowed
      <4>4. Resumed(p)' \in Nat
        BY AllowedNext
      <4> QED BY <1>2, <2>6, <4>2, <4>3, <4>4 DEF Sized
    <3> QED BY <1>1, <1>4, <1>5, <1>7, <2>5, <2>6, <3>1, RoundKeep DEF CostOk
  <2>10. FixOk(p)'
    <3>1. spent'[p].fixes + Fixing(p)' <= spent[p].fixes + Fixing(p)
      BY <1>2, <1>3, <1>7, <2>5 DEF Sized
    <3> QED BY <1>1, <1>4, <2>3, <2>5, <3>1, FixKeep DEF CostOk, Closed
  <2> QED BY <1>1, <1>5, <2>7, <2>8, <2>9, <2>10 DEF CostOk
<1>8. \/ /\ \E by : Starts(p, "review", by)
         /\ BgGoes(p, "running") /\ UNCHANGED memo
      \/ BgFails(p) /\ UNCHANGED spent
  BY DEF BgPost
<1> QED BY <1>6, <1>7, <1>8


\* A resume that has its answer, or whose address session is sent, has cost
\* what it was counted for.
LEMMA AnswerRound ==
  ASSUME TypeOK, TypeOK', NEW p \in Prs, CostOk(p),
         UNCHANGED <<mode, label, open, head, news, tick, edits>>,
         ~Asks(p) /\ ~Asks(p)' /\ ~Runs(p)',
         \/ Runs(p) /\ memo'[p].attempt >= memo[p].attempt + 1
         \/ ~Runs(p) /\ memo'[p].attempt = memo[p].attempt,
         spent'[p].rounds = spent[p].rounds
  PROVE  RoundOk(p)' /\ (AsListed(p) => AsListed(p)')
<1>1. Sized(p) /\ Sized(p)'
  BY CostTypes, CostTypesNext
<1>2. Resumed(p)' >= Resumed(p)
  <2>1. Resumed(p)' = memo'[p].attempt + 0
    BY DEF Resumed, One
  <2>2. CASE Runs(p)
    <3>1. Resumed(p) = memo[p].attempt + 1
      BY <2>2 DEF Resumed, One
    <3> QED BY <1>1, <2>1, <2>2, <3>1 DEF Sized
  <2>3. CASE ~Runs(p)
    <3>1. Resumed(p) = memo[p].attempt + 0
      BY <2>3 DEF Resumed, One
    <3> QED BY <1>1, <2>1, <2>3, <3>1 DEF Sized
  <2> QED BY <2>2, <2>3
<1>3. AsListed(p) => AsListed(p)' /\ Credit(p)' = Credit(p)
  BY DEF AsListed, Posts, Credit
<1>4. AsListed(p) => Allowance(p)' >= Allowance(p)
  <2>1. SUFFICES ASSUME AsListed(p) PROVE Allowance(p)' >= Allowance(p)
    OBVIOUS
  <2>2. Allowance(p)' = label[p].attempt + Credit(p) + head[p] + Resumed(p)'
    BY <1>3, <2>1 DEF Allowance
  <2>3. /\ Allowance(p) = label[p].attempt + Credit(p) + head[p] + Resumed(p)
        /\ Credit(p) \in {0, 1} /\ Resumed(p) \in Nat
    BY Allowed
  <2>4. Resumed(p)' \in Nat
    BY AllowedNext
  <2> QED BY <1>1, <1>2, <2>2, <2>3, <2>4 DEF Sized
<1>5. head'[p] >= head[p] /\ edits' >= edits
  BY <1>1 DEF Sized
<1> QED BY <1>2, <1>3, <1>4, <1>5, RoundKeep DEF CostOk

\* The answer of a resume.
LEMMA AnswerCost ==
  ASSUME TypeOK, TypeOK', faults' = 0, NEW p \in Prs, CostOk(p), BgAnswer(p)
  PROVE  CostOk(p)'
<1>1. /\ bg[p].at = "running"
      /\ UNCHANGED <<mode, label, age, open, head, news, tick, edits, spent>>
  BY DEF BgAnswer, BgAt, outside, counters
<1>2. Sized(p) /\ Sized(p)' /\ TickKeeps(p) /\ bg \in [Prs -> Resumes] /\ memo \in [Prs -> Memos]
  BY <1>1, CostTypes, CostTypesNext DEF TickKeeps, Posts, TypeOK
<1>3. ~Asks(p) /\ Runs(p) /\ "resume" \in mode /\ Fixing(p) = 0
  BY <1>1 DEF Asks, Runs, Fixing, One, CostOk, FeaturesOk
<1>4. PICK m \in Absorbed(p) :
        \/ /\ memo' = [memo EXCEPT ![p] = m]
           /\ BgOver(p) \/ BgGoes(p, "blocking") \/ BgGoes(p, "concluding")
        \/ /\ SameHead(p) /\ m.address < MaxAddress
           /\ memo' = [memo EXCEPT ![p] = CountedFix(m)] /\ BgGoes(p, "addressing")
        \/ /\ ~SameHead(p)
           /\ memo' = [memo EXCEPT ![p] = [m EXCEPT !.address = 0, !.sha = bg[p].head]]
           /\ BgOver(p)
  BY DEF BgAnswer
<1>5. PICK n \in (memo[p].attempt + 1)..MaxAttempts : m = [memo[p] EXCEPT !.attempt = n]
  BY DEF Absorbed
<1>6. /\ m \in Memos /\ m.attempt = n /\ m.sha = memo[p].sha /\ m.address = memo[p].address
      /\ n \in Int /\ n >= memo[p].attempt + 1
  BY <1>2, <1>5, AbsorbedType, LimitsAssumption DEF Memos, Sized
<1>7. \/ /\ memo'[p] = m /\ bg'[p].at \in {"none", "blocking", "concluding"}
      \/ /\ SameHead(p)
         /\ memo'[p] = CountedFix(m) /\ bg'[p].at = "addressing"
      \/ /\ ~SameHead(p)
         /\ memo'[p] = [m EXCEPT !.address = 0, !.sha = bg[p].head] /\ bg'[p].at = "none"
  BY <1>2, <1>4 DEF BgOver, BgGoes, NoResume, Resumes
<1>8. memo'[p].attempt = n /\ ~Asks(p)' /\ ~Runs(p)'
  BY <1>6, <1>7 DEF CountedFix, Memos, Asks, Runs
<1>9. memo'[p].attempt >= memo[p].attempt + 1
  BY <1>6, <1>8
<1>10. RoundOk(p)' /\ (AsListed(p) => AsListed(p)')
  BY <1>1, <1>3, <1>8, <1>9, AnswerRound
<1>11. FeaturesOk(p)'
  BY <1>1, <1>3 DEF CostOk, FeaturesOk
<1>12. head'[p] >= head[p] /\ edits' >= edits
  BY <1>1, <1>2 DEF Sized
<1>13. CASE memo'[p] = m /\ bg'[p].at \in {"none", "blocking", "concluding"}
  <2>1. memo'[p].sha = memo[p].sha /\ memo'[p].address = memo[p].address /\ Fixing(p)' = 0
    BY <1>6, <1>13 DEF Fixing, One
  <2>2. HeadsOk(p)'
    BY <1>2, <1>8, <1>12, <2>1, HeadsKeep DEF CostOk
  <2>3. spent'[p].fixes + Fixing(p)' <= spent[p].fixes + Fixing(p)
    BY <1>1, <1>2, <1>3, <2>1 DEF Sized
  <2>4. FixOk(p)'
    BY <1>1, <1>8, <1>12, <2>1, <2>3, FixKeep DEF CostOk, Closed
  <2> QED BY <1>1, <1>10, <1>11, <2>2, <2>4 DEF CostOk
<1>14. CASE SameHead(p) /\ memo'[p] = CountedFix(m) /\ bg'[p].at = "addressing"
  <2>1. /\ memo'[p].sha = memo[p].sha /\ memo'[p].address = memo[p].address + 1
        /\ Fixing(p)' = 1
    BY <1>6, <1>14 DEF Fixing, One, CountedFix, Memos
  <2>2. memo[p].sha \in Nat /\ memo[p].sha # NoHead
    BY <1>2, <1>3, <1>14 DEF SameHead, CostOk, HeadsOk, Sized, NoHead
  <2>3. HeadsOk(p)'
    BY <1>1, <1>2, <1>8, <2>1, <2>2 DEF CostOk, HeadsOk
  <2>4. FixServed(p)
    BY <1>3, <2>2 DEF CostOk, FixOk, FixOver, One
  <2>5. FixesSoFar(p)' = FixesSoFar(p) + 1 /\ FixesSoFar(p) \in Int
    <3>1. MaxAddress * memo[p].sha \in Int
      BY <2>2, LimitsAssumption
    <3>2. FixesSoFar(p) = MaxAddress * memo[p].sha + memo[p].address
      BY <2>2 DEF FixesSoFar
    <3>3. FixesSoFar(p)' = MaxAddress * memo[p].sha + (memo[p].address + 1)
      BY <2>1, <2>2 DEF FixesSoFar
    <3> QED BY <1>2, <3>1, <3>2, <3>3 DEF Sized
  <2>6. FixServed(p)'
    <3>1. spent[p].fixes + 1 <= (FixesSoFar(p) + 1) + edits
      BY <1>2, <1>3, <2>4, <2>5 DEF FixServed, Sized
    <3> QED BY <1>1, <2>1, <2>5, <3>1 DEF FixServed
  <2> QED BY <1>1, <1>10, <1>11, <2>3, <2>6 DEF CostOk, FixOk
<1>15. CASE /\ ~SameHead(p)
            /\ memo'[p] = [m EXCEPT !.address = 0, !.sha = bg[p].head] /\ bg'[p].at = "none"
  <2>1. memo'[p].sha = bg[p].head /\ memo'[p].address = 0 /\ Fixing(p)' = 0
    BY <1>6, <1>15 DEF Fixing, One, Memos
  <2>2. bg[p].head \in Nat /\ memo[p].sha < bg[p].head /\ bg[p].head # NoHead
    BY <1>2, <1>3, <1>15 DEF SameHead, CostOk, HeadsOk, Sized, NoHead
  <2>3. HeadsOk(p)'
    BY <1>1, <1>3, <1>8, <2>1, <2>2 DEF CostOk, HeadsOk
  <2>4. CASE FixServed(p)
    <3>1. FixesSoFar(p)' = MaxAddress * bg[p].head + 0
      BY <2>1, <2>2 DEF FixesSoFar
    <3>2. MaxAddress \in Nat /\ MaxAddress * bg[p].head \in Nat
      BY <2>2, LimitsAssumption
    <3>3. FixesSoFar(p) \in Nat /\ FixesSoFar(p) <= MaxAddress * bg[p].head
      <4>1. CASE memo[p].sha = NoHead
        <5>1. FixesSoFar(p) = 0
          BY <3>2, <4>1 DEF FixesSoFar, CostOk, HeadsOk
        <5> QED BY <3>2, <5>1
      <4>2. CASE memo[p].sha # NoHead
        <5>1. memo[p].sha \in Nat
          BY <1>2, <4>2 DEF Sized
        <5>2. /\ MaxAddress * memo[p].sha \in Nat
              /\ MaxAddress * memo[p].sha + MaxAddress <= MaxAddress * bg[p].head
          BY <2>2, <3>2, <5>1, Times
        <5>3. FixesSoFar(p) = MaxAddress * memo[p].sha + memo[p].address
          BY <4>2 DEF FixesSoFar
        <5> QED BY <1>2, <3>2, <5>2, <5>3 DEF Sized
      <4> QED BY <4>1, <4>2
    <3>4. spent[p].fixes + 0 <= (MaxAddress * bg[p].head + 0) + edits
      BY <1>2, <1>3, <2>4, <3>2, <3>3 DEF FixServed, Sized
    <3>5. FixServed(p)'
      BY <1>1, <2>1, <3>1, <3>4 DEF FixServed
    <3> QED BY <1>1, <1>10, <1>11, <2>3, <3>5 DEF CostOk, FixOk
  <2>5. CASE FixOver(p)
    <3>1. p \notin tick.cand
      BY <1>3, <2>5 DEF FixOver, One
    <3>2. One(Asks(p)' \/ Runs(p)') + One(p \in tick'.cand) <= One(memo'[p].sha = NoHead)
      BY <1>1, <1>8, <3>1 DEF One
    <3>3. Fixing(p)' = Fixing(p) /\ Closed(p)'
      BY <1>1, <1>3, <2>1, <2>5 DEF FixOver, Closed
    <3>4. FixOver(p)'
      BY <1>1, <2>5, <3>2, <3>3 DEF FixOver
    <3> QED BY <1>1, <1>10, <1>11, <2>3, <3>4 DEF CostOk, FixOk
  <2> QED BY <2>4, <2>5 DEF CostOk, FixOk
<1> QED BY <1>7, <1>13, <1>14, <1>15

\* What a resume does after its answer.
LEMMA FollowUpCost ==
  ASSUME TypeOK, TypeOK', ReadInv, faults' = 0, NEW p \in Prs, CostOk(p),
         BgBlock(p) \/ BgConclude(p) \/ BgAddress(p)
  PROVE  CostOk(p)'
<1>1. /\ bg[p].at \in {"blocking", "concluding", "addressing"}
      /\ UNCHANGED <<mode, age, open, head, tick, edits>>
      /\ bg'[p] = NoResume
  BY DEF BgBlock, BgConclude, BgAddress, BgAt, BgOver, outside, TypeOK
<1>2. Sized(p) /\ Sized(p)' /\ TickKeeps(p)
  BY <1>1, CostTypes, CostTypesNext DEF TickKeeps, Posts
<1>3. ~Asks(p) /\ ~Runs(p) /\ ~Asks(p)' /\ ~Runs(p)' /\ "resume" \in mode /\ Fixing(p)' = 0
  BY <1>1 DEF Asks, Runs, CostOk, FeaturesOk, NoResume, Fixing, One
<1>4. CASE BgBlock(p)
  <2>1. /\ label'[p].blocked = TRUE /\ label'[p].review = label[p].review
        /\ label'[p].attempt = label[p].attempt /\ memo'[p] = Forgotten
    BY <1>4, BlockedLabel DEF BgBlock
  <2>2. UNCHANGED spent
    BY <1>4 DEF BgBlock
  <2> QED BY <1>1, <1>2, <1>3, <2>1, <2>2, ClearCost DEF Closed
<1>5. CASE BgConclude(p)
  <2>1. PICK how \in Outcomes : Relabel(p, "em_andamento", "concluida", how)
    BY <1>5 DEF BgConclude
  <2>2. label'[p].blocked = label[p].blocked /\ label'[p].attempt = label[p].attempt
    BY <2>1, MovedLabel DEF ReviewLabels
  <2>3. p \notin open /\ memo'[p] = Forgotten /\ UNCHANGED spent
    BY <1>5 DEF BgConclude, BgAt, ReadInv, Merged, TypeOK
  <2> QED BY <1>1, <1>2, <1>3, <2>2, <2>3, ClearCost DEF Closed
<1>6. CASE BgAddress(p)
  <2>1. bg[p].at = "addressing" /\ UNCHANGED <<label, memo, news>>
    BY <1>6 DEF BgAddress, BgAt, outside
  <2>2. /\ spent'[p].rounds = spent[p].rounds
        /\ spent'[p].fixes <= spent[p].fixes + 1
    <3>1. CASE UNCHANGED spent
      BY <1>2, <3>1 DEF Sized
    <3>2. CASE \E by : Starts(p, "address", by)
      BY <3>2, StartsSpends
    <3> QED BY <1>6, <3>1, <3>2 DEF BgAddress, PostNowait
  <2>3. RoundOk(p)' /\ (AsListed(p) => AsListed(p)')
    BY <1>1, <1>3, <2>1, <2>2, AnswerRound
  <2>4. FeaturesOk(p)'
    BY <1>1, <1>3, <2>1 DEF CostOk, FeaturesOk
  <2>5. head'[p] >= head[p] /\ edits' >= edits
    BY <1>1, <1>2 DEF Sized
  <2>6. HeadsOk(p)'
    BY <1>2, <1>3, <2>1, <2>5, HeadsKeep DEF CostOk
  <2>7. spent'[p].fixes + Fixing(p)' <= spent[p].fixes + Fixing(p)
    <3>1. Fixing(p) = 1
      BY <2>1 DEF Fixing, One
    <3> QED BY <1>2, <1>3, <2>2, <3>1 DEF Sized
  <2>8. FixOk(p)'
    BY <1>1, <1>3, <2>1, <2>5, <2>7, FixKeep DEF CostOk, Closed
  <2> QED BY <1>1, <2>3, <2>4, <2>6, <2>8 DEF CostOk
<1> QED BY <1>4, <1>5, <1>6


\* A commit: the HEAD that it adds makes up for the review it undoes.
LEMMA PushCost ==
  ASSUME TypeOK, TypeOK', NEW p \in Prs, CostOk(p), Push(p)
  PROVE  CostOk(p)'
<1>1. /\ head'[p] = head[p] + 1 /\ p \in open
      /\ UNCHANGED <<mode, label, age, open, memo, bg, tick, edits, spent>>
  BY DEF Push, TypeOK, counters
<1>2. Sized(p) /\ Sized(p)' /\ TickKeeps(p)
  BY <1>1, CostTypes, CostTypesNext DEF TickKeeps, Posts
<1>3. /\ Asks(p)' <=> Asks(p)
      /\ Runs(p)' <=> Runs(p)
      /\ Resumed(p)' = Resumed(p) /\ Fixing(p)' = Fixing(p)
  BY <1>1 DEF Asks, Runs, Resumed, Fixing
<1>4. head'[p] >= head[p] /\ edits' >= edits /\ Resumed(p)' >= Resumed(p)
  BY <1>1, <1>2, <1>3, Allowed DEF Sized
<1>5. FeaturesOk(p)' /\ AsListed(p)'
  BY <1>1 DEF CostOk, FeaturesOk, AsListed, Posts
<1>6. HeadsOk(p)'
  BY <1>1, <1>2, <1>3, <1>4, HeadsKeep DEF CostOk
<1>7. RoundOk(p)'
  <2>1. Allowance(p)' >= Allowance(p)
    <3>1. Allowance(p)' = label[p].attempt + Credit(p)' + (head[p] + 1) + Resumed(p)
      BY <1>1, <1>3 DEF Allowance
    <3>2. /\ Allowance(p) = label[p].attempt + Credit(p) + head[p] + Resumed(p)
          /\ Credit(p) \in {0, 1} /\ Resumed(p) \in Nat
      BY Allowed
    <3>3. Credit(p)' \in {0, 1}
      BY AllowedNext
    <3> QED BY <1>2, <3>1, <3>2, <3>3 DEF Sized
  <2> QED BY <1>1, <1>3, <1>4, <1>5, <2>1, RoundKeep DEF CostOk
<1>8. FixOk(p)'
  <2>1. spent'[p].fixes + Fixing(p)' <= spent[p].fixes + Fixing(p)
    <3>1. Fixing(p) \in {0, 1}
      BY DEF Fixing, One
    <3> QED BY <1>1, <1>2, <1>3, <3>1 DEF Sized
  <2> QED BY <1>1, <1>3, <1>4, <2>1, FixKeep DEF CostOk, Closed
<1> QED BY <1>5, <1>6, <1>7, <1>8 DEF CostOk

\* A human removes the block: the PR starts again.
LEMMA UnblockCost ==
  ASSUME TypeOK, TypeOK', NEW p \in Prs, CostOk(p), HumanUnblocks(p)
  PROVE  CostOk(p)'
<1>1. /\ UNCHANGED <<mode, age, open, head, news, memo, bg, tick>> /\ edits' = edits + 1
      /\ label'[p].blocked = FALSE /\ label'[p].review = label[p].review
      /\ label'[p].attempt = label[p].attempt
      /\ spent'[p].rounds = 0 /\ spent'[p].fixes = 0
  <2>1. label \in [Prs -> Labels] /\ label[p] \in Labels /\ p \in DOMAIN spent
    BY DEF TypeOK
  <2> QED BY <2>1 DEF HumanUnblocks, Unspent, Labels, outside
<1>2. Sized(p) /\ Sized(p)' /\ TickKeeps(p)
  BY <1>1, CostTypes, CostTypesNext DEF TickKeeps, Posts
<1>3. /\ Asks(p)' <=> Asks(p)
      /\ Runs(p)' <=> Runs(p)
      /\ Resumed(p)' = Resumed(p) /\ Fixing(p)' = Fixing(p)
  BY <1>1 DEF Asks, Runs, Resumed, Fixing
<1>4. FeaturesOk(p)' /\ HeadsOk(p)' /\ (p \in open' => AsListed(p)')
  BY <1>1 DEF CostOk, FeaturesOk, HeadsOk, Asks, Runs, AsListed, Posts
<1>5. RoundOk(p)'
  <2>1. CASE p \in open
    <3>1. AsListed(p)' /\ edits' >= 1
      BY <1>1, <1>2, <1>4, <2>1 DEF Sized
    <3>2. spent'[p].rounds <= Allowance(p)'
      <4>1. \A n \in Nat : 0 <= n
        OBVIOUS
      <4>2. Allowance(p)' \in Nat
        BY AllowedNext
      <4> QED BY <1>1, <4>1, <4>2
    <3> QED BY <1>1, <3>1, <3>2 DEF Served, RoundOk, Allowance
  <2>2. CASE p \notin open
    <3>1. /\ One(Asks(p)') \in {0, 1} /\ One(p \in tick'.cand) \in {0, 1}
      BY DEF One
    <3>2. 0 + One(Asks(p)') + One(p \in tick'.cand) <= Budget + head[p] + (edits + 1)
      <4>1. Budget \in Nat /\ Budget >= 1
        BY BudgetType, LimitsAssumption
      <4> QED BY <1>2, <3>1, <4>1 DEF Sized
    <3>3. Budget' = Budget
      BY <1>1 DEF Budget
    <3> QED BY <1>1, <2>2, <3>2, <3>3 DEF Over, Closed, RoundOk
  <2> QED BY <2>1, <2>2
<1>6. FixOk(p)'
  <2>1. FixesSoFar(p)' = FixesSoFar(p) /\ FixesSoFar(p) \in Nat
    BY <1>1, FixesWithin DEF FixesSoFar, CostOk
  <2>2. 0 + Fixing(p) <= FixesSoFar(p) + (edits + 1)
    <3>1. Fixing(p) \in {0, 1}
      BY DEF Fixing, One
    <3> QED BY <1>2, <2>1, <3>1 DEF Sized
  <2> QED BY <1>1, <1>3, <2>1, <2>2 DEF FixServed, FixOk
<1> QED BY <1>4, <1>5, <1>6 DEF CostOk

\* The pod is killed: nothing is under way.
LEMMA KillCost ==
  ASSUME TypeOK, TypeOK', NEW p \in Prs, CostOk(p), Kill
  PROVE  CostOk(p)'
<1>1. /\ UNCHANGED <<mode, label, age, open, head, news, edits>> /\ tick' = IdleTick
      /\ memo'[p] = Forgotten /\ bg'[p] = NoResume
      /\ spent'[p].rounds = 0 /\ spent'[p].fixes = 0
  BY DEF Kill, Unspent, outside
<1>2. Sized(p) /\ Sized(p)'
  BY CostTypes, CostTypesNext
<1>3. p \notin tick'.cand /\ ~Posts(p)' /\ ~Asks(p)' /\ ~Runs(p)' /\ Fixing(p)' = 0
  BY <1>1 DEF IdleTick, Posts, Asks, Runs, Fixing, One, NoResume
<1>4. /\ memo'[p].attempt = 0 /\ memo'[p].sha = NoHead /\ memo'[p].address = 0
      /\ bg'[p].at = "none"
  BY <1>1 DEF Forgotten, NoResume
<1>5. FeaturesOk(p)' /\ AsListed(p)' /\ HeadsOk(p)'
  <2>1. head[p] >= -1
    BY <1>2 DEF Sized
  <2> QED BY <1>1, <1>3, <1>4, <2>1 DEF CostOk, FeaturesOk, AsListed, HeadsOk, NoHead
<1>6. RoundOk(p)'
  <2>1. CASE Served(p)
    <3>1. spent'[p].rounds <= Allowance(p)'
      <4>1. \A n \in Nat : 0 <= n
        OBVIOUS
      <4>2. Allowance(p)' \in Nat
        BY AllowedNext
      <4> QED BY <1>1, <4>1, <4>2
    <3> QED BY <1>1, <1>5, <2>1, <3>1 DEF Served, RoundOk, Allowance
  <2>2. CASE Closed(p)
    <3>1. One(Asks(p)') = 0 /\ One(p \in tick'.cand) = 0 /\ Budget' = Budget
      BY <1>1, <1>3 DEF One, Budget
    <3>2. 0 + 0 + 0 <= Budget + head[p] + edits
      BY <1>2, BudgetType DEF Sized
    <3> QED BY <1>1, <2>2, <3>1, <3>2 DEF Over, Closed, RoundOk
  <2> QED BY <2>1, <2>2 DEF CostOk, RoundOk, GivenUp, Over, Closed
<1>7. FixOk(p)'
  <2>1. FixesSoFar(p)' = MaxAddress * 0 + 0
    BY <1>4 DEF FixesSoFar
  <2>2. MaxAddress * 0 = 0
    BY LimitsAssumption
  <2>3. 0 + 0 <= (MaxAddress * 0 + 0) + edits
    BY <1>2, <2>2 DEF Sized
  <2> QED BY <1>1, <1>3, <2>1, <2>3 DEF FixServed, FixOk
<1> QED BY <1>5, <1>6, <1>7 DEF CostOk

\* The listings: those of the reaper and of reconcile_review_prs name no
\* candidates, that of the reviews only PRs that are open and not blocked.
LEMMA PhasesCost ==
  ASSUME TypeOK, TypeOK', ListShape, JudgedMerged, faults' = 0, NEW p \in Prs, CostOk(p),
         StartTick \/ ReconcileList \/ ReviewList \/ NoTarget \/ EndTick
  PROVE  ListShape' /\ JudgedMerged' /\ CostOk(p)'
<1>1. UNCHANGED <<mode, label, age, open, head, news, memo, bg, edits, spent>>
  BY DEF StartTick, ReconcileList, ReviewList, NoTarget, EndTick, outside, counters
<1>2. Spares(p) /\ edits' >= edits /\ Sized(p) /\ Sized(p)'
  BY <1>1, CostTypes, CostTypesNext DEF Spares, Sized
<1>3. CASE NoTarget \/ EndTick
  <2>1. tick' \in {Classifying, IdleTick}
    BY <1>3 DEF NoTarget, EndTick
  <2> QED BY <1>1, <1>2, <2>1, TickPasses, SparedCost
<1>4. CASE StartTick \/ ReconcileList
  <2>1. tick'.cand = {} /\ tick'.point = "next"
    <3>1. ASSUME NEW phase, NEW S, tick' = [IdleTick EXCEPT !.at = phase, !.list = S]
          PROVE  tick'.cand = {} /\ tick'.point = "next"
      BY <3>1 DEF IdleTick
    <3>2. ASSUME NEW phase, tick' = [IdleTick EXCEPT !.at = phase]
          PROVE  tick'.cand = {} /\ tick'.point = "next"
      BY <3>2 DEF IdleTick
    <3>3. CASE StartTick
      BY <3>1, <3>2, <3>3 DEF StartTick, Phase
    <3>4. CASE ReconcileList
      BY <3>1, <3>2, <3>4 DEF ReconcileList, Phase
    <3> QED BY <1>4, <3>3, <3>4
  <2>2. TickKeeps(p) /\ ListShape' /\ JudgedMerged'
    BY <2>1 DEF TickKeeps, Posts, ListShape, JudgedMerged
  <2> QED BY <1>1, <1>2, <2>2, SparedCost
<1>5. CASE ReviewList
  <2> DEFINE S == {q \in open : "concluida" \in label[q].review /\ ~label[q].blocked}
             C == {q \in open : "concluida" \notin label[q].review /\ ~label[q].blocked}
             H == [q \in Prs |-> IF q \in Claimed THEN head[q] ELSE 0]
  <2>1. tick' = [IdleTick EXCEPT !.at = "review", !.list = S, !.cand = C,
                                 !.prog = Claimed, !.heads = H]
    BY <1>5, FaultCounts DEF ReviewList
  <2>2. /\ tick'.at = "review" /\ tick'.point = "next" /\ tick'.cand = C
        /\ tick'.prog = Claimed /\ tick'.heads = H
    <3> HIDE DEF S, C, H
    <3> QED BY <2>1, IdleType DEF Ticks
  <2>3. ListShape' /\ JudgedMerged' /\ ~Posts(p)'
    BY <2>2 DEF ListShape, JudgedMerged, Posts
  <2>4. tick.cand = {} /\ ~Posts(p)
    BY <1>5 DEF ReviewList, Done, ListShape, Posts
  <2>5. p \in tick'.cand => p \in open /\ ~label[p].blocked
    BY <2>2
  <2>6. p \in tick'.cand /\ p \in tick'.prog => tick'.heads[p] = head[p]
    BY <2>2
  <2>7. AsListed(p)'
    <3>1. p \in C \ Claimed => label[p].review \subseteq {"pendente"}
      BY <1>2 DEF Sized, Claimed, Labels, ReviewLabels
    <3>2. p \in tick'.cand /\ p \notin tick'.prog => p \in C \ Claimed
      <4> HIDE DEF C
      <4> QED BY <2>2
    <3> QED BY <1>1, <2>3, <3>1, <3>2 DEF AsListed
  <2>8. /\ Asks(p)' <=> Asks(p)
        /\ Runs(p)' <=> Runs(p)
        /\ Resumed(p)' = Resumed(p) /\ Fixing(p)' = Fixing(p)
    BY <1>1 DEF Asks, Runs, Resumed, Fixing
  <2>9. HeadsOk(p)'
    BY <1>1, <1>2, <2>6, <2>8 DEF CostOk, HeadsOk, Sized
  <2>10. FeaturesOk(p)'
    BY <1>1 DEF CostOk, FeaturesOk
  <2>11. Budget' = Budget /\ FreshBudget' = FreshBudget /\ Credit(p)' = Credit(p)
    BY <1>1, <2>3, <2>4 DEF Budget, FreshBudget, Credit
  <2>12. p \in tick'.cand => ~Closed(p)
    BY <2>5 DEF Closed
  <2>13. RoundOk(p)'
    <3>1. CASE Served(p)
      BY <1>1, <2>7, <2>8, <2>11, <3>1 DEF Served, RoundOk
    <3>2. CASE GivenUp(p)
      BY <1>1, <2>5, <2>8, <2>11, <3>2 DEF GivenUp, RoundOk
    <3>3. CASE Over(p)
      BY <1>1, <2>4, <2>8, <2>11, <2>12, <3>3 DEF Over, RoundOk, Closed, One
    <3> QED BY <3>1, <3>2, <3>3 DEF CostOk, RoundOk
  <2>14. FixOk(p)'
    <3>1. CASE FixServed(p)
      BY <1>1, <2>8, <3>1 DEF FixServed, FixOk, FixesSoFar
    <3>2. CASE FixOver(p)
      BY <1>1, <2>4, <2>8, <2>12, <3>2 DEF FixOver, FixOk, Closed, One
    <3> QED BY <3>1, <3>2 DEF CostOk, FixOk
  <2> QED BY <2>3, <2>7, <2>9, <2>10, <2>13, <2>14 DEF CostOk
<1> QED BY <1>3, <1>4, <1>5


LEMMA OwnCost ==
  ASSUME TypeOK, TypeOK', ListShape, JudgedMerged, ReadInv, faults' = 0, NEW p \in Prs, CostOk(p),
         \/ PrStep(p) \/ BgStep(p) \/ BgTimesOut(p) \/ SessionEnds(p) \/ SessionDies(p)
         \/ Push(p) \/ CiEnds(p) \/ Ages(p) \/ HumanUnblocks(p)
  PROVE  CostOk(p)'
<1>1. CASE PrStep(p)
  BY <1>1, ReadingCost, ReapCost, ApplyCost, MarkCost, EndsCost, SetOutCost, ClaimCost, PostCost
     DEF PrStep
<1>2. CASE BgStep(p)
  BY <1>2, CalmCost, ResumePostCost, AnswerCost, FollowUpCost DEF BgStep
<1>3. CASE BgTimesOut(p) \/ SessionDies(p)
  BY <1>3, FaultCounts DEF BgTimesOut, SessionDies
<1>4. CASE SessionEnds(p) \/ Push(p) \/ CiEnds(p) \/ Ages(p) \/ HumanUnblocks(p)
  BY <1>4, CalmCost, PushCost, UnblockCost
<1> QED BY <1>1, <1>2, <1>3, <1>4

LEMMA CostStep ==
  ASSUME TypeOK, TypeOK', ReadInv, CostInv, [Next]_vars
  PROVE  CostInv'
<1> SUFFICES ASSUME faults' = 0
             PROVE  ListShape' /\ JudgedMerged' /\ \A q \in Prs : CostOk(q)'
  BY DEF CostInv
<1>0. ListShape /\ JudgedMerged /\ \A q \in Prs : CostOk(q)
  BY FaultsOnlyGrow DEF CostInv
<1>1. ASSUME NEW p \in Prs, PrStep(p)
      PROVE  ListShape' /\ JudgedMerged' /\ \A q \in Prs : CostOk(q)'
  <2>1. ListShape' /\ JudgedMerged'
    BY <1>0, <1>1, PrTick, ClaimTick
  <2>2. CostOk(p)'
    BY <1>0, <1>1, OwnCost
  <2>3. ASSUME NEW q \in Prs, q # p PROVE CostOk(q)'
    <3>1. Spares(q) /\ UNCHANGED mode /\ edits' >= edits
      BY <1>1, <2>3, TickStepsSpare DEF TypeOK
    <3>2. TickKeeps(q)
      BY <1>0, <1>1, <2>3, PrTick
    <3> QED BY <1>0, <3>1, <3>2, SparedCost
  <2> QED BY <2>1, <2>2, <2>3
<1>2. ASSUME NEW p \in Prs,
             \/ BgStep(p) \/ BgTimesOut(p) \/ SessionEnds(p) \/ SessionDies(p)
             \/ Push(p) \/ CiEnds(p) \/ Ages(p) \/ HumanUnblocks(p)
      PROVE  ListShape' /\ JudgedMerged' /\ \A q \in Prs : CostOk(q)'
  <2>0. UNCHANGED tick /\ open' \subseteq open
    <3>1. CASE BgStep(p) \/ BgTimesOut(p)
      BY <3>1 DEF BgStep, BgLookup, BgPost, BgAnswer, BgBlock, BgConclude, BgAddress,
                  BgTimesOut, outside
    <3>2. CASE \/ SessionEnds(p) \/ SessionDies(p) \/ Push(p) \/ CiEnds(p) \/ Ages(p)
               \/ HumanUnblocks(p)
      BY <3>2 DEF SessionEnds, SessionDies, Push, CiEnds, Ages, HumanUnblocks, outside
    <3> QED BY <1>2, <3>1, <3>2
  <2>1. ListShape' /\ JudgedMerged'
    BY <1>0, <2>0, TickPasses
  <2>2. CostOk(p)'
    BY <1>0, <1>2, OwnCost
  <2>3. ASSUME NEW q \in Prs, q # p PROVE CostOk(q)'
    <3>1. Spares(q) /\ UNCHANGED mode /\ edits' >= edits
      BY <1>2, <2>3, OtherStepsSpare
    <3>2. TickKeeps(q)
      BY <2>0 DEF TickKeeps, Posts
    <3> QED BY <1>0, <3>1, <3>2, SparedCost
  <2> QED BY <2>1, <2>2, <2>3
<1>3. CASE StartTick \/ ReconcileList \/ ReviewList \/ NoTarget \/ EndTick
  <2>1. \A q \in Prs : ListShape' /\ JudgedMerged' /\ CostOk(q)'
    BY <1>0, <1>3, PhasesCost
  <2>2. Prs = {} => ListShape' /\ JudgedMerged'
    <3>1. tick' \in Ticks /\ (tick'.point = "next" \/ tick'.on \in Prs)
      BY DEF TypeOK
    <3> QED BY <3>1 DEF ListShape, JudgedMerged, TypeOK, Ticks
  <2> QED BY <2>1, <2>2
<1>4. CASE Kill
  <2>1. ListShape' /\ JudgedMerged'
    BY <1>4 DEF Kill, IdleTick, ListShape, JudgedMerged
  <2> QED BY <1>0, <1>4, <2>1, KillCost
<1>5. CASE UNCHANGED vars
  <2>1. ListShape' /\ JudgedMerged'
    BY <1>0, <1>5 DEF vars, outside, ListShape, JudgedMerged
  <2>2. ASSUME NEW q \in Prs PROVE CostOk(q)'
    <3>1. Spares(q) /\ UNCHANGED mode /\ edits' >= edits /\ TickKeeps(q)
      BY <1>5 DEF vars, outside, counters, Spares, TickKeeps, Posts, TypeOK
    <3> QED BY <1>0, <3>1, SparedCost
  <2> QED BY <2>1, <2>2
<1> QED BY <1>1, <1>2, <1>3, <1>4, <1>5 DEF Next, TickStep

\* As long as no call has failed the reaper's count, the memory of the resumes
\* and the HEAD of a PR account for every session that it was reviewed or
\* corrected by: the inductive invariant behind the two bounds.
THEOREM WhatPrsCost == Spec => []CostInv
<1>1. Init => CostInv
  <2> SUFFICES ASSUME Init PROVE CostInv
    OBVIOUS
  <2>1. /\ tick.at = "idle" /\ tick.point = "next" /\ tick.cand = {}
    BY DEF Init, IdleTick
  <2>2. ListShape /\ JudgedMerged
    BY <2>1 DEF ListShape, JudgedMerged
  <2>3. ASSUME NEW p \in Prs PROVE CostOk(p)
    <3>1. /\ label[p].review = {} /\ label[p].blocked = FALSE /\ label[p].attempt = 0
          /\ age[p] = "young" /\ head[p] = 0 /\ p \notin news /\ edits = 0
          /\ spent[p].rounds = 0 /\ spent[p].fixes = 0
      BY DEF Init
    <3>2. /\ memo[p].attempt = 0 /\ memo[p].sha = NoHead /\ memo[p].address = 0
          /\ bg[p].at = "none"
      BY DEF Init, Forgotten, NoResume
    <3>3. ~Posts(p) /\ ~Asks(p) /\ ~Runs(p) /\ Fixing(p) = 0 /\ Credit(p) = 0 /\ Resumed(p) = 0
      BY <2>1, <3>1, <3>2 DEF Posts, Asks, Runs, Fixing, Credit, Resumed, One
    <3>4. FeaturesOk(p) /\ AsListed(p) /\ HeadsOk(p)
      BY <2>1, <3>1, <3>2, <3>3 DEF FeaturesOk, AsListed, HeadsOk, NoHead
    <3>5. Served(p)
      BY <3>1, <3>3, <3>4, LimitsAssumption DEF Served
    <3>6. FixServed(p)
      <4>1. MaxAddress * 0 = 0
        BY LimitsAssumption
      <4> QED BY <3>1, <3>2, <3>3, <4>1 DEF FixServed, FixesSoFar
    <3> QED BY <3>4, <3>5, <3>6 DEF CostOk, RoundOk, FixOk
  <2> QED BY <2>2, <2>3 DEF CostInv
<1>2. TypeOK /\ TypeOK' /\ ReadInv /\ CostInv /\ [Next]_vars => CostInv'
  BY CostStep
<1> QED BY <1>1, <1>2, PrTypeOK, WhatWasReadHolds, PTL DEF Spec

\* A PR costs no more reviews than the reaper's and the resumes' limits, one for
\* each commit and one for each human who unblocks it.
THEOREM RoundsAreBounded == Spec => []RoundsBounded
<1>1. TypeOK /\ CostInv => RoundsBounded
  <2> SUFFICES ASSUME TypeOK, CostInv, NEW p \in Prs, ~(faults > 0)
               PROVE  spent[p].rounds <= Budget + head[p] + edits
    BY DEF RoundsBounded
  <2>1. faults = 0 /\ CostOk(p) /\ Sized(p)
    BY CostTypes DEF TypeOK, CostInv
  <2>2. CASE Over(p)
    <3>1. One(Asks(p)) \in {0, 1} /\ One(p \in tick.cand) \in {0, 1}
      BY DEF One
    <3> QED BY <2>1, <2>2, <3>1, BudgetType DEF Over, Sized
  <2>3. CASE Served(p) \/ GivenUp(p)
    <3>1. spent[p].rounds <= FreshBudget + head[p] + edits + Resumed(p)
      BY <2>1, <2>3, FreshWithin DEF CostOk
    <3>2. FreshBudget + Resumed(p) <= Budget
      <4>1. CASE "resume" \in mode
        <5>1. One(Runs(p)) \in {0, 1}
          BY DEF One
        <5> QED BY <2>1, <4>1, <5>1, BudgetType DEF Resumed, Sized
      <4>2. CASE "resume" \notin mode
        <5>1. Resumed(p) = 0
          BY <2>1, <4>2 DEF CostOk, FeaturesOk, Runs, Resumed, One
        <5> QED BY <4>2, <5>1, BudgetType
      <4> QED BY <4>1, <4>2
    <3> QED BY <2>1, <3>1, <3>2, Allowed, BudgetType DEF Sized
  <2> QED BY <2>1, <2>2, <2>3 DEF CostOk, RoundOk
<1> QED BY <1>1, PrTypeOK, WhatPrsCost, PTL

\* A PR costs no more address sessions than MAX_ADDRESS_ATTEMPTS for each HEAD it
\* has had and one for each human who unblocks it.
THEOREM FixesAreBounded == Spec => []FixesBounded
<1>1. TypeOK /\ CostInv => FixesBounded
  <2> SUFFICES ASSUME TypeOK, CostInv, NEW p \in Prs, ~(faults > 0)
               PROVE  spent[p].fixes <= MaxAddress * (head[p] + 1) + edits
    BY DEF FixesBounded
  <2>1. faults = 0 /\ CostOk(p) /\ Sized(p)
    BY CostTypes DEF TypeOK, CostInv
  <2>2. Fixing(p) \in {0, 1}
    BY DEF Fixing, One
  <2>3. /\ FixesSoFar(p) \in Nat /\ MaxAddress * (head[p] + 1) \in Nat
        /\ FixesSoFar(p) <= MaxAddress * (head[p] + 1)
    BY <2>1, FixesWithin DEF CostOk
  <2>4. CASE FixServed(p)
    BY <2>1, <2>2, <2>3, <2>4 DEF FixServed, Sized
  <2>5. CASE FixOver(p)
    BY <2>1, <2>2, <2>3, <2>5 DEF FixOver, Sized
  <2> QED BY <2>1, <2>4, <2>5 DEF CostOk, FixOk
<1> QED BY <1>1, PrTypeOK, WhatPrsCost, PTL

=============================================================================
