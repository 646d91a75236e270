-------------------------- MODULE IssueRefine_proofs --------------------------
(***************************************************************************)
(* Proofs about IssueRefine, for any set of issues and any bounds: type     *)
(* correctness; the single stage of an issue and the bound on its passes,   *)
(* as long as no forge call fails; and the promotion that its own tick does *)
(* not undo, whatever fails.                                                *)
(***************************************************************************)
EXTENDS IssueRefine, FiniteSetTheorems, TLAPS

-----------------------------------------------------------------------------
(* Helpers *)

\* The budget of faults and edits, after a step without an edit.
Budget == faults' \in Nat /\ faults' + edits <= MaxTrouble

LEMMA FaultBudget ==
  ASSUME TypeOK, NEW n \in Nat, Fault(n) \/ NoFault
  PROVE  Budget
  BY DEF TypeOK, Fault, NoFault, Room, Budget

LEMMA IdleType == IdleTick \in Ticks /\ IdleTick.point = "next"
  BY DEF IdleTick, Ticks, Phases, Points

LEMMA LeaveType ==
  ASSUME TypeOK, NEW i
  PROVE  Leave(i) \in Ticks /\ Leave(i).point = "next"
  BY DEF TypeOK, Leave, Ticks, Points

LEMMA StopType ==
  ASSUME TypeOK, NEW i \in Issues, NEW point \in Points
  PROVE  Stop(i, point) \in Ticks /\ Stop(i, point).on \in Issues
  BY DEF TypeOK, Stop, Ticks

LEMMA EnterType ==
  ASSUME TypeOK, NEW phase \in Phases, NEW S \in SUBSET Issues, NEW slots \in Nat,
         Enter(phase, S, slots)
  PROVE  tick' \in Ticks /\ tick'.point = "next" /\ Budget
  BY FaultBudget DEF Enter, Ticks, Points

LEMMA AtType ==
  ASSUME TypeOK, NEW phase, NEW i, At(phase, i)
  PROVE  i \in Issues /\ label[i] \in Labels /\ i \in tick.list
  BY DEF TypeOK, At, Foremost, Ticks

LEMMA OnType ==
  ASSUME TypeOK, tick.point # "next"
  PROVE  tick.on \in Issues /\ label[tick.on] \in Labels
  BY DEF TypeOK

LEMMA MoveType ==
  ASSUME TypeOK, NEW i \in Issues, NEW from, NEW to \in Stages,
         NEW how \in Outcomes, NEW rest \in Labels, Move(i, from, to, how, rest)
  PROVE  /\ label' \in [Issues -> Labels]
         /\ age' \in [Issues -> {"fresh", "stale", "dead"}]
         /\ Budget
  <1> DEFINE S == CASE how = "moved" -> Moved(rest.stage, from, to)
                    [] how = "kept"  -> rest.stage
                    [] how = "lost"  -> rest.stage \ {from}
             r == [rest EXCEPT !.stage = S]
  <1>1. S \in SUBSET Stages
    BY DEF Labels, Outcomes, Moved
  <1>2. label' = [label EXCEPT ![i] = r]
    BY DEF Move
  <1>3. r \in Labels
    <2> HIDE DEF S
    <2> QED BY <1>1 DEF Labels
  <1>4. label' \in [Issues -> Labels]
    <2> HIDE DEF r
    <2> QED BY <1>2, <1>3 DEF TypeOK
  <1>5. age' \in [Issues -> {"fresh", "stale", "dead"}]
    BY DEF Move, TypeOK
  <1>6. Budget
    BY FaultBudget DEF Move
  <1> QED BY <1>4, <1>5, <1>6

\* What a label move makes of the stages.
LEMMA MoveStage ==
  ASSUME TypeOK, NEW i \in Issues, NEW from, NEW to, NEW how \in Outcomes,
         NEW rest \in Labels, rest.stage = label[i].stage,
         Move(i, from, to, how, rest)
  PROVE  /\ \A j \in Issues \ {i} : label'[j] = label[j]
         /\ how = "moved" => label'[i].stage = Moved(label[i].stage, from, to)
         /\ how # "moved" => label'[i].stage \subseteq label[i].stage
         /\ faults' = 0 => faults = 0 /\ how = "moved"
  <1> DEFINE S == CASE how = "moved" -> Moved(rest.stage, from, to)
                    [] how = "kept"  -> rest.stage
                    [] how = "lost"  -> rest.stage \ {from}
             r == [rest EXCEPT !.stage = S]
  <1>1. label' = [label EXCEPT ![i] = r]
    BY DEF Move
  <1>2. r.stage = S
    <2> HIDE DEF S
    <2> QED BY DEF Labels
  <1>3. label'[i] = r /\ \A j \in Issues \ {i} : label'[j] = label[j]
    <2> HIDE DEF r
    <2> QED BY <1>1 DEF TypeOK
  <1>4. faults' = 0 => faults = 0 /\ how = "moved"
    BY DEF Move, Fault, NoFault, TypeOK
  <1>5. label'[i].stage = S
    <2> HIDE DEF r, S
    <2> QED BY <1>2, <1>3
  <1> HIDE DEF r
  <1> QED BY <1>3, <1>4, <1>5 DEF Outcomes

LEMMA CountTypes ==
  ASSUME TypeOK, NEW i \in Issues
  PROVE  Known(i) \in 0..MaxPasses /\ Bumped(Known(i)) \in 0..MaxPasses
         /\ MaxPasses \in Nat
  <1>1. MaxPasses \in Nat
    BY BoundsAssumption DEF MaxPasses
  <1>2. Known(i) \in 0..MaxPasses
    BY DEF TypeOK, Known, Labels, Memories
  <1> QED BY <1>1, <1>2 DEF Bumped

LEMMA FaultSets ==
  ASSUME NEW F \in BlockFaults
  PROVE  Cardinality(F) \in Nat /\ (Cardinality(F) = 0 => F = {})
  <1>1. IsFiniteSet({"strip", "rest", "refinar", "block"})
    <2>1. IsFiniteSet({"strip"} \cup {"rest"})
      BY FS_Singleton, FS_Union
    <2>2. IsFiniteSet(({"strip"} \cup {"rest"}) \cup ({"refinar"} \cup {"block"}))
      BY <2>1, FS_Singleton, FS_Union
    <2>3. ({"strip"} \cup {"rest"}) \cup ({"refinar"} \cup {"block"})
            = {"strip", "rest", "refinar", "block"}
      OBVIOUS
    <2> QED BY <2>2, <2>3
  <1>2. IsFiniteSet(F)
    BY <1>1, FS_Subset DEF BlockFaults
  <1> QED BY <1>2, FS_CardinalityType, FS_EmptySet

LEMMA BlockType ==
  ASSUME TypeOK, NEW i \in Issues, NEW F \in BlockFaults, NEW onward,
         Block(i, F, onward)
  PROVE  /\ label' \in [Issues -> Labels]
         /\ age' \in [Issues -> {"fresh", "stale", "dead"}]
         /\ mem' \in [Issues -> Memories]
         /\ spent' \in [Issues -> 0..MaxPasses]
         /\ tick' \in {Abort, onward}
         /\ Budget
  <1> DEFINE stripped == [label[i] EXCEPT !.stage = @ \ {"nova", "em_revisao"}, !.passes = 0]
             struck == IF "strip" \in F THEN label[i] ELSE stripped
             rested == IF "rest" \in F THEN struck
                       ELSE [struck EXCEPT !.stage = @ \cup {"refino"}]
             marked == [rested EXCEPT !.refinar = TRUE,
                                      !.blocked = @ \/ "block" \notin F]
  <1>1. 0 \in 0..MaxPasses /\ label[i] \in Labels
    BY CountTypes DEF TypeOK
  <1>2. struck \in Labels
    BY <1>1 DEF Labels
  <1>3. rested \in Labels
    <2> HIDE DEF struck
    <2> QED BY <1>2 DEF Labels, Stages
  <1>4. marked \in Labels
    <2> HIDE DEF rested
    <2> QED BY <1>3 DEF Labels
  <1>5. label' = [label EXCEPT ![i] = rested] \/ label' = [label EXCEPT ![i] = marked]
    BY DEF Block
  <1>6. label' \in [Issues -> Labels]
    <2> HIDE DEF rested, marked
    <2> QED BY <1>3, <1>4, <1>5 DEF TypeOK
  <1>7. /\ age' \in [Issues -> {"fresh", "stale", "dead"}]
        /\ tick' \in {Abort, onward}
    BY DEF Block, TypeOK
  <1>9. mem' \in [Issues -> Memories] /\ spent' \in [Issues -> 0..MaxPasses]
    <2>1. \/ mem' = [mem EXCEPT ![i].passes = Known(i)] /\ spent' = spent
          \/ mem' = [mem EXCEPT ![i] = Forgotten] /\ spent' = [spent EXCEPT ![i] = 0]
      BY DEF Block
    <2>2. Forgotten \in Memories
      BY <1>1 DEF Forgotten, Memories
    <2>3. [mem[i] EXCEPT !.passes = Known(i)] \in Memories
      BY CountTypes DEF TypeOK, Memories
    <2> QED BY <1>1, <2>1, <2>2, <2>3 DEF TypeOK
  <1>8. Budget
    BY FaultSets, FaultBudget DEF Block
  <1> QED BY <1>6, <1>7, <1>8, <1>9

LEMMA CountPassType ==
  ASSUME TypeOK, NEW i \in Issues, NEW rest, CountPass(i, rest)
  PROVE  mem' \in [Issues -> Memories] /\ spent' \in [Issues -> 0..MaxPasses]
  BY CountTypes DEF CountPass, TypeOK, Memories

LEMMA FreeType ==
  ASSUME TypeOK, NEW others \in OtherWork
  PROVE  Free(others) \in Nat
  <1>1. Cardinality(Counted) \in Nat
    BY IssuesAssumption, FS_Subset, FS_CardinalityType DEF Counted, Wears
  <1> QED BY <1>1, BoundsAssumption DEF Free

LEMMA PartSize ==
  ASSUME NEW S \in SUBSET Issues
  PROVE  Cardinality(S) \in Nat
  BY IssuesAssumption, FS_Subset, FS_CardinalityType

\* A step that touches nothing but the labels of one issue.
LEMMA RelabelType ==
  ASSUME TypeOK, NEW i \in Issues, NEW r \in Labels, label' = [label EXCEPT ![i] = r]
  PROVE  label' \in [Issues -> Labels]
  BY DEF TypeOK

-----------------------------------------------------------------------------
(* Type correctness *)

LEMMA InitType == Init => TypeOK
  <1> SUFFICES ASSUME Init PROVE TypeOK
    OBVIOUS
  <1>1. 0 \in 0..MaxPasses /\ 0 \in 0..MaxReaps /\ MaxTrouble \in Nat /\ 0 \in 0..MaxKills
    BY BoundsAssumption DEF MaxPasses
  <1>2. label \in [Issues -> Labels]
    <2> DEFINE new(b) == [stage |-> {"nova"}, intent |-> b,
                          refinar |-> FALSE, blocked |-> FALSE,
                          waiting |-> FALSE, own |-> FALSE,
                          passes |-> 0, attempt |-> 0]
    <2>1. \A b \in BOOLEAN : new(b) \in Labels
      BY <1>1 DEF Labels, Stages
    <2>2. label \in [Issues -> {new(b) : b \in BOOLEAN}]
      BY DEF Init
    <2> HIDE DEF new
    <2> QED BY <2>1, <2>2
  <1>3. mem \in [Issues -> Memories]
    BY <1>1 DEF Init, Memories, Forgotten
  <1> QED BY <1>1, <1>2, <1>3, IdleType DEF Init, TypeOK

LEMMA ReapType ==
  ASSUME TypeOK, NEW i \in Issues, ReapSkip(i) \/ Reap(i)
  PROVE  TypeOK'
  <1>1. CASE ReapSkip(i)
    BY <1>1, LeaveType, FaultBudget DEF ReapSkip, TypeOK, Budget
  <1>2. CASE Reap(i)
    <2> DEFINE n == label[i].attempt + 1
               from == ReapFrom(i)
               cleared == [label[i] EXCEPT !.own = FALSE, !.attempt = 0]
    <2>1. label[i] \in Labels /\ 0 \in 0..MaxReaps /\ MaxReaps \in 0..MaxReaps
      BY BoundsAssumption DEF TypeOK
    <2>2. cleared \in Labels
      BY <2>1 DEF Labels
    <2>3. PICK how \in Outcomes :
            IF n < MaxReaps
            THEN Move(i, from, ReapTo(i), how,
                      CASE how = "moved" -> [cleared EXCEPT !.attempt = n]
                        [] how = "kept"  -> label[i]
                        [] how = "lost"  -> cleared)
            ELSE /\ label' = [label EXCEPT ![i] =
                        CASE how = "moved" ->
                               [cleared EXCEPT !.stage = @ \ {from},
                                               !.blocked = TRUE, !.attempt = MaxReaps]
                          [] how = "kept"  ->
                               [label[i] EXCEPT !.blocked = TRUE, !.attempt = MaxReaps]
                          [] how = "lost"  -> [cleared EXCEPT !.stage = @ \ {from}]]
                 /\ IF how = "moved" THEN NoFault ELSE Fault(1)
                 /\ UNCHANGED age
      BY <1>2, Zenon DEF Reap
    <2>4. /\ label' \in [Issues -> Labels]
          /\ age' \in [Issues -> {"fresh", "stale", "dead"}]
          /\ Budget
      <3>1. CASE n < MaxReaps
        <4> DEFINE rest == CASE how = "moved" -> [cleared EXCEPT !.attempt = n]
                             [] how = "kept"  -> label[i]
                             [] how = "lost"  -> cleared
        <4>1. [cleared EXCEPT !.attempt = n] \in Labels
          <5>1. n \in 0..MaxReaps
            BY <2>1, <3>1, BoundsAssumption DEF Labels
          <5> HIDE DEF n, cleared
          <5> QED BY <2>2, <5>1 DEF Labels
        <4>2. rest \in Labels
          <5> HIDE DEF n, cleared
          <5> QED BY <2>1, <2>2, <4>1 DEF Outcomes
        <4>3. Move(i, from, ReapTo(i), how, rest)
          BY <2>3, <3>1, Zenon
        <4>4. ReapTo(i) \in Stages
          BY DEF ReapTo, Stages
        <4> HIDE DEF rest, from
        <4> QED BY <4>2, <4>3, <4>4, MoveType
      <3>2. CASE ~(n < MaxReaps)
        <4> DEFINE a == [cleared EXCEPT !.stage = @ \ {from},
                                        !.blocked = TRUE, !.attempt = MaxReaps]
                   b == [label[i] EXCEPT !.blocked = TRUE, !.attempt = MaxReaps]
                   c == [cleared EXCEPT !.stage = @ \ {from}]
        <4>1. a \in Labels /\ c \in Labels
          <5> HIDE DEF cleared, from
          <5> QED BY <2>1, <2>2 DEF Labels
        <4>2. b \in Labels
          BY <2>1 DEF Labels
        <4>3. /\ label' = [label EXCEPT ![i] = CASE how = "moved" -> a
                                                 [] how = "kept"  -> b
                                                 [] how = "lost"  -> c]
              /\ IF how = "moved" THEN NoFault ELSE Fault(1)
              /\ UNCHANGED age
          BY <2>3, <3>2, Zenon
        <4> HIDE DEF a, b, c
        <4>4. label' \in [Issues -> Labels]
          BY <4>1, <4>2, <4>3 DEF Outcomes, TypeOK
        <4>5. age' \in [Issues -> {"fresh", "stale", "dead"}]
          BY <4>3 DEF TypeOK
        <4>6. Budget
          BY <4>3, FaultBudget
        <4> QED BY <4>4, <4>5, <4>6
      <3> QED BY <3>1, <3>2
    <2>5. ledger' \in [Issues -> Sessions \cup {"none"}]
      BY <1>2 DEF Reap, TypeOK
    <2>6. tick' \in Ticks /\ tick'.point = "next"
      BY <1>2, LeaveType DEF Reap
    <2>7. UNCHANGED <<live, mem, promoted, kills, edits, spent>>
      BY <1>2 DEF Reap
    <2> QED BY <2>4, <2>5, <2>6, <2>7 DEF TypeOK, Budget
  <1> QED BY <1>1, <1>2

\* The steps that list the issues of the next phase.
LEMMA ListType ==
  ASSUME TypeOK,
         StartTick \/ ReapDone \/ JudgeDone \/ CritiqueDone \/ SettleDone
  PROVE  TypeOK'
  <1> USE DEF Wears
  <1>1. CASE StartTick
    <2>1. tick' \in Ticks /\ tick'.point = "next" /\ Budget
      BY <1>1, EnterType DEF StartTick, Phases
    <2> QED BY <1>1, <2>1 DEF StartTick, TypeOK, Budget
  <1>2. CASE ReapDone
    <2>1. tick' \in Ticks /\ tick'.point = "next" /\ Budget
      BY <1>2, EnterType DEF ReapDone, Phases
    <2> QED BY <1>2, <2>1 DEF ReapDone, TypeOK, Budget
  <1>3. CASE JudgeDone
    <2>1. tick' \in Ticks /\ tick'.point = "next" /\ Budget
      <3>1. PICK others \in OtherWork :
              Enter("critique",
                    FirstOf({i \in Wears("nova") : ~label[i].blocked}, Free(others)), 0)
        BY <1>3 DEF JudgeDone
      <3> DEFINE S == FirstOf({i \in Wears("nova") : ~label[i].blocked}, Free(others))
      <3>2. S \in SUBSET Issues
        BY DEF FirstOf
      <3>3. Enter("critique", S, 0) /\ "critique" \in Phases
        BY <3>1 DEF Phases
      <3> HIDE DEF S
      <3> QED BY <3>2, <3>3, EnterType
    <2> QED BY <1>3, <2>1 DEF JudgeDone, TypeOK, Budget
  <1>4. CASE CritiqueDone
    <2>1. tick' \in Ticks /\ tick'.point = "next" /\ Budget
      BY <1>4, EnterType DEF CritiqueDone, Phases
    <2> QED BY <1>4, <2>1 DEF CritiqueDone, TypeOK, Budget
  <1>5. CASE SettleDone
    <2>1. PICK lag \in SUBSET Wears("revisada"), others \in OtherWork :
            LET slots == Free(others)
            IN  /\ tick' = [at |-> "refine", point |-> "next", on |-> 0, slots |-> slots,
                            list |-> IF slots = 0 THEN {}
                                     ELSE {i \in Issues : Candidate(i, lag)}]
                /\ Fault(Cardinality(lag))
      BY <1>5, Zenon DEF SettleDone
    <2>2. Free(others) \in Nat
      BY FreeType
    <2>3. tick' \in Ticks /\ tick'.point = "next"
      BY <2>1, <2>2 DEF Ticks, Phases, Points
    <2>4. Budget
      BY <2>1, PartSize, FaultBudget
    <2> QED BY <1>5, <2>3, <2>4 DEF SettleDone, TypeOK, Budget
  <1> QED BY <1>1, <1>2, <1>3, <1>4, <1>5

\* The steps that read, or fail to read, a verdict.
LEMMA VerdictType ==
  ASSUME TypeOK, NEW i \in Issues, NEW phase \in Phases,
         VerdictPending(phase, i) \/ VerdictGone(phase, i)
  PROVE  TypeOK'
  <1>1. CASE VerdictPending(phase, i)
    BY <1>1, LeaveType DEF VerdictPending, TypeOK, counters
  <1>2. CASE VerdictGone(phase, i)
    BY <1>2, LeaveType, FaultBudget DEF VerdictGone, TypeOK, Budget
  <1> QED BY <1>1, <1>2

LEMMA ClearType == ASSUME TypeOK, Clear PROVE TypeOK'
  BY LeaveType, OnType DEF Clear, TypeOK, counters

\* A label with (or without) the marks of refinement is a label.
LEMMA UnmarkedType ==
  ASSUME TypeOK, NEW i \in Issues
  PROVE  /\ label[i] \in Labels
         /\ [label[i] EXCEPT !.refinar = FALSE, !.passes = 0] \in Labels
         /\ [label[i] EXCEPT !.refinar = TRUE] \in Labels
         /\ \A n \in 0..MaxPasses : [label[i] EXCEPT !.passes = n] \in Labels
         /\ \A from, to \in Stages :
               [label[i] EXCEPT !.stage = Moved(@, from, to)] \in Labels
  <1> DEFINE r == label[i]
  <1>1. r \in Labels /\ 0 \in 0..MaxPasses
    BY CountTypes DEF TypeOK
  <1> HIDE DEF r
  <1>2. [r EXCEPT !.refinar = FALSE, !.passes = 0] \in Labels
    BY <1>1 DEF Labels
  <1>3. [r EXCEPT !.refinar = TRUE] \in Labels
    BY <1>1 DEF Labels
  <1>4. \A n \in 0..MaxPasses : [r EXCEPT !.passes = n] \in Labels
    BY <1>1 DEF Labels
  <1>5. \A from, to \in Stages : [r EXCEPT !.stage = Moved(@, from, to)] \in Labels
    <2> TAKE from, to \in Stages
    <2>1. Moved(r.stage, from, to) \in SUBSET Stages
      BY <1>1 DEF Labels, Moved
    <2> QED BY <1>1, <2>1 DEF Labels
  <1> QED BY <1>1, <1>2, <1>3, <1>4, <1>5 DEF r

LEMMA MovedByHandType ==
  ASSUME TypeOK, NEW i \in Issues, NEW from \in Stages, NEW to \in Stages,
         label' = [label EXCEPT ![i].stage = Moved(@, from, to)]
  PROVE  label' \in [Issues -> Labels]
  <1> DEFINE r == [label[i] EXCEPT !.stage = Moved(@, from, to)]
  <1>1. r \in Labels
    BY UnmarkedType
  <1>2. label' = [label EXCEPT ![i] = r]
    BY DEF TypeOK
  <1> HIDE DEF r
  <1> QED BY <1>1, <1>2, RelabelType

LEMMA JudgeType ==
  ASSUME TypeOK, NEW i \in Issues,
         JudgeClear(i) \/ JudgePoor(i) \/ JudgeCeiling(i)
  PROVE  TypeOK'
  <1> DEFINE unmarked == [label[i] EXCEPT !.refinar = FALSE, !.passes = 0]
             refined == [label[i] EXCEPT !.refinar = TRUE]
             onward == Stop(i, "clearing")
  <1>1. /\ unmarked \in Labels /\ refined \in Labels /\ label[i] \in Labels
        /\ onward \in Ticks /\ onward.on \in Issues
        /\ Abort \in Ticks /\ Abort.point = "next"
    BY UnmarkedType, StopType, IdleType DEF Points, Abort
  <1>2. CASE JudgeClear(i)
    <2>1. /\ label' \in [Issues -> Labels]
          /\ age' \in [Issues -> {"fresh", "stale", "dead"}]
          /\ Budget
      <3>1. CASE \E how \in Outcomes :
                   Move(i, "em_revisao", "revisada", how,
                        IF how = "moved" THEN unmarked ELSE label[i])
        <4> HIDE DEF unmarked
        <4> QED BY <1>1, <3>1, MoveType DEF Stages
      <3>2. CASE /\ Fault(1)
                 /\ label' = [label EXCEPT ![i].stage = Moved(@, "em_revisao", "revisada")]
                 /\ age' = [age EXCEPT ![i] = "fresh"]
        <4>1. label' \in [Issues -> Labels]
          BY <3>2, MovedByHandType DEF Stages
        <4> QED BY <3>2, <4>1, FaultBudget DEF TypeOK
      <3> QED BY <1>2, <3>1, <3>2, Zenon DEF JudgeClear
    <2>2. tick' \in {onward, Abort} /\ spent' \in [Issues -> 0..MaxPasses]
      BY <1>2, CountTypes DEF JudgeClear, TypeOK
    <2> HIDE DEF onward
    <2> QED BY <1>1, <1>2, <2>1, <2>2 DEF JudgeClear, TypeOK, Budget
  <1>3. CASE JudgePoor(i)
    <2>1. /\ label' \in [Issues -> Labels]
          /\ age' \in [Issues -> {"fresh", "stale", "dead"}]
          /\ Budget
      <3>1. CASE \E how \in Outcomes :
                   Move(i, "em_revisao", "refino", how, refined)
        <4> HIDE DEF refined
        <4> QED BY <1>1, <3>1, MoveType DEF Stages
      <3>2. CASE Fault(1) /\ UNCHANGED <<label, age>>
        BY <3>2, FaultBudget DEF TypeOK
      <3> QED BY <1>3, <3>1, <3>2, Zenon DEF JudgePoor
    <2>2. tick' \in {onward, Abort}
      BY <1>3 DEF JudgePoor
    <2>3. mem' \in [Issues -> Memories]
      BY <1>3, CountTypes DEF JudgePoor, TypeOK, Memories
    <2> HIDE DEF onward
    <2> QED BY <1>1, <1>3, <2>1, <2>2, <2>3 DEF JudgePoor, TypeOK, Budget
  <1>4. CASE JudgeCeiling(i)
    <2>1. PICK F \in BlockFaults : Block(i, F, onward)
      BY <1>4 DEF JudgeCeiling
    <2> HIDE DEF onward
    <2> QED BY <1>1, <1>4, <2>1, BlockType DEF JudgeCeiling, TypeOK, Budget
  <1> QED BY <1>2, <1>3, <1>4

LEMMA CritiqueType ==
  ASSUME TypeOK,
         (\E i \in Issues : CritiqueClaim(i)) \/ CritiqueAccepted \/ CritiqueNotAccepted
  PROVE  TypeOK'
  <1>1. ASSUME NEW i \in Issues, CritiqueClaim(i) PROVE TypeOK'
    <2>1. PICK how \in Outcomes, own \in BOOLEAN :
            /\ Move(i, "nova", "em_revisao", how, [label[i] EXCEPT !.own = @ \/ own])
            /\ tick' = IF how = "moved" THEN Stop(i, "posting") ELSE Leave(i)
      BY <1>1 DEF CritiqueClaim
    <2>2. [label[i] EXCEPT !.own = @ \/ own] \in Labels
      <3>1. label[i] \in Labels
        BY DEF TypeOK
      <3>2. (label[i].own \/ own) \in BOOLEAN
        OBVIOUS
      <3> QED BY <3>1, <3>2 DEF Labels
    <2>3. /\ label' \in [Issues -> Labels]
          /\ age' \in [Issues -> {"fresh", "stale", "dead"}]
          /\ Budget
      BY <2>1, <2>2, MoveType DEF Stages
    <2>4. tick' \in Ticks /\ (tick'.point # "next" => tick'.on \in Issues)
      BY <2>1, LeaveType, StopType DEF Points
    <2> QED BY <1>1, <2>3, <2>4 DEF CritiqueClaim, TypeOK, Budget
  <1>2. CASE CritiqueAccepted
    BY <1>2, OnType, LeaveType DEF CritiqueAccepted, Accepted, TypeOK, Sessions, counters
  <1>3. CASE CritiqueNotAccepted
    <2>1. tick.on \in Issues /\ label[tick.on] \in Labels
      BY <1>3, OnType DEF CritiqueNotAccepted, NotAccepted
    <2>2. PICK how \in Outcomes : Move(tick.on, "em_revisao", "nova", how, label[tick.on])
      BY <1>3 DEF CritiqueNotAccepted
    <2>3. /\ label' \in [Issues -> Labels]
          /\ age' \in [Issues -> {"fresh", "stale", "dead"}]
          /\ Budget
      BY <2>1, <2>2, MoveType DEF Stages
    <2>4. live' \in [Issues -> SUBSET Sessions] /\ ledger' \in [Issues -> Sessions \cup {"none"}]
      BY <1>3, <2>1 DEF CritiqueNotAccepted, NotAccepted, TypeOK, Sessions
    <2> QED BY <1>3, <2>3, <2>4, LeaveType DEF CritiqueNotAccepted, TypeOK, Budget
  <1> QED BY <1>1, <1>2, <1>3

\* The steps that apply the verdict of a refinement.
LEMMA SettleType ==
  ASSUME TypeOK, NEW i \in Issues,
         \/ SettleError(i) \/ SettleDecomposed(i) \/ SettleWaiting(i)
         \/ SettleDiverged(i) \/ SettleConverged(i) \/ SettleChanged(i)
  PROVE  TypeOK'
  <1> DEFINE unmarked == [label[i] EXCEPT !.refinar = FALSE, !.passes = 0]
             onward == Stop(i, "clearing")
             known == [mem EXCEPT ![i].passes = Known(i)]
             forgot == [mem EXCEPT ![i] = Forgotten]
  <1>1. /\ unmarked \in Labels /\ label[i] \in Labels
        /\ onward \in Ticks /\ onward.on \in Issues
        /\ Abort \in Ticks /\ Abort.point = "next"
    BY UnmarkedType, StopType, IdleType DEF Points, Abort
  <1>2. known \in [Issues -> Memories] /\ forgot \in [Issues -> Memories]
    <2>1. Forgotten \in Memories
      BY CountTypes DEF Forgotten, Memories
    <2>2. [mem[i] EXCEPT !.passes = Known(i)] \in Memories
      BY CountTypes DEF TypeOK, Memories
    <2> QED BY <2>1, <2>2 DEF TypeOK
  <1>3. CASE SettleError(i)
    <2>1. PICK n \in 0..MaxPasses :
            /\ CountPass(i, [label[i] EXCEPT !.passes = n])
            /\ label' = [label EXCEPT ![i].passes = n]
      BY <1>3 DEF SettleError
    <2>2. label' \in [Issues -> Labels]
      <3> DEFINE r == [label[i] EXCEPT !.passes = n]
      <3>1. r \in Labels /\ label' = [label EXCEPT ![i] = r]
        BY <2>1, UnmarkedType DEF TypeOK
      <3> HIDE DEF r
      <3> QED BY <3>1, RelabelType
    <2>3. mem' \in [Issues -> Memories] /\ spent' \in [Issues -> 0..MaxPasses]
      BY <2>1, CountPassType
    <2>4. Budget
      BY <1>3, FaultBudget DEF SettleError
    <2> HIDE DEF onward
    <2> QED BY <1>1, <1>3, <2>2, <2>3, <2>4 DEF SettleError, TypeOK, Budget, onward
  <1>4. CASE SettleDecomposed(i)
    <2>1. /\ label' \in [Issues -> Labels]
          /\ age' \in [Issues -> {"fresh", "stale", "dead"}]
          /\ Budget
      <3>1. CASE \E how \in Outcomes :
                   Move(i, "refino", "decomposta", how,
                        IF how = "moved" THEN unmarked ELSE label[i])
        <4> HIDE DEF unmarked
        <4> QED BY <1>1, <3>1, MoveType DEF Stages
      <3>2. CASE /\ Fault(1)
                 /\ label' = [label EXCEPT ![i].stage = Moved(@, "refino", "decomposta")]
                 /\ age' = [age EXCEPT ![i] = "fresh"]
        <4>1. label' \in [Issues -> Labels]
          BY <3>2, MovedByHandType DEF Stages
        <4> QED BY <3>2, <4>1, FaultBudget DEF TypeOK
      <3> QED BY <1>4, <3>1, <3>2, Zenon DEF SettleDecomposed
    <2> QED BY <1>1, <1>2, <1>4, <2>1 DEF SettleDecomposed, TypeOK, Budget
  <1>5. CASE SettleWaiting(i)
    <2>1. label' \in [Issues -> Labels]
      <3> DEFINE r == [label[i] EXCEPT !.waiting = TRUE]
      <3>1. r \in Labels
        BY <1>1 DEF Labels
      <3>2. label' = [label EXCEPT ![i] = r] \/ label' = label
        BY <1>5 DEF SettleWaiting, TypeOK
      <3> HIDE DEF r
      <3> QED BY <3>1, <3>2 DEF TypeOK
    <2>2. Budget
      BY <1>5, FaultBudget DEF SettleWaiting
    <2>3. tick' \in {onward, Abort}
      BY <1>5 DEF SettleWaiting
    <2> HIDE DEF onward
    <2> QED BY <1>1, <1>5, <2>1, <2>2, <2>3 DEF SettleWaiting, TypeOK, Budget
  <1>6. CASE SettleDiverged(i)
    <2>1. PICK F \in BlockFaults : Block(i, F, onward)
      BY <1>6 DEF SettleDiverged
    <2> HIDE DEF onward
    <2> QED BY <1>1, <1>6, <2>1, BlockType DEF SettleDiverged, TypeOK, Budget
  <1>7. CASE SettleConverged(i)
    <2>1. /\ label' \in [Issues -> Labels]
          /\ age' \in [Issues -> {"fresh", "stale", "dead"}]
          /\ Budget
      <3>1. CASE \E how \in Outcomes :
                   Move(i, "refino", "revisada", how,
                        IF how = "moved" THEN unmarked ELSE label[i])
        <4> HIDE DEF unmarked
        <4> QED BY <1>1, <3>1, MoveType DEF Stages
      <3>2. CASE /\ Fault(1)
                 /\ label' = [label EXCEPT ![i].stage = Moved(@, "refino", "revisada")]
                 /\ age' = [age EXCEPT ![i] = "fresh"]
        <4>1. label' \in [Issues -> Labels]
          BY <3>2, MovedByHandType DEF Stages
        <4> QED BY <3>2, <4>1, FaultBudget DEF TypeOK
      <3> QED BY <1>7, <3>1, <3>2, Zenon DEF SettleConverged
    <2>2. mem' \in {known, forgot}
      BY <1>7 DEF SettleConverged, TypeOK
    <2>3. promoted' \in SUBSET Issues /\ spent' \in [Issues -> 0..MaxPasses]
      BY <1>7, CountTypes DEF SettleConverged, TypeOK
    <2> HIDE DEF known, forgot
    <2> QED BY <1>1, <1>2, <1>7, <2>1, <2>2, <2>3 DEF SettleConverged, TypeOK, Budget
  <1>8. CASE SettleChanged(i)
    <2>1. PICK how \in Outcomes, n \in 0..MaxPasses :
            Move(i, "refino", "nova", how, [label[i] EXCEPT !.passes = n])
      BY <1>8 DEF SettleChanged
    <2>2. /\ label' \in [Issues -> Labels]
          /\ age' \in [Issues -> {"fresh", "stale", "dead"}]
          /\ Budget
      BY <2>1, UnmarkedType, MoveType DEF Stages
    <2>3. mem' \in [Issues -> Memories] /\ spent' \in [Issues -> 0..MaxPasses]
      <3>1. /\ mem' = [mem EXCEPT ![i] = [passes |-> Bumped(Known(i)), prev |-> TRUE]]
            /\ spent' = [spent EXCEPT ![i] = IF @ < MaxPasses THEN @ + 1 ELSE @]
        BY <1>8 DEF SettleChanged
      <3>2. [passes |-> Bumped(Known(i)), prev |-> TRUE] \in Memories
        BY CountTypes DEF Memories
      <3> QED BY <3>1, <3>2, CountTypes DEF TypeOK
    <2> QED BY <1>1, <1>8, <2>2, <2>3 DEF SettleChanged, TypeOK, Budget
  <1> QED BY <1>3, <1>4, <1>5, <1>6, <1>7, <1>8

LEMMA RefineType ==
  ASSUME TypeOK, NEW i \in Issues,
         RefineSkip(i) \/ Rehydrate(i) \/ RefineCeiling(i) \/ RefineBegin(i)
  PROVE  TypeOK'
  <1>1. label[i] \in Labels
    BY DEF TypeOK
  <1>2. CASE RefineSkip(i)
    BY <1>2, LeaveType DEF RefineSkip, TypeOK, counters
  <1>3. CASE Rehydrate(i)
    <2>1. PICK from, how : how \in Outcomes /\ Move(i, from, "refino", how, label[i])
      BY <1>3, Zenon DEF Rehydrate
    <2>2. /\ label' \in [Issues -> Labels]
          /\ age' \in [Issues -> {"fresh", "stale", "dead"}]
          /\ Budget
      BY <1>1, <2>1, MoveType DEF Stages
    <2> QED BY <1>3, <2>2, LeaveType DEF Rehydrate, TypeOK, Budget
  <1>4. CASE RefineCeiling(i)
    <2> DEFINE onward == Leave(i)
    <2>1. PICK F \in BlockFaults : Block(i, F, onward)
      BY <1>4 DEF RefineCeiling
    <2>2. /\ onward \in Ticks /\ onward.point = "next"
          /\ Abort \in Ticks /\ Abort.point = "next"
      BY LeaveType, IdleType DEF Abort
    <2> HIDE DEF onward
    <2> QED BY <1>4, <2>1, <2>2, BlockType DEF RefineCeiling, TypeOK, Budget
  <1>5. CASE RefineBegin(i)
    <2>1. label' \in [Issues -> Labels]
      <3> DEFINE r == [label[i] EXCEPT !.refinar = TRUE]
      <3>1. r \in Labels
        BY UnmarkedType
      <3>2. label' = [label EXCEPT ![i] = r] \/ label' = label
        BY <1>5 DEF RefineBegin, TypeOK
      <3> HIDE DEF r
      <3> QED BY <3>1, <3>2 DEF TypeOK
    <2>2. Budget
      BY <1>5, FaultBudget DEF RefineBegin
    <2>3. mem' \in [Issues -> Memories]
      <3>1. [mem[i] EXCEPT !.passes = Known(i)] \in Memories
        BY CountTypes DEF TypeOK, Memories
      <3> QED BY <1>5, <3>1 DEF RefineBegin, TypeOK
    <2>4. tick' \in Ticks /\ tick'.on \in Issues
      BY <1>5, StopType DEF RefineBegin, Points
    <2> QED BY <1>5, <2>1, <2>2, <2>3, <2>4 DEF RefineBegin, TypeOK, Budget
  <1> QED BY <1>2, <1>3, <1>4, <1>5

LEMMA RefinePostType ==
  ASSUME TypeOK, RefineAccepted \/ RefineNotAccepted
  PROVE  TypeOK'
  <1>1. tick.on \in Issues /\ label[tick.on] \in Labels
    BY OnType DEF RefineAccepted, Accepted, RefineNotAccepted, NotAccepted
  <1>2. CASE RefineAccepted
    <2> DEFINE t == [Leave(tick.on) EXCEPT !.slots = @ - 1]
    <2>1. t \in Ticks /\ t.point = "next"
      <3>1. Leave(tick.on) \in Ticks /\ Leave(tick.on).point = "next"
        BY LeaveType
      <3> QED BY <3>1 DEF Ticks
    <2>2. tick' = t
      BY <1>2 DEF RefineAccepted
    <2> HIDE DEF t
    <2> QED BY <1>1, <1>2, <2>1, <2>2
            DEF RefineAccepted, Accepted, TypeOK, Sessions, counters
  <1>3. CASE RefineNotAccepted
    <2>1. PICK n \in 0..MaxPasses :
            /\ CountPass(tick.on, [label[tick.on] EXCEPT !.passes = n])
            /\ label' = [label EXCEPT ![tick.on].passes = n]
      BY <1>3 DEF RefineNotAccepted
    <2>2. label' \in [Issues -> Labels]
      <3> DEFINE r == [label[tick.on] EXCEPT !.passes = n]
      <3>1. r \in Labels /\ label' = [label EXCEPT ![tick.on] = r]
        BY <1>1, <2>1, UnmarkedType DEF TypeOK
      <3> HIDE DEF r
      <3> QED BY <1>1, <3>1, RelabelType
    <2>3. mem' \in [Issues -> Memories] /\ spent' \in [Issues -> 0..MaxPasses]
      BY <1>1, <2>1, CountPassType
    <2>4. Budget
      BY <1>3, FaultBudget DEF RefineNotAccepted
    <2>5. live' \in [Issues -> SUBSET Sessions] /\ ledger' \in [Issues -> Sessions \cup {"none"}]
      BY <1>1, <1>3 DEF RefineNotAccepted, NotAccepted, TypeOK, Sessions
    <2> QED BY <1>3, <2>2, <2>3, <2>4, <2>5, LeaveType DEF RefineNotAccepted, TypeOK, Budget
  <1> QED BY <1>2, <1>3

LEMMA DecomposeType ==
  ASSUME TypeOK, RefineDone \/ DecomposeFails \/ Decompose
  PROVE  TypeOK'
  <1>1. CASE RefineDone
    <2>1. PICK A \in SUBSET {i \in Wears("revisada") : ~label[i].blocked /\ ~label[i].own} :
            LET owned == {i \in Wears("revisada") : i \in A \/ label[i].own}
                S == {i \in owned : /\ label[i].intent /\ ~label[i].blocked
                                    /\ "decomposta" \notin label[i].stage}
            IN  /\ label' = [i \in Issues |-> [label[i] EXCEPT !.own = @ \/ i \in A]]
                /\ Fault(Cardinality({i \in Wears("revisada") : ~label[i].blocked} \ owned))
                /\ \/ S = {} /\ tick' = IdleTick
                   \/ \E i \in Foremost(S) :
                         tick' = [IdleTick EXCEPT !.at = "decompose", !.point = "waiting",
                                                  !.on = i]
      BY <1>1, Zenon DEF RefineDone
    <2> DEFINE owned == {i \in Wears("revisada") : i \in A \/ label[i].own}
               S == {i \in owned : /\ label[i].intent /\ ~label[i].blocked
                                   /\ "decomposta" \notin label[i].stage}
               lost == {i \in Wears("revisada") : ~label[i].blocked} \ owned
    <2>2. label' \in [Issues -> Labels]
      <3>1. \A i \in Issues : [label[i] EXCEPT !.own = @ \/ i \in A] \in Labels
        <4> TAKE i \in Issues
        <4>1. (label[i].own \/ i \in A) \in BOOLEAN /\ label[i] \in Labels
          BY DEF TypeOK
        <4> QED BY <4>1 DEF Labels
      <3> QED BY <2>1, <3>1
    <2>3. Budget
      <3>1. lost \in SUBSET Issues
        BY DEF Wears
      <3>2. Fault(Cardinality(lost))
        BY <2>1, Zenon
      <3> HIDE DEF lost
      <3> QED BY <3>1, <3>2, PartSize, FaultBudget
    <2>4. S \in SUBSET Issues
      BY DEF Wears
    <2>5. \/ tick' = IdleTick
          \/ \E i \in S :
                tick' = [IdleTick EXCEPT !.at = "decompose", !.point = "waiting", !.on = i]
      BY <2>1, Zenon DEF Foremost
    <2> HIDE DEF S
    <2>6. tick' \in Ticks /\ (tick'.point # "next" => tick'.on \in Issues)
      BY <2>4, <2>5, IdleType DEF Ticks, Phases, Points
    <2> QED BY <1>1, <2>2, <2>3, <2>6 DEF RefineDone, TypeOK, Budget
  <1>2. CASE DecomposeFails
    BY <1>2, IdleType DEF DecomposeFails, TypeOK, counters
  <1>3. CASE Decompose
    <2>1. tick.on \in Issues /\ label[tick.on] \in Labels
      BY <1>3, OnType DEF Decompose
    <2>2. /\ label' \in [Issues -> Labels]
          /\ age' \in [Issues -> {"fresh", "stale", "dead"}]
          /\ Budget
      BY <1>3, <2>1, MoveType DEF Decompose, Stages
    <2> QED BY <1>3, <2>2, IdleType DEF Decompose, TypeOK, Budget
  <1> QED BY <1>1, <1>2, <1>3

LEMMA EnvironmentType ==
  ASSUME TypeOK,
         Kill \/ \E i \in Issues : SessionEnds(i) \/ Ages(i) \/ HumanEdits(i)
  PROVE  TypeOK'
  <1>1. ASSUME NEW i \in Issues, SessionEnds(i) PROVE TypeOK'
    BY <1>1 DEF SessionEnds, TypeOK, counters
  <1>2. ASSUME NEW i \in Issues, Ages(i) PROVE TypeOK'
    BY <1>2 DEF Ages, TypeOK, counters
  <1>3. ASSUME NEW i \in Issues, HumanEdits(i) PROVE TypeOK'
    <2>1. PICK edited \in {[label[i] EXCEPT !.blocked = ~@],
                           [label[i] EXCEPT !.waiting = FALSE],
                           [label[i] EXCEPT !.refinar = TRUE]} :
            label' = [label EXCEPT ![i] = edited]
      BY <1>3 DEF HumanEdits
    <2>2. edited \in Labels
      BY DEF TypeOK, Labels
    <2>3. label' \in [Issues -> Labels]
      BY <2>1, <2>2, RelabelType
    <2>4. edits' \in Nat /\ faults + edits' <= MaxTrouble
      BY <1>3 DEF HumanEdits, Room, TypeOK
    <2> QED BY <1>3, <2>3, <2>4 DEF HumanEdits, TypeOK
  <1>4. CASE Kill
    <2>1. [i \in Issues |-> Forgotten] \in [Issues -> Memories]
      BY CountTypes DEF Forgotten, Memories
    <2>2. live' \in [Issues -> SUBSET Sessions]
      BY <1>4, OnType DEF Kill, TypeOK, Sessions
    <2>3. kills' \in 0..MaxKills
      BY <1>4, BoundsAssumption DEF Kill, TypeOK
    <2> QED BY <1>4, <2>1, <2>2, <2>3, IdleType DEF Kill, TypeOK
  <1> QED BY <1>1, <1>2, <1>3, <1>4

LEMMA NextType == TypeOK /\ [Next]_vars => TypeOK'
  <1> SUFFICES ASSUME TypeOK, [Next]_vars PROVE TypeOK'
    OBVIOUS
  <1>1. CASE UNCHANGED vars
    BY <1>1 DEF vars, counters, TypeOK
  <1>2. CASE TickStep
    <2>1. ASSUME NEW i \in Issues, IssueStep(i) PROVE TypeOK'
      BY <2>1, ReapType, VerdictType, JudgeType, CritiqueType, SettleType, RefineType
         DEF IssueStep, Phases
    <2> QED BY <1>2, <2>1, ListType, ClearType, CritiqueType, RefinePostType, DecomposeType
            DEF TickStep
  <1>3. CASE Kill \/ \E i \in Issues : SessionEnds(i) \/ Ages(i) \/ HumanEdits(i)
    BY <1>3, EnvironmentType
  <1> QED BY <1>1, <1>2, <1>3 DEF Next

\* The gate's state stays within its types for any set of issues and any
\* bounds: counts never pass their ceilings, and a tick that is in the middle
\* of something is in the middle of an issue.
THEOREM RefineTypeOK == Spec => []TypeOK
  BY InitType, NextType, PTL DEF Spec

-----------------------------------------------------------------------------
(* One stage at a time, and promotions that stick *)

Alone(i) == \A s, u \in label[i].stage : s = u

\* As long as nothing failed an issue has one stage, and the issues a tick still
\* works on wear the stage they were listed for.
StageInv ==
    /\ \A i \in Issues : Alone(i)
    /\ \A i \in tick.list :
          /\ tick.at = "judge" => "em_revisao" \in label[i].stage
          /\ tick.at = "critique" => "nova" \in label[i].stage
          /\ tick.at = "settle" => "refino" \in label[i].stage
          /\ tick.at = "refine" => "decomposta" \notin label[i].stage
    /\ tick.at = "critique" /\ tick.point = "posting" =>
          "em_revisao" \in label[tick.on].stage
    /\ tick.point = "waiting" => "revisada" \in label[tick.on].stage

\* Nothing is promoted while critiques are read and dispatched, and what is
\* promoted is on no list the tick still works through.
PromotionInv ==
    /\ tick.at \in {"judge", "critique"} => promoted = {}
    /\ tick.at \in {"settle", "refine"} => tick.list \cap promoted = {}
    /\ PromotionSticks

GateInv == PromotionInv /\ (faults = 0 => StageInv)

\* A step that works on i, keeps the phase (or ends the tick), leaves i with
\* one stage unless something failed, and unpromoted or promoted without a
\* refine state, keeps the invariant.
LEMMA OneIssue ==
  ASSUME TypeOK, GateInv, NEW i \in Issues,
         \A j \in Issues \ {i} : label'[j].stage = label[j].stage,
         promoted' \subseteq promoted \cup {i},
         i \in promoted' => "refino" \notin label'[i].stage,
         tick.at \in {"judge", "critique"} => promoted' = {},
         faults' = 0 => faults = 0 /\ Alone(i)',
         \/ tick' = IdleTick
         \/ /\ tick'.at = tick.at /\ tick'.list \subseteq tick.list \ {i}
            /\ tick'.point # "waiting"
            /\ tick.at = "critique" /\ tick'.point = "posting" /\ faults' = 0 =>
                  "em_revisao" \in label'[tick'.on].stage
  PROVE  GateInv'
  <1>1. tick.list \subseteq Issues /\ IdleTick.at = "idle" /\ IdleTick.list = {}
        /\ IdleTick.point = "next"
    BY DEF TypeOK, Ticks, IdleTick
  <1>2. PromotionInv'
    <2>1. PromotionSticks'
      BY DEF GateInv, PromotionInv, PromotionSticks, TypeOK
    <2>2. CASE tick' = IdleTick
      BY <1>1, <2>1, <2>2 DEF PromotionInv
    <2>3. CASE tick' # IdleTick
      <3>1. tick'.at = tick.at /\ tick'.list \subseteq tick.list \ {i}
        BY <2>3
      <3>2. tick.at \in {"judge", "critique"} => promoted' = {}
        OBVIOUS
      <3>3. tick.at \in {"settle", "refine"} => tick'.list \cap promoted' = {}
        BY <3>1 DEF GateInv, PromotionInv
      <3> QED BY <2>1, <3>1, <3>2, <3>3 DEF PromotionInv
    <2> QED BY <2>2, <2>3
  <1>3. ASSUME faults' = 0 PROVE StageInv'
    <2>1. StageInv /\ Alone(i)'
      BY <1>3 DEF GateInv
    <2>2. \A j \in Issues : Alone(j)'
      BY <2>1 DEF StageInv, Alone
    <2>3. CASE tick' = IdleTick
      BY <1>1, <2>2, <2>3 DEF StageInv
    <2>4. CASE tick' # IdleTick
      BY <1>1, <1>3, <2>1, <2>2, <2>4 DEF StageInv
    <2> QED BY <2>3, <2>4
  <1> QED BY <1>2, <1>3 DEF GateInv

\* How a tick goes on after an issue.
LEMMA Onward ==
  ASSUME TypeOK, NEW i
  PROVE  /\ Leave(i).at = tick.at /\ Leave(i).list = tick.list \ {i}
         /\ Leave(i).point = "next"
         /\ Stop(i, "clearing").at = tick.at /\ Stop(i, "clearing").list = tick.list \ {i}
         /\ Stop(i, "clearing").point = "clearing"
         /\ Stop(i, "posting").at = tick.at /\ Stop(i, "posting").list = tick.list \ {i}
         /\ Stop(i, "posting").point = "posting" /\ Stop(i, "posting").on = i
         /\ Abort = IdleTick
  BY DEF TypeOK, Leave, Stop, Ticks, Points, Abort

\* A move away from the only stage leaves one stage.
LEMMA MoveAlone ==
  ASSUME TypeOK, NEW i \in Issues, NEW from, NEW to, NEW how \in Outcomes,
         NEW rest \in Labels, rest.stage = label[i].stage,
         Move(i, from, to, how, rest)
  PROVE  /\ \A j \in Issues \ {i} : label'[j].stage = label[j].stage
         /\ faults' = 0 => /\ faults = 0
                           /\ label'[i].stage = Moved(label[i].stage, from, to)
         /\ faults' = 0 /\ Alone(i) /\ from \in label[i].stage => Alone(i)'
         /\ to # "refino" /\ "refino" \notin label[i].stage =>
               "refino" \notin label'[i].stage
  <1>1. /\ \A j \in Issues \ {i} : label'[j] = label[j]
        /\ how = "moved" => label'[i].stage = Moved(label[i].stage, from, to)
        /\ how # "moved" => label'[i].stage \subseteq label[i].stage
        /\ faults' = 0 => faults = 0 /\ how = "moved"
    BY MoveStage
  <1>2. faults' = 0 /\ Alone(i) /\ from \in label[i].stage => Alone(i)'
    BY <1>1 DEF Moved, Alone
  <1>3. to # "refino" /\ "refino" \notin label[i].stage =>
               "refino" \notin label'[i].stage
    BY <1>1 DEF Moved
  <1> QED BY <1>1, <1>2, <1>3

LEMMA BlockAlone ==
  ASSUME TypeOK, NEW i \in Issues, NEW F \in BlockFaults, NEW onward,
         Block(i, F, onward)
  PROVE  /\ \A j \in Issues \ {i} : label'[j].stage = label[j].stage
         /\ faults' = 0 => faults = 0
         /\ faults' = 0 /\ label[i].stage \subseteq {"nova", "em_revisao", "refino"}
               => Alone(i)'
  <1> DEFINE stripped == [label[i] EXCEPT !.stage = @ \ {"nova", "em_revisao"}, !.passes = 0]
             struck == IF "strip" \in F THEN label[i] ELSE stripped
             rested == IF "rest" \in F THEN struck
                       ELSE [struck EXCEPT !.stage = @ \cup {"refino"}]
             marked == [rested EXCEPT !.refinar = TRUE,
                                      !.blocked = @ \/ "block" \notin F]
  <1>1. label' = [label EXCEPT ![i] = rested] \/ label' = [label EXCEPT ![i] = marked]
    BY DEF Block
  <1>2. label[i] \in Labels
    BY DEF TypeOK
  <1>3. marked.stage = rested.stage
    BY <1>2 DEF Labels
  <1>4. "strip" \notin F => struck.stage = label[i].stage \ {"nova", "em_revisao"}
    BY <1>2 DEF Labels
  <1>5. F = {} => rested.stage = (label[i].stage \ {"nova", "em_revisao"}) \cup {"refino"}
    BY <1>2, <1>4 DEF Labels
  <1>6. faults' = 0 => faults = 0 /\ F = {}
    BY FaultSets DEF Block, Fault, TypeOK
  <1> HIDE DEF rested, marked
  <1>7. label'[i].stage = rested.stage /\ \A j \in Issues \ {i} : label'[j] = label[j]
    BY <1>1, <1>3 DEF TypeOK
  <1> QED BY <1>5, <1>6, <1>7 DEF Alone

\* A step that only crosses i off the list.
LEMMA CrossOff ==
  ASSUME TypeOK, GateInv, NEW i \in Issues,
         \A j \in Issues : label'[j].stage = label[j].stage,
         promoted' = promoted,
         faults' = 0 => faults = 0,
         tick'.at = tick.at, tick'.list \subseteq tick.list \ {i},
         tick'.point # "waiting",
         tick'.point = "posting" => tick.at # "critique"
  PROVE  GateInv'
  <1>1. i \in promoted' => "refino" \notin label'[i].stage
    BY DEF GateInv, PromotionInv, PromotionSticks
  <1>2. tick.at \in {"judge", "critique"} => promoted' = {}
    BY DEF GateInv, PromotionInv
  <1>3. faults' = 0 => faults = 0 /\ Alone(i)'
    BY DEF GateInv, StageInv, Alone
  <1> QED BY <1>1, <1>2, <1>3, OneIssue

\* A step that leaves stages, promotions and the tick alone.
LEMMA Unmoved ==
  ASSUME TypeOK, GateInv,
         \A j \in Issues : label'[j].stage = label[j].stage,
         promoted' = promoted, faults' = 0 => faults = 0, tick' = tick
  PROVE  GateInv'
  <1>1. PromotionInv'
    BY DEF GateInv, PromotionInv, PromotionSticks, TypeOK
  <1>2. ASSUME faults' = 0 PROVE StageInv'
    <2>1. StageInv
      BY <1>2 DEF GateInv
    <2>2. \A j \in Issues : Alone(j)'
      BY <2>1 DEF StageInv, Alone
    <2>3. tick.list \subseteq Issues /\ (tick.point # "next" => tick.on \in Issues)
      BY DEF TypeOK, Ticks
    <2> QED BY <2>1, <2>2, <2>3 DEF StageInv
  <1> QED BY <1>1, <1>2 DEF GateInv

\* A step that begins a phase with the issues of S.
LEMMA Listed ==
  ASSUME TypeOK, GateInv, NEW phase \in Phases, NEW S \in SUBSET Issues, NEW slots,
         label' = label, Enter(phase, S, slots),
         promoted' = promoted \/ promoted' = {},
         phase \in {"judge", "critique"} => promoted' = {},
         phase \in {"settle", "refine"} => S \cap promoted' = {},
         \A i \in S : /\ phase = "judge" => "em_revisao" \in label[i].stage
                      /\ phase = "critique" => "nova" \in label[i].stage
                      /\ phase = "settle" => "refino" \in label[i].stage
                      /\ phase = "refine" => "decomposta" \notin label[i].stage
  PROVE  GateInv'
  <1>1. tick'.at = phase /\ tick'.list \subseteq S /\ tick'.point = "next"
    BY DEF Enter
  <1>2. faults' = 0 => faults = 0
    BY DEF Enter, Fault, NoFault, TypeOK
  <1>3. PromotionInv'
    BY <1>1 DEF GateInv, PromotionInv, PromotionSticks
  <1>4. ASSUME faults' = 0 PROVE StageInv'
    <2>1. \A i \in Issues : Alone(i)'
      BY <1>2, <1>4 DEF GateInv, StageInv, Alone
    <2> QED BY <1>1, <2>1 DEF StageInv
  <1> QED BY <1>3, <1>4 DEF GateInv

LEMMA ListGate ==
  ASSUME TypeOK, GateInv,
         StartTick \/ ReapDone \/ JudgeDone \/ CritiqueDone
  PROVE  GateInv'
  <1>1. CASE StartTick
    BY <1>1, Listed DEF StartTick, Phases, Wears
  <1>2. CASE ReapDone
    BY <1>2, Listed DEF ReapDone, Phases, Wears
  <1>3. CASE JudgeDone
    <2>1. promoted = {}
      BY <1>3 DEF JudgeDone, Done, GateInv, PromotionInv
    <2> DEFINE new == {i \in Wears("nova") : ~label[i].blocked}
    <2>2. PICK others \in OtherWork : Enter("critique", FirstOf(new, Free(others)), 0)
      BY <1>3, Zenon DEF JudgeDone
    <2>3. FirstOf(new, Free(others)) \subseteq {i \in Issues : "nova" \in label[i].stage}
      BY DEF FirstOf, Wears
    <2> QED BY <1>3, <2>1, <2>2, <2>3, Listed DEF JudgeDone, Phases
  <1>4. CASE CritiqueDone
    <2>1. promoted = {}
      BY <1>4 DEF CritiqueDone, Done, GateInv, PromotionInv
    <2> QED BY <1>4, <2>1, Listed DEF CritiqueDone, Phases, Wears
  <1> QED BY <1>1, <1>2, <1>3, <1>4

\* SettleDone lists for refinement what Candidate admits: nothing promoted.
LEMMA SettleDoneGate == ASSUME TypeOK, GateInv, SettleDone PROVE GateInv'
  <1>1. PICK lag \in SUBSET Wears("revisada"), others \in OtherWork :
          LET slots == Free(others)
          IN  /\ tick' = [at |-> "refine", point |-> "next", on |-> 0, slots |-> slots,
                          list |-> IF slots = 0 THEN {}
                                   ELSE {i \in Issues : Candidate(i, lag)}]
              /\ Fault(Cardinality(lag))
    BY Zenon DEF SettleDone
  <1>2. /\ tick'.at = "refine" /\ tick'.point = "next"
        /\ \A i \in tick'.list : i \in Issues /\ Candidate(i, lag)
    BY <1>1
  <1>3. UNCHANGED <<label, promoted>>
    BY DEF SettleDone
  <1>4. faults' = 0 => faults = 0
    <2>1. lag \in SUBSET Issues
      BY DEF Wears
    <2>2. Cardinality(lag) \in Nat
      BY <2>1, PartSize
    <2> QED BY <1>1, <2>2 DEF Fault, TypeOK
  <1>5. PromotionInv'
    BY <1>2, <1>3 DEF GateInv, PromotionInv, PromotionSticks, Candidate
  <1>6. ASSUME faults' = 0 PROVE StageInv'
    <2>1. \A i \in Issues : Alone(i)'
      BY <1>3, <1>4, <1>6 DEF GateInv, StageInv, Alone
    <2> QED BY <1>2, <1>3, <2>1 DEF StageInv, Candidate
  <1> QED BY <1>5, <1>6 DEF GateInv

\* The labels that change besides the stage change no stage.
LEMMA MarksKeepStage ==
  ASSUME NEW r \in Labels, NEW b, NEW n, NEW a
  PROVE  /\ [r EXCEPT !.refinar = b].stage = r.stage
         /\ [r EXCEPT !.waiting = b].stage = r.stage
         /\ [r EXCEPT !.blocked = b].stage = r.stage
         /\ [r EXCEPT !.own = b].stage = r.stage
         /\ [r EXCEPT !.passes = n].stage = r.stage
         /\ [r EXCEPT !.refinar = b, !.passes = n].stage = r.stage
         /\ [r EXCEPT !.own = b, !.attempt = a].stage = r.stage
  BY DEF Labels

\* The labels of an issue that loses the marks of refinement once it moved.
LEMMA UnmarkedRest ==
  ASSUME TypeOK, NEW i \in Issues, NEW how
  PROVE  LET rest == IF how = "moved"
                     THEN [label[i] EXCEPT !.refinar = FALSE, !.passes = 0]
                     ELSE label[i]
         IN  rest \in Labels /\ rest.stage = label[i].stage
  <1> DEFINE r == [label[i] EXCEPT !.refinar = FALSE, !.passes = 0]
  <1>1. label[i] \in Labels /\ r \in Labels
    BY UnmarkedType
  <1>2. r.stage = label[i].stage
    BY <1>1 DEF Labels
  <1> HIDE DEF r
  <1> QED BY <1>1, <1>2 DEF r

\* Changing the labels of one issue to r.
LEMMA Relabel ==
  ASSUME TypeOK, NEW i \in Issues, NEW r, label' = [label EXCEPT ![i] = r]
  PROVE  label'[i] = r /\ \A j \in Issues \ {i} : label'[j] = label[j]
  BY DEF TypeOK

LEMMA WaitGate ==
  ASSUME TypeOK, GateInv, NEW i \in Issues, NEW phase,
         \/ ReapSkip(i) \/ RefineSkip(i)
         \/ VerdictPending(phase, i) \/ VerdictGone(phase, i)
  PROVE  GateInv'
  <1>1. label' = label /\ promoted' = promoted /\ tick' = Leave(i)
    BY DEF ReapSkip, RefineSkip, VerdictPending, VerdictGone
  <1>2. faults' = 0 => faults = 0
    BY DEF ReapSkip, RefineSkip, VerdictPending, VerdictGone, Fault, NoFault, counters, TypeOK
  <1> QED BY <1>1, <1>2, Onward, CrossOff

LEMMA ClearGate == ASSUME TypeOK, GateInv, Clear PROVE GateInv'
  BY OnType, Onward, CrossOff DEF Clear, counters

\* From a claim that is over the issue goes to nova or revisada, or is blocked.
LEMMA ReapGate ==
  ASSUME TypeOK, GateInv, NEW i \in Issues, Reap(i)
  PROVE  GateInv'
  <1> DEFINE n == label[i].attempt + 1
             cleared == [label[i] EXCEPT !.own = FALSE, !.attempt = 0]
  <1>1. ReapFrom(i) \in label[i].stage /\ ReapTo(i) # "refino"
    BY DEF Reap, Expired, ReapFrom, ReapTo
  <1>2. label[i] \in Labels
    BY DEF TypeOK
  <1>3. PICK how \in Outcomes :
             IF n < MaxReaps
             THEN Move(i, ReapFrom(i), ReapTo(i), how,
                       CASE how = "moved" -> [cleared EXCEPT !.attempt = n]
                         [] how = "kept"  -> label[i]
                         [] how = "lost"  -> cleared)
             ELSE /\ label' = [label EXCEPT ![i] =
                         CASE how = "moved" ->
                                [cleared EXCEPT !.stage = @ \ {ReapFrom(i)},
                                                !.blocked = TRUE, !.attempt = MaxReaps]
                           [] how = "kept"  ->
                                [label[i] EXCEPT !.blocked = TRUE, !.attempt = MaxReaps]
                           [] how = "lost"  -> [cleared EXCEPT !.stage = @ \ {ReapFrom(i)}]]
                  /\ IF how = "moved" THEN NoFault ELSE Fault(1)
                  /\ UNCHANGED age
    BY Zenon DEF Reap
  <1>4. cleared \in Labels /\ cleared.stage = label[i].stage
    <2>1. 0 \in 0..MaxReaps
      BY BoundsAssumption
    <2> QED BY <1>2, <2>1 DEF Labels
  <1>5. /\ \A j \in Issues \ {i} : label'[j].stage = label[j].stage
        /\ faults' = 0 => faults = 0 /\ (Alone(i) => Alone(i)')
        /\ "refino" \notin label[i].stage => "refino" \notin label'[i].stage
    <2>1. CASE n < MaxReaps
      <3> DEFINE rest == CASE how = "moved" -> [cleared EXCEPT !.attempt = n]
                           [] how = "kept"  -> label[i]
                           [] how = "lost"  -> cleared
      <3>1. [cleared EXCEPT !.attempt = n] \in Labels
            /\ [cleared EXCEPT !.attempt = n].stage = label[i].stage
        <4>1. n \in 0..MaxReaps
          BY <1>2, <2>1, BoundsAssumption DEF Labels
        <4> HIDE DEF n, cleared
        <4> QED BY <1>4, <4>1 DEF Labels
      <3>2. rest \in Labels /\ rest.stage = label[i].stage
        <4> HIDE DEF cleared, n
        <4> QED BY <1>2, <1>4, <3>1 DEF Outcomes
      <3>3. Move(i, ReapFrom(i), ReapTo(i), how, rest)
        BY <1>3, <2>1
      <3> HIDE DEF rest
      <3> QED BY <1>1, <3>2, <3>3, MoveAlone
    <2>2. CASE ~(n < MaxReaps)
      <3> DEFINE r == CASE how = "moved" ->
                                [cleared EXCEPT !.stage = @ \ {ReapFrom(i)},
                                                !.blocked = TRUE, !.attempt = MaxReaps]
                           [] how = "kept"  ->
                                [label[i] EXCEPT !.blocked = TRUE, !.attempt = MaxReaps]
                           [] how = "lost"  -> [cleared EXCEPT !.stage = @ \ {ReapFrom(i)}]
      <3>1. label' = [label EXCEPT ![i] = r]
        BY <1>3, <2>2
      <3>2. r.stage \subseteq label[i].stage
        <4> HIDE DEF cleared
        <4> QED BY <1>2, <1>4 DEF Outcomes, Labels
      <3>3. faults' = 0 => faults = 0
        BY <1>3, <2>2 DEF NoFault, Fault, TypeOK
      <3> HIDE DEF r
      <3> QED BY <3>1, <3>2, <3>3, Relabel DEF Alone
    <2> QED BY <2>1, <2>2
  <1>6. tick' = Leave(i) /\ promoted' = promoted
    BY DEF Reap
  <1>7. faults' = 0 => Alone(i)'
    BY <1>5 DEF GateInv, StageInv
  <1>8. i \in promoted' => "refino" \notin label'[i].stage
    BY <1>5, <1>6 DEF GateInv, PromotionInv, PromotionSticks
  <1>9. tick.at \in {"judge", "critique"} => promoted' = {}
    BY <1>6 DEF GateInv, PromotionInv
  <1> QED BY <1>5, <1>6, <1>7, <1>8, <1>9, Onward, OneIssue

\* What a verdict of either kind does to the stages of its issue, which is
\* in the stage it was listed for.
LEMMA JudgeGate ==
  ASSUME TypeOK, GateInv, NEW i \in Issues,
         JudgeClear(i) \/ JudgePoor(i) \/ JudgeCeiling(i)
  PROVE  GateInv'
  <1>1. i \in tick.list /\ tick.at = "judge" /\ promoted = {} /\ promoted' = {}
    BY DEF JudgeClear, JudgePoor, JudgeCeiling, At, Foremost, GateInv, PromotionInv
  <1>2. faults = 0 => Alone(i) /\ "em_revisao" \in label[i].stage
    BY <1>1 DEF GateInv, StageInv
  <1>3. label[i] \in Labels
    BY DEF TypeOK
  <1>4. \/ tick' = IdleTick
        \/ tick' = Stop(i, "clearing")
    BY DEF JudgeClear, JudgePoor, JudgeCeiling, Block, Abort
  <1>5. /\ \A j \in Issues \ {i} : label'[j].stage = label[j].stage
        /\ faults' = 0 => faults = 0 /\ Alone(i)'
    <2>1. CASE JudgeClear(i)
      <3> DEFINE rest(how) == IF how = "moved"
                              THEN [label[i] EXCEPT !.refinar = FALSE, !.passes = 0]
                              ELSE label[i]
      <3>1. CASE \E how \in Outcomes : Move(i, "em_revisao", "revisada", how, rest(how))
        <4>1. PICK how \in Outcomes : Move(i, "em_revisao", "revisada", how, rest(how))
          BY <3>1
        <4>2. rest(how) \in Labels /\ rest(how).stage = label[i].stage
          BY <1>3, UnmarkedRest
        <4> HIDE DEF rest
        <4> QED BY <1>2, <4>1, <4>2, MoveAlone
      <3>2. CASE /\ Fault(1)
                 /\ label' = [label EXCEPT ![i].stage = Moved(@, "em_revisao", "revisada")]
        BY <3>2 DEF Fault, TypeOK
      <3> QED BY <2>1, <3>1, <3>2 DEF JudgeClear
    <2>2. CASE JudgePoor(i)
      <3> DEFINE rest == [label[i] EXCEPT !.refinar = TRUE]
      <3>1. rest \in Labels /\ rest.stage = label[i].stage
        BY <1>3, UnmarkedType, MarksKeepStage
      <3>2. CASE \E how \in Outcomes : Move(i, "em_revisao", "refino", how, rest)
        <4> HIDE DEF rest
        <4> QED BY <1>2, <3>1, <3>2, MoveAlone
      <3>3. CASE Fault(1) /\ label' = label
        BY <3>3 DEF Fault, TypeOK
      <3> QED BY <2>2, <3>2, <3>3 DEF JudgePoor
    <2>3. CASE JudgeCeiling(i)
      <3>1. PICK F \in BlockFaults : Block(i, F, Stop(i, "clearing"))
        BY <2>3 DEF JudgeCeiling
      <3>2. faults = 0 => label[i].stage \subseteq {"nova", "em_revisao", "refino"}
        BY <1>2 DEF Alone
      <3> QED BY <3>1, <3>2, BlockAlone
    <2> QED BY <2>1, <2>2, <2>3
  <1>6. tick' = IdleTick \/ (tick'.at = tick.at /\ tick'.list = tick.list \ {i}
                             /\ tick'.point = "clearing")
    <2>1. CASE tick' = Stop(i, "clearing")
      BY <2>1, Onward
    <2> QED BY <1>4, <2>1
  <1> QED BY <1>1, <1>5, <1>6, OneIssue

LEMMA CritiqueGate ==
  ASSUME TypeOK, GateInv,
         \/ \E i \in Issues : CritiqueClaim(i)
         \/ CritiqueAccepted \/ CritiqueNotAccepted
  PROVE  GateInv'
  <1>1. ASSUME NEW i \in Issues, CritiqueClaim(i) PROVE GateInv'
    <2>1. i \in tick.list /\ tick.at = "critique" /\ promoted = {} /\ promoted' = {}
      BY <1>1 DEF CritiqueClaim, At, Foremost, GateInv, PromotionInv
    <2>2. faults = 0 => Alone(i) /\ "nova" \in label[i].stage
      BY <2>1 DEF GateInv, StageInv
    <2>3. PICK how \in Outcomes, own \in BOOLEAN :
            /\ Move(i, "nova", "em_revisao", how, [label[i] EXCEPT !.own = @ \/ own])
            /\ tick' = IF how = "moved" THEN Stop(i, "posting") ELSE Leave(i)
      BY <1>1 DEF CritiqueClaim
    <2> DEFINE rest == [label[i] EXCEPT !.own = @ \/ own]
    <2>4. rest \in Labels /\ rest.stage = label[i].stage
      BY DEF TypeOK, Labels
    <2>5. Move(i, "nova", "em_revisao", how, rest)
      BY <2>3
    <2> HIDE DEF rest
    <2>6. /\ \A j \in Issues \ {i} : label'[j].stage = label[j].stage
          /\ faults' = 0 => faults = 0 /\ Alone(i)'
      BY <2>2, <2>4, <2>5, MoveAlone
    <2>7. how = "moved" => "em_revisao" \in label'[i].stage
      <3>1. how = "moved" => label'[i].stage = Moved(label[i].stage, "nova", "em_revisao")
        BY <2>4, <2>5, MoveStage
      <3> QED BY <3>1 DEF Moved
    <2>8. CASE how = "moved"
      BY <2>1, <2>3, <2>6, <2>7, <2>8, Onward, OneIssue
    <2>9. CASE how # "moved"
      BY <2>1, <2>3, <2>6, <2>9, Onward, OneIssue
    <2> QED BY <2>8, <2>9
  <1>2. CASE CritiqueAccepted
    BY <1>2, OnType, Onward, CrossOff DEF CritiqueAccepted, Accepted, counters
  <1>3. CASE CritiqueNotAccepted
    <2>1. PICK i \in Issues : i = tick.on
      BY <1>3, OnType DEF CritiqueNotAccepted, NotAccepted
    <2>2. /\ tick.at = "critique" /\ promoted = {} /\ promoted' = {}
          /\ tick' = Leave(i) /\ label[i] \in Labels
      BY <1>3, <2>1 DEF CritiqueNotAccepted, NotAccepted, GateInv, PromotionInv, TypeOK
    <2>3. faults = 0 => Alone(i) /\ "em_revisao" \in label[i].stage
      BY <1>3, <2>1 DEF CritiqueNotAccepted, NotAccepted, GateInv, StageInv
    <2>4. PICK how \in Outcomes : Move(i, "em_revisao", "nova", how, label[i])
      BY <1>3, <2>1 DEF CritiqueNotAccepted
    <2>5. /\ \A j \in Issues \ {i} : label'[j].stage = label[j].stage
          /\ faults' = 0 => faults = 0 /\ Alone(i)'
      BY <2>2, <2>3, <2>4, MoveAlone
    <2> QED BY <2>2, <2>5, Onward, OneIssue
  <1> QED BY <1>1, <1>2, <1>3

\* The verdict of a refinement: its issue is in no promotion yet, and one that
\* is promoted has left the refine state.
LEMMA SettleGate ==
  ASSUME TypeOK, GateInv, NEW i \in Issues,
         \/ SettleError(i) \/ SettleDecomposed(i) \/ SettleWaiting(i)
         \/ SettleDiverged(i) \/ SettleConverged(i) \/ SettleChanged(i)
  PROVE  GateInv'
  <1>1. i \in tick.list /\ tick.at = "settle" /\ i \notin promoted
    BY DEF SettleError, SettleDecomposed, SettleWaiting, SettleDiverged,
           SettleConverged, SettleChanged, At, Foremost, GateInv, PromotionInv
  <1>2. faults = 0 => Alone(i) /\ "refino" \in label[i].stage
    BY <1>1 DEF GateInv, StageInv
  <1>3. label[i] \in Labels
    BY DEF TypeOK
  <1>4. tick' = IdleTick \/ tick' = Stop(i, "clearing")
    BY DEF SettleError, SettleDecomposed, SettleWaiting, SettleDiverged,
           SettleConverged, SettleChanged, Block, Abort
  <1>5. /\ \A j \in Issues \ {i} : label'[j].stage = label[j].stage
        /\ faults' = 0 => faults = 0 /\ Alone(i)'
        /\ \/ promoted' = promoted
           \/ promoted' = promoted \cup {i} /\ "refino" \notin label'[i].stage
    <2> DEFINE rest(how) == IF how = "moved"
                            THEN [label[i] EXCEPT !.refinar = FALSE, !.passes = 0]
                            ELSE label[i]
    <2>1. CASE SettleError(i)
      <3>1. PICK n \in 0..MaxPasses : label' = [label EXCEPT ![i].passes = n]
        BY <2>1 DEF SettleError
      <3>2. \A j \in Issues : label'[j].stage = label[j].stage
        BY <3>1 DEF TypeOK, Labels
      <3>3. faults' = 0 => faults = 0
        BY <2>1 DEF SettleError, NoFault, Fault, TypeOK
      <3> QED BY <1>2, <2>1, <3>2, <3>3 DEF SettleError, Alone
    <2>2. CASE SettleDecomposed(i)
      <3>1. CASE \E how \in Outcomes : Move(i, "refino", "decomposta", how, rest(how))
        <4>1. PICK how \in Outcomes : Move(i, "refino", "decomposta", how, rest(how))
          BY <3>1
        <4>2. rest(how) \in Labels /\ rest(how).stage = label[i].stage
          BY UnmarkedRest
        <4> HIDE DEF rest
        <4> QED BY <1>2, <2>2, <4>1, <4>2, MoveAlone DEF SettleDecomposed
      <3>2. CASE /\ Fault(1)
                 /\ label' = [label EXCEPT ![i].stage = Moved(@, "refino", "decomposta")]
        BY <2>2, <3>2 DEF SettleDecomposed, Fault, TypeOK
      <3> QED BY <2>2, <3>1, <3>2 DEF SettleDecomposed
    <2>3. CASE SettleWaiting(i)
      <3>1. label' = label \/ label' = [label EXCEPT ![i].waiting = TRUE]
        BY <2>3 DEF SettleWaiting
      <3>2. \A j \in Issues : label'[j].stage = label[j].stage
        BY <3>1 DEF TypeOK, Labels
      <3>3. faults' = 0 => faults = 0
        BY <2>3 DEF SettleWaiting, NoFault, Fault, TypeOK
      <3> QED BY <1>2, <2>3, <3>2, <3>3 DEF SettleWaiting, Alone
    <2>4. CASE SettleDiverged(i)
      <3>1. PICK F \in BlockFaults : Block(i, F, Stop(i, "clearing"))
        BY <2>4 DEF SettleDiverged
      <3>2. faults = 0 => label[i].stage \subseteq {"nova", "em_revisao", "refino"}
        BY <1>2 DEF Alone
      <3> QED BY <2>4, <3>1, <3>2, BlockAlone DEF SettleDiverged
    <2>5. CASE SettleConverged(i)
      <3>1. CASE \E how \in Outcomes :
                   /\ Move(i, "refino", "revisada", how, rest(how))
                   /\ promoted' = IF how = "moved" THEN promoted \cup {i} ELSE promoted
        <4>1. PICK how \in Outcomes :
                   /\ Move(i, "refino", "revisada", how, rest(how))
                   /\ promoted' = IF how = "moved" THEN promoted \cup {i} ELSE promoted
          BY <3>1
        <4>2. rest(how) \in Labels /\ rest(how).stage = label[i].stage
          BY UnmarkedRest
        <4> HIDE DEF rest
        <4>3. how = "moved" => "refino" \notin label'[i].stage
          <5>1. how = "moved" =>
                   label'[i].stage = Moved(label[i].stage, "refino", "revisada")
            BY <4>1, <4>2, MoveStage
          <5> QED BY <5>1 DEF Moved
        <4> QED BY <1>2, <4>1, <4>2, <4>3, MoveAlone
      <3>2. CASE /\ Fault(1)
                 /\ label' = [label EXCEPT ![i].stage = Moved(@, "refino", "revisada")]
                 /\ promoted' = promoted
        BY <3>2 DEF Fault, TypeOK
      <3> QED BY <2>5, <3>1, <3>2 DEF SettleConverged
    <2>6. CASE SettleChanged(i)
      <3>1. PICK how \in Outcomes, n \in 0..MaxPasses :
              Move(i, "refino", "nova", how, [label[i] EXCEPT !.passes = n])
        BY <2>6 DEF SettleChanged
      <3> DEFINE r == [label[i] EXCEPT !.passes = n]
      <3>2. r \in Labels /\ r.stage = label[i].stage
        BY <1>3, UnmarkedType, MarksKeepStage
      <3>3. Move(i, "refino", "nova", how, r)
        BY <3>1
      <3> HIDE DEF r
      <3> QED BY <1>2, <2>6, <3>2, <3>3, MoveAlone DEF SettleChanged
    <2> QED BY <2>1, <2>2, <2>3, <2>4, <2>5, <2>6
  <1>6. tick' = IdleTick \/ (tick'.at = tick.at /\ tick'.list = tick.list \ {i}
                             /\ tick'.point = "clearing")
    <2>1. CASE tick' = Stop(i, "clearing")
      BY <2>1, Onward
    <2> QED BY <1>4, <2>1
  <1> QED BY <1>1, <1>5, <1>6, OneIssue

\* Refinement starts only for what is not promoted and not decomposed.
LEMMA RefineGate ==
  ASSUME TypeOK, GateInv, NEW i \in Issues,
         Rehydrate(i) \/ RefineCeiling(i) \/ RefineBegin(i)
  PROVE  GateInv'
  <1>1. i \in tick.list /\ tick.at = "refine" /\ i \notin promoted /\ promoted' = promoted
    BY DEF Rehydrate, RefineCeiling, RefineBegin, Refining, At, Foremost,
           GateInv, PromotionInv
  <1>2. faults = 0 => Alone(i) /\ "decomposta" \notin label[i].stage
    BY <1>1 DEF GateInv, StageInv
  <1>3. label[i] \in Labels
    BY DEF TypeOK
  <1>4. CASE Rehydrate(i)
    <2> DEFINE cur == label[i].stage \cap {"nova", "em_revisao", "revisada"}
    <2>1. PICK from \in IF cur = {} THEN {"none"} ELSE cur, how \in Outcomes :
            Move(i, from, "refino", how, label[i])
      BY <1>4, Zenon DEF Rehydrate
    <2>2. /\ \A j \in Issues \ {i} : label'[j].stage = label[j].stage
          /\ faults' = 0 =>
               faults = 0 /\ label'[i].stage = Moved(label[i].stage, from, "refino")
          /\ faults' = 0 /\ Alone(i) /\ from \in label[i].stage => Alone(i)'
      BY <1>3, <2>1, MoveAlone
    <2>3. ASSUME faults' = 0, cur = {} PROVE Alone(i)'
      <3>1. label[i].stage = {}
        BY <1>2, <1>3, <1>4, <2>2, <2>3 DEF Rehydrate, Labels, Stages
      <3> QED BY <2>2, <2>3, <3>1 DEF Moved, Alone
    <2>4. ASSUME faults' = 0, cur # {} PROVE Alone(i)'
      <3>1. from \in label[i].stage
        BY <2>1, <2>4
      <3> QED BY <1>2, <2>2, <2>4, <3>1
    <2>5. tick' = Leave(i)
      BY <1>4 DEF Rehydrate
    <2> QED BY <1>1, <2>2, <2>3, <2>4, <2>5, Onward, OneIssue
  <1>5. CASE RefineCeiling(i)
    <2>1. PICK F \in BlockFaults : Block(i, F, Leave(i))
      BY <1>5 DEF RefineCeiling
    <2>2. faults = 0 => label[i].stage \subseteq {"nova", "em_revisao", "refino"}
      BY <1>2, <1>5 DEF RefineCeiling, Alone
    <2>3. /\ \A j \in Issues \ {i} : label'[j].stage = label[j].stage
          /\ faults' = 0 => faults = 0 /\ Alone(i)'
      BY <2>1, <2>2, BlockAlone
    <2>4. tick' = IdleTick \/ tick' = Leave(i)
      BY <2>1 DEF Block, Abort
    <2>5. CASE tick' = IdleTick
      BY <1>1, <2>3, <2>5, OneIssue
    <2>6. CASE tick' = Leave(i)
      BY <1>1, <2>3, <2>6, Onward, OneIssue
    <2> QED BY <2>4, <2>5, <2>6
  <1>6. CASE RefineBegin(i)
    <2>1. label' = label \/ label' = [label EXCEPT ![i].refinar = TRUE]
      BY <1>6 DEF RefineBegin
    <2>2. \A j \in Issues : label'[j].stage = label[j].stage
      BY <2>1 DEF TypeOK, Labels
    <2>3. faults' = 0 => faults = 0
      BY <1>6 DEF RefineBegin, NoFault, Fault, TypeOK
    <2>4. tick' = Stop(i, "posting")
      BY <1>6 DEF RefineBegin
    <2> QED BY <1>1, <2>2, <2>3, <2>4, Onward, CrossOff
  <1> QED BY <1>4, <1>5, <1>6

LEMMA RefinePostGate ==
  ASSUME TypeOK, GateInv, RefineAccepted \/ RefineNotAccepted
  PROVE  GateInv'
  <1>1. PICK i \in Issues : i = tick.on
    BY OnType DEF RefineAccepted, Accepted, RefineNotAccepted, NotAccepted
  <1>2. CASE RefineAccepted
    <2>1. tick' = [Leave(i) EXCEPT !.slots = @ - 1]
      BY <1>1, <1>2 DEF RefineAccepted
    <2>2. tick'.at = tick.at /\ tick'.list = tick.list \ {i} /\ tick'.point = "next"
      <3>1. Leave(i) \in Ticks
        BY LeaveType
      <3> QED BY <2>1, <3>1, Onward DEF Ticks
    <2>3. label' = label /\ promoted' = promoted /\ faults' = faults
      BY <1>2 DEF RefineAccepted, Accepted, counters
    <2> QED BY <2>2, <2>3, CrossOff
  <1>3. CASE RefineNotAccepted
    <2>1. PICK n \in 0..MaxPasses : label' = [label EXCEPT ![i].passes = n]
      BY <1>1, <1>3 DEF RefineNotAccepted
    <2>2. \A j \in Issues : label'[j].stage = label[j].stage
      BY <2>1 DEF TypeOK, Labels
    <2>3. faults' = 0 => faults = 0
      BY <1>3 DEF RefineNotAccepted, NoFault, Fault, TypeOK
    <2>4. tick' = Leave(i) /\ promoted' = promoted
      BY <1>1, <1>3 DEF RefineNotAccepted
    <2> QED BY <2>2, <2>3, <2>4, Onward, CrossOff
  <1> QED BY <1>2, <1>3

LEMMA DecomposeGate ==
  ASSUME TypeOK, GateInv, RefineDone \/ DecomposeFails \/ Decompose
  PROVE  GateInv'
  <1>1. CASE RefineDone
    <2>1. PICK A \in SUBSET {i \in Wears("revisada") : ~label[i].blocked /\ ~label[i].own} :
            LET owned == {i \in Wears("revisada") : i \in A \/ label[i].own}
                S == {i \in owned : /\ label[i].intent /\ ~label[i].blocked
                                    /\ "decomposta" \notin label[i].stage}
            IN  /\ label' = [i \in Issues |-> [label[i] EXCEPT !.own = @ \/ i \in A]]
                /\ Fault(Cardinality({i \in Wears("revisada") : ~label[i].blocked} \ owned))
                /\ \/ S = {} /\ tick' = IdleTick
                   \/ \E i \in Foremost(S) :
                         tick' = [IdleTick EXCEPT !.at = "decompose", !.point = "waiting",
                                                  !.on = i]
      BY <1>1, Zenon DEF RefineDone
    <2> DEFINE owned == {i \in Wears("revisada") : i \in A \/ label[i].own}
               lost == {i \in Wears("revisada") : ~label[i].blocked} \ owned
    <2>2. \A j \in Issues : label'[j].stage = label[j].stage
      <3> TAKE j \in Issues
      <3>1. label[j] \in Labels /\ label'[j] = [label[j] EXCEPT !.own = @ \/ j \in A]
        BY <2>1 DEF TypeOK
      <3> QED BY <3>1 DEF Labels
    <2>3. faults' = 0 => faults = 0
      <3>1. lost \in SUBSET Issues
        BY DEF Wears
      <3>2. Fault(Cardinality(lost))
        BY <2>1, Zenon
      <3> HIDE DEF lost
      <3> QED BY <3>1, <3>2, PartSize DEF Fault, TypeOK
    <2>4. \/ tick' = IdleTick
          \/ \E i \in Wears("revisada") :
                tick' = [IdleTick EXCEPT !.at = "decompose", !.point = "waiting", !.on = i]
      BY <2>1, Zenon DEF Foremost
    <2>5. /\ tick'.list = {} /\ tick'.at \in {"idle", "decompose"}
          /\ tick'.point # "posting"
          /\ tick'.point = "waiting" =>
                tick'.on \in Issues /\ "revisada" \in label[tick'.on].stage
      <3>1. CASE tick' = IdleTick
        BY <3>1 DEF IdleTick
      <3>2. ASSUME NEW i \in Wears("revisada"),
                   tick' = [IdleTick EXCEPT !.at = "decompose", !.point = "waiting",
                                            !.on = i]
            PROVE  /\ tick'.list = {} /\ tick'.at = "decompose"
                   /\ tick'.point = "waiting" /\ tick'.on = i
        BY <3>2 DEF IdleTick
      <3> QED BY <2>4, <3>1, <3>2 DEF Wears
    <2>6. promoted' = promoted
      BY <1>1 DEF RefineDone
    <2>7. PromotionInv'
      BY <2>2, <2>5, <2>6 DEF GateInv, PromotionInv, PromotionSticks, TypeOK
    <2>8. ASSUME faults' = 0 PROVE StageInv'
      <3>1. \A i \in Issues : Alone(i)'
        BY <2>2, <2>3, <2>8 DEF GateInv, StageInv, Alone
      <3> QED BY <2>2, <2>5, <3>1 DEF StageInv
    <2> QED BY <2>7, <2>8 DEF GateInv
  <1>2. ASSUME DecomposeFails \/ Decompose PROVE tick.on \in Issues
    BY <1>2, OnType DEF DecomposeFails, Decompose
  <1>3. CASE DecomposeFails
    <2>0. PICK i \in Issues : i = tick.on
      BY <1>2, <1>3
    <2>1. label' = label /\ promoted' = promoted /\ faults' = faults /\ tick' = IdleTick
      BY <1>3 DEF DecomposeFails, counters
    <2>2. faults = 0 => Alone(i)'
      BY <2>1 DEF GateInv, StageInv, Alone
    <2>3. i \in promoted => "refino" \notin label[i].stage
      BY DEF GateInv, PromotionInv, PromotionSticks
    <2>4. tick.at \in {"judge", "critique"} => promoted = {}
      BY DEF GateInv, PromotionInv
    <2> QED BY <2>0, <2>1, <2>2, <2>3, <2>4, OneIssue
  <1>4. CASE Decompose
    <2>0. PICK i \in Issues : i = tick.on
      BY <1>2, <1>4
    <2>1. PICK how \in Outcomes : Move(i, "revisada", "decomposta", how, label[i])
      BY <2>0, <1>4 DEF Decompose
    <2>2. label[i] \in Labels
      BY DEF TypeOK
    <2>3. faults = 0 => Alone(i) /\ "revisada" \in label[i].stage
      BY <2>0, <1>4 DEF Decompose, GateInv, StageInv
    <2>4. /\ \A j \in Issues \ {i} : label'[j].stage = label[j].stage
          /\ faults' = 0 => faults = 0 /\ Alone(i)'
      BY <2>1, <2>2, <2>3, MoveAlone
    <2>8. "refino" \notin label[i].stage => "refino" \notin label'[i].stage
      <3>1. /\ how = "moved" =>
                 label'[i].stage = Moved(label[i].stage, "revisada", "decomposta")
            /\ how # "moved" => label'[i].stage \subseteq label[i].stage
        BY <2>1, <2>2, MoveStage
      <3> QED BY <3>1 DEF Moved
    <2>5. tick' = IdleTick /\ promoted' = promoted
      BY <1>4 DEF Decompose
    <2>6. i \in promoted => "refino" \notin label'[i].stage
      BY <2>8 DEF GateInv, PromotionInv, PromotionSticks
    <2>7. tick.at \in {"judge", "critique"} => promoted = {}
      BY DEF GateInv, PromotionInv
    <2> QED BY <2>4, <2>5, <2>6, <2>7, OneIssue
  <1> QED BY <1>1, <1>3, <1>4

LEMMA EnvironmentGate ==
  ASSUME TypeOK, GateInv,
         Kill \/ \E i \in Issues : SessionEnds(i) \/ Ages(i) \/ HumanEdits(i)
  PROVE  GateInv'
  <1>1. ASSUME NEW i \in Issues, SessionEnds(i) \/ Ages(i) PROVE GateInv'
    BY <1>1, Unmoved DEF SessionEnds, Ages, counters
  <1>2. ASSUME NEW i \in Issues, HumanEdits(i) PROVE GateInv'
    <2>1. PICK edited \in {[label[i] EXCEPT !.blocked = ~@],
                           [label[i] EXCEPT !.waiting = FALSE],
                           [label[i] EXCEPT !.refinar = TRUE]} :
            label' = [label EXCEPT ![i] = edited]
      BY <1>2 DEF HumanEdits
    <2>2. edited.stage = label[i].stage
      BY DEF TypeOK, Labels
    <2>3. \A j \in Issues : label'[j].stage = label[j].stage
      BY <2>1, <2>2, Relabel
    <2> QED BY <1>2, <2>3, Unmoved DEF HumanEdits
  <1>3. CASE Kill
    <2>1. label' = label /\ promoted' = {} /\ faults' = faults /\ tick' = IdleTick
      BY <1>3 DEF Kill
    <2>2. PromotionInv'
      BY <2>1 DEF PromotionInv, PromotionSticks
    <2>3. StageInv => StageInv'
      BY <2>1 DEF StageInv, Alone, IdleTick
    <2> QED BY <2>1, <2>2, <2>3 DEF GateInv
  <1> QED BY <1>1, <1>2, <1>3

LEMMA NextGate == TypeOK /\ GateInv /\ [Next]_vars => GateInv'
  <1> SUFFICES ASSUME TypeOK, GateInv, [Next]_vars PROVE GateInv'
    OBVIOUS
  <1>1. CASE UNCHANGED vars
    BY <1>1, Unmoved DEF vars, counters
  <1>2. CASE TickStep
    <2>1. ASSUME NEW i \in Issues, IssueStep(i) PROVE GateInv'
      BY <2>1, ReapGate, WaitGate, JudgeGate, CritiqueGate, SettleGate, RefineGate
         DEF IssueStep
    <2> QED BY <1>2, <2>1, ListGate, SettleDoneGate, ClearGate, CritiqueGate,
               RefinePostGate, DecomposeGate
            DEF TickStep
  <1>3. CASE Kill \/ \E i \in Issues : SessionEnds(i) \/ Ages(i) \/ HumanEdits(i)
    BY <1>3, EnvironmentGate
  <1> QED BY <1>1, <1>2, <1>3 DEF Next

LEMMA InitGate == Init => GateInv
  <1> SUFFICES ASSUME Init PROVE GateInv
    OBVIOUS
  <1>1. \A i \in Issues : label[i].stage = {"nova"}
    BY DEF Init
  <1>2. tick.list = {} /\ tick.at = "idle" /\ tick.point = "next" /\ promoted = {}
    BY DEF Init, IdleTick
  <1> QED BY <1>1, <1>2 DEF GateInv, PromotionInv, PromotionSticks, StageInv, Alone

\* The inductive invariant, for any issues and bounds.
THEOREM GateHolds == Spec => []GateInv
  BY InitGate, NextGate, RefineTypeOK, PTL DEF Spec

\* What a tick promoted it does not take back into refinement, whatever the
\* index still lists, whatever fails and whoever edits labels meanwhile.
THEOREM PromotionsStick == Spec => []PromotionSticks
  <1>1. GateInv => PromotionSticks
    BY DEF GateInv, PromotionInv
  <1> QED BY <1>1, GateHolds, PTL

\* As long as no forge call failed an issue has one stage at most, for any
\* issues, bounds, restarts and human edits.
THEOREM GateSingleStage == Spec => []SingleStage
  <1>1. TypeOK /\ GateInv => SingleStage
    <2> SUFFICES ASSUME TypeOK, GateInv, NEW i \in Issues, ~(faults > 0)
                 PROVE  Cardinality(label[i].stage) <= 1
      BY DEF SingleStage
    <2>1. Alone(i)
      BY DEF TypeOK, GateInv, StageInv
    <2>2. CASE label[i].stage = {}
      BY <2>2, FS_EmptySet
    <2>3. CASE label[i].stage # {}
      <3>1. PICK s : label[i].stage = {s}
        BY <2>1, <2>3 DEF Alone
      <3> QED BY <3>1, FS_Singleton
    <2> QED BY <2>2, <2>3
  <1> QED BY <1>1, RefineTypeOK, GateHolds, PTL

-----------------------------------------------------------------------------
(* The number of passes *)

\* How the passes of an issue that cost a session relate to the label that
\* counts them, and to the ledger entry whose verdict may cost one more: there
\* is room for it as long as the verdict is not applied, and a pass that is
\* about to be posted has no entry.
PassOk(i) ==
    /\ "decomposta" \notin label[i].stage => spent[i] <= label[i].passes
    /\ spent[i] <= MaxRefine + kills
    /\ /\ ledger[i] # "none" /\ "refino" \in label[i].stage
       /\ ~(tick.point = "clearing" /\ tick.on = i)
       => spent[i] < MaxRefine + kills
    /\ tick.at = "refine" /\ tick.point = "posting" /\ tick.on = i
       => ledger[i] = "none" /\ spent[i] < MaxRefine + kills

\* An idle tick stands between issues.
PassInv ==
    /\ tick.at = "idle" => tick.point = "next"
    /\ faults = 0 => \A i \in Issues : PassOk(i)

\* What PassOk reads of an issue, apart from the tick.
SameBooks(i) ==
    /\ label'[i].stage = label[i].stage /\ label'[i].passes = label[i].passes
    /\ spent'[i] = spent[i] /\ ledger'[i] = ledger[i]

\* A step on one issue, in the middle of which the tick may stand before or
\* after it.
LEMMA OnePass ==
  ASSUME TypeOK, PassInv, NEW i \in Issues,
         tick.point = "next" \/ tick.on = i,
         tick'.point = "next" \/ (tick'.on = i /\ tick'.at # "idle"),
         kills' = kills, faults' = 0 => faults = 0,
         \A j \in Issues \ {i} : SameBooks(j),
         faults' = 0 => PassOk(i)'
  PROVE  PassInv'
  <1> SUFFICES ASSUME faults' = 0, NEW j \in Issues, j # i PROVE PassOk(j)'
    BY DEF PassInv
  <1>1. PassOk(j) /\ SameBooks(j)
    BY DEF PassInv
  <1> QED BY <1>1 DEF PassOk, SameBooks

\* A step that changes no issue's books, and stops in the middle of none.
LEMMA NoPass ==
  ASSUME TypeOK, PassInv, kills' = kills, faults' = 0 => faults = 0,
         \A j \in Issues : SameBooks(j),
         \/ tick' = tick
         \/ /\ tick.point # "clearing"
            /\ tick'.point = "next" \/ (tick'.point = "waiting" /\ tick'.at # "idle")
  PROVE  PassInv'
  <1> SUFFICES ASSUME faults' = 0, NEW j \in Issues PROVE PassOk(j)'
    BY DEF PassInv
  <1>1. PassOk(j) /\ SameBooks(j)
    BY DEF PassInv
  <1> QED BY <1>1 DEF PassOk, SameBooks

\* The count starts afresh.
LEMMA ZeroPass ==
  ASSUME TypeOK', NEW i \in Issues, spent'[i] = 0, tick'.point # "posting"
  PROVE  PassOk(i)'
  <1>1. label'[i].passes \in Nat /\ kills' \in Nat
    BY BoundsAssumption DEF TypeOK, Labels, MaxPasses
  <1>2. \A n \in Nat : 0 < MaxRefine + n /\ 0 <= MaxRefine + n
    BY BoundsAssumption
  <1>3. spent'[i] < MaxRefine + kills' /\ spent'[i] <= MaxRefine + kills'
    BY <1>1, <1>2, Zenon
  <1>4. spent'[i] <= label'[i].passes
    BY <1>1
  <1> QED BY <1>3, <1>4 DEF PassOk

\* Numbers that PassOk compares.
LEMMA PassTypes ==
  ASSUME TypeOK, NEW i \in Issues
  PROVE  /\ label[i] \in Labels /\ label[i].passes \in Nat /\ mem[i].passes \in Nat
         /\ spent[i] \in Nat /\ kills \in Nat /\ faults \in Nat
         /\ MaxRefine \in Nat /\ MaxPasses \in Nat
         /\ Known(i) \in Nat /\ label[i].passes <= Known(i)
  <1>1. MaxPasses \in Nat /\ MaxRefine \in Nat /\ MaxKills \in Nat
    BY BoundsAssumption DEF MaxPasses
  <1>2. /\ label[i] \in Labels /\ label[i].passes \in Nat /\ mem[i].passes \in Nat
        /\ spent[i] \in Nat /\ kills \in Nat /\ faults \in Nat
    BY <1>1 DEF TypeOK, Labels, Memories
  <1> QED BY <1>1, <1>2 DEF Known

\* What a label move that did not fail leaves on the issue.
LEMMA MoveBooks ==
  ASSUME TypeOK, NEW i \in Issues, NEW from, NEW to, NEW how \in Outcomes,
         NEW rest \in Labels, rest.stage = label[i].stage,
         Move(i, from, to, how, rest)
  PROVE  /\ \A j \in Issues \ {i} : label'[j] = label[j]
         /\ label'[i].passes = rest.passes
         /\ faults' = 0 => /\ faults = 0 /\ how = "moved"
                           /\ label'[i].stage = Moved(label[i].stage, from, to)
  <1> DEFINE S == CASE how = "moved" -> Moved(rest.stage, from, to)
                    [] how = "kept"  -> rest.stage
                    [] how = "lost"  -> rest.stage \ {from}
             r == [rest EXCEPT !.stage = S]
  <1>1. label' = [label EXCEPT ![i] = r]
    BY DEF Move
  <1>2. r.passes = rest.passes
    <2> HIDE DEF S
    <2> QED BY DEF Labels
  <1>3. label'[i] = r
    <2> HIDE DEF r
    <2> QED BY <1>1 DEF TypeOK
  <1>4. label'[i].passes = rest.passes
    <2> HIDE DEF r
    <2> QED BY <1>2, <1>3
  <1> QED BY <1>4, MoveStage

\* A block that did not fail starts the count afresh.
LEMMA BlockBooks ==
  ASSUME TypeOK, TypeOK', NEW i \in Issues, NEW F \in BlockFaults, NEW onward,
         Block(i, F, onward)
  PROVE  /\ \A j \in Issues \ {i} : label'[j] = label[j] /\ spent'[j] = spent[j]
         /\ faults' = 0 => faults = 0 /\ tick' = onward /\ spent'[i] = 0
  <1>1. /\ \A j \in Issues \ {i} : label'[j] = label[j]
        /\ \A j \in Issues \ {i} : spent'[j] = spent[j]
    <2>1. /\ \E r : label' = [label EXCEPT ![i] = r]
          /\ spent' = spent \/ spent' = [spent EXCEPT ![i] = 0]
      BY DEF Block
    <2> QED BY <2>1 DEF TypeOK
  <1>2. faults' = 0 => faults = 0 /\ F = {}
    BY FaultSets DEF Block, Fault, TypeOK
  <1>3. F = {} => tick' = onward /\ spent' = [spent EXCEPT ![i] = 0]
    BY DEF Block
  <1> QED BY <1>1, <1>2, <1>3 DEF TypeOK

\* A pass that counts, when nothing failed: the label has it.
LEMMA CountBooks ==
  ASSUME TypeOK, TypeOK', NEW i \in Issues, NEW n \in 0..MaxPasses,
         CountPass(i, [label[i] EXCEPT !.passes = n]),
         label' = [label EXCEPT ![i].passes = n],
         faults' = 0 => faults = 0
  PROVE  /\ \A j \in Issues \ {i} : label'[j] = label[j] /\ spent'[j] = spent[j]
         /\ label'[i].stage = label[i].stage /\ label'[i].passes = n
         /\ spent'[i] <= spent[i] + 1
         /\ faults' = 0 /\ spent[i] <= label[i].passes => spent'[i] <= n
  <1> DEFINE rest == [label[i] EXCEPT !.passes = n]
  <1>1. rest.passes = n /\ rest.stage = label[i].stage
    BY DEF TypeOK, Labels
  <1>2. label'[i] = rest /\ \A j \in Issues \ {i} : label'[j] = label[j]
    BY DEF TypeOK
  <1>3. CountPass(i, rest)
    OBVIOUS
  <1> HIDE DEF rest
  <1>4. faults' = 0 => n = Bumped(Known(i))
    BY <1>1, <1>3, PassTypes DEF CountPass
  <1>5. /\ \A j \in Issues \ {i} : spent'[j] = spent[j]
        /\ spent'[i] = IF spent[i] < MaxPasses THEN spent[i] + 1 ELSE spent[i]
    BY <1>3 DEF CountPass, TypeOK
  <1> QED BY <1>1, <1>2, <1>4, <1>5, PassTypes, CountTypes DEF Bumped, TypeOK

\* A step on an issue that leaves its counts alone.
LEMMA CarryPass ==
  ASSUME TypeOK, NEW i \in Issues, PassOk(i),
         spent'[i] = spent[i], kills' = kills, label'[i].passes = label[i].passes,
         "decomposta" \in label[i].stage => "decomposta" \in label'[i].stage,
         tick'.point = "posting" => tick'.at # "refine",
         \/ tick'.point = "clearing" /\ tick'.on = i
         \/ /\ tick.point # "clearing"
            /\ "refino" \in label'[i].stage /\ ledger'[i] # "none"
               => "refino" \in label[i].stage /\ ledger[i] # "none"
  PROVE  PassOk(i)'
  BY DEF PassOk

\* Where a stopped tick stands.
LEMMA Stops ==
  ASSUME TypeOK, NEW i
  PROVE  /\ Stop(i, "clearing").on = i /\ Stop(i, "clearing").point = "clearing"
         /\ Stop(i, "posting").on = i /\ Stop(i, "posting").point = "posting"
         /\ Stop(i, "posting").at = tick.at
         /\ Leave(i).point = "next" /\ IdleTick.point = "next" /\ Abort = IdleTick
  BY DEF TypeOK, Stop, Leave, Ticks, Points, Abort, IdleTick

\* The labels that change besides the count do not change it.
LEMMA MarksKeepPasses ==
  ASSUME NEW r \in Labels, NEW b, NEW a
  PROVE  /\ [r EXCEPT !.refinar = b].passes = r.passes
         /\ [r EXCEPT !.waiting = b].passes = r.passes
         /\ [r EXCEPT !.blocked = b].passes = r.passes
         /\ [r EXCEPT !.own = b].passes = r.passes
  BY DEF Labels

LEMMA WaitPass ==
  ASSUME TypeOK, PassInv, NEW i \in Issues, NEW phase,
         \/ ReapSkip(i) \/ RefineSkip(i)
         \/ VerdictPending(phase, i) \/ VerdictGone(phase, i)
  PROVE  PassInv'
  <1>1. /\ tick.point = "next" /\ tick'.point = "next"
        /\ label' = label /\ spent' = spent /\ kills' = kills
    BY Stops DEF ReapSkip, RefineSkip, VerdictPending, VerdictGone, At, Refining, counters
  <1>2. faults' = 0 => faults = 0
    BY DEF ReapSkip, RefineSkip, VerdictPending, VerdictGone, Fault, NoFault, counters, TypeOK
  <1>3. /\ ledger' = ledger \/ ledger'[i] = "none"
        /\ \A j \in Issues \ {i} : ledger'[j] = ledger[j]
    BY DEF ReapSkip, RefineSkip, VerdictPending, VerdictGone, TypeOK
  <1>4. faults' = 0 => PassOk(i)'
    BY <1>1, <1>2, <1>3, CarryPass DEF PassInv
  <1> QED BY <1>1, <1>2, <1>3, <1>4, OnePass DEF SameBooks

\* The steps that list the issues of the next phase.
LEMMA ListPass ==
  ASSUME TypeOK, PassInv,
         StartTick \/ ReapDone \/ JudgeDone \/ CritiqueDone \/ SettleDone
  PROVE  PassInv'
  <1>1. /\ label' = label /\ spent' = spent /\ ledger' = ledger /\ kills' = kills
    BY DEF StartTick, ReapDone, JudgeDone, CritiqueDone, SettleDone
  <1>2. CASE StartTick \/ ReapDone \/ JudgeDone \/ CritiqueDone
    <2>1. PICK phase, S, slots : Enter(phase, S, slots)
      BY <1>2, Zenon DEF StartTick, ReapDone, JudgeDone, CritiqueDone
    <2>2. tick'.point = "next" /\ (faults' = 0 => faults = 0)
      BY <2>1 DEF Enter, Fault, NoFault, TypeOK
    <2>3. tick.point = "next"
      BY <1>2 DEF StartTick, ReapDone, JudgeDone, CritiqueDone, Done, PassInv
    <2> QED BY <1>1, <2>2, <2>3, NoPass DEF SameBooks
  <1>3. CASE SettleDone
    <2>1. PICK lag \in SUBSET Wears("revisada") :
            tick'.point = "next" /\ Fault(Cardinality(lag))
      BY <1>3 DEF SettleDone
    <2>2. lag \in SUBSET Issues
      BY DEF Wears
    <2>3. faults' = 0 => faults = 0
      BY <2>1, <2>2, PartSize DEF Fault, TypeOK
    <2>4. tick.point = "next"
      BY <1>3 DEF SettleDone, Done
    <2> QED BY <1>1, <2>1, <2>3, <2>4, NoPass DEF SameBooks
  <1> QED BY <1>2, <1>3

LEMMA ClearPass == ASSUME TypeOK, PassInv, Clear PROVE PassInv'
  <1>1. PICK i \in Issues : i = tick.on
    BY OnType DEF Clear
  <1>2. /\ tick'.point = "next" /\ ledger' = [ledger EXCEPT ![i] = "none"]
        /\ label' = label /\ spent' = spent /\ kills' = kills /\ faults' = faults
    BY <1>1, Stops DEF Clear, counters
  <1>3. /\ ledger'[i] = "none"
        /\ \A j \in Issues \ {i} : ledger'[j] = ledger[j]
    BY <1>2 DEF TypeOK
  <1>4. faults' = 0 => PassOk(i)'
    BY <1>2, <1>3 DEF PassInv, PassOk
  <1> QED BY <1>1, <1>2, <1>3, <1>4, OnePass DEF SameBooks

\* A reaped claim keeps its count; a refinement loses its ledger entry.
LEMMA ReapPass ==
  ASSUME TypeOK, PassInv, NEW i \in Issues, Reap(i)
  PROVE  PassInv'
  <1> DEFINE n == label[i].attempt + 1
             from == ReapFrom(i)
             cleared == [label[i] EXCEPT !.own = FALSE, !.attempt = 0]
  <1>1. from \in label[i].stage /\ from # "decomposta" /\ ReapTo(i) # "refino"
    BY DEF Reap, Expired, ReapFrom, ReapTo
  <1>2. PICK how \in Outcomes :
             IF n < MaxReaps
             THEN Move(i, from, ReapTo(i), how,
                       CASE how = "moved" -> [cleared EXCEPT !.attempt = n]
                         [] how = "kept"  -> label[i]
                         [] how = "lost"  -> cleared)
             ELSE /\ label' = [label EXCEPT ![i] =
                         CASE how = "moved" ->
                                [cleared EXCEPT !.stage = @ \ {from},
                                                !.blocked = TRUE, !.attempt = MaxReaps]
                           [] how = "kept"  ->
                                [label[i] EXCEPT !.blocked = TRUE, !.attempt = MaxReaps]
                           [] how = "lost"  -> [cleared EXCEPT !.stage = @ \ {from}]]
                  /\ IF how = "moved" THEN NoFault ELSE Fault(1)
                  /\ UNCHANGED age
    BY Zenon DEF Reap
  <1>3. /\ cleared \in Labels /\ cleared.stage = label[i].stage
        /\ cleared.passes = label[i].passes
    <2>1. 0 \in 0..MaxReaps /\ label[i] \in Labels
      BY BoundsAssumption DEF TypeOK
    <2> QED BY <2>1 DEF Labels
  <1>4. /\ tick.point = "next" /\ tick'.point = "next" /\ spent' = spent /\ kills' = kills
        /\ \A j \in Issues \ {i} : ledger'[j] = ledger[j]
        /\ from = "refino" => ledger'[i] = "none"
        /\ from # "refino" => ledger'[i] = ledger[i]
    BY Stops DEF Reap, At, TypeOK
  <1>5. /\ \A j \in Issues \ {i} : label'[j] = label[j]
        /\ faults' = 0 => /\ faults = 0 /\ label'[i].passes = label[i].passes
                          /\ \/ label'[i].stage = Moved(label[i].stage, from, ReapTo(i))
                             \/ label'[i].stage = label[i].stage \ {from}
    <2>1. CASE n < MaxReaps
      <3> DEFINE rest == CASE how = "moved" -> [cleared EXCEPT !.attempt = n]
                           [] how = "kept"  -> label[i]
                           [] how = "lost"  -> cleared
      <3>1. n \in 0..MaxReaps /\ label[i] \in Labels
        BY <2>1, BoundsAssumption DEF Labels, TypeOK
      <3>2. /\ [cleared EXCEPT !.attempt = n] \in Labels
            /\ [cleared EXCEPT !.attempt = n].stage = label[i].stage
            /\ [cleared EXCEPT !.attempt = n].passes = label[i].passes
        <4> HIDE DEF n, cleared
        <4> QED BY <1>3, <3>1 DEF Labels
      <3>3. rest \in Labels /\ rest.stage = label[i].stage /\ rest.passes = label[i].passes
        <4> HIDE DEF cleared, n
        <4> QED BY <1>3, <3>1, <3>2 DEF Outcomes
      <3>4. Move(i, from, ReapTo(i), how, rest)
        BY <1>2, <2>1
      <3> HIDE DEF rest, from
      <3> QED BY <3>3, <3>4, MoveBooks
    <2>2. CASE ~(n < MaxReaps)
      <3> DEFINE r == [cleared EXCEPT !.stage = @ \ {from}, !.blocked = TRUE,
                                      !.attempt = MaxReaps]
      <3>1. \E q : label' = [label EXCEPT ![i] = q]
        BY <1>2, <2>2
      <3>2. faults' = 0 => faults = 0 /\ how = "moved"
        BY <1>2, <2>2 DEF NoFault, Fault, TypeOK
      <3>3. how = "moved" => label' = [label EXCEPT ![i] = r]
        BY <1>2, <2>2
      <3>4. r.stage = label[i].stage \ {from} /\ r.passes = label[i].passes
        <4> HIDE DEF cleared, from
        <4> QED BY <1>3 DEF Labels
      <3> HIDE DEF r, from
      <3>5. how = "moved" => label'[i] = r
        BY <3>3 DEF TypeOK
      <3>6. \A j \in Issues \ {i} : label'[j] = label[j]
        BY <3>1 DEF TypeOK
      <3> QED BY <3>2, <3>4, <3>5, <3>6
    <2> QED BY <2>1, <2>2
  <1> HIDE DEF from
  <1>6. faults' = 0 => PassOk(i)'
    <2> SUFFICES ASSUME faults' = 0 PROVE PassOk(i)'
      OBVIOUS
    <2>1. PassOk(i)
      BY <1>5 DEF PassInv
    <2>2. "decomposta" \in label[i].stage => "decomposta" \in label'[i].stage
      BY <1>1, <1>5 DEF Moved
    <2>3. "refino" \in label'[i].stage => "refino" \in label[i].stage
      BY <1>1, <1>5 DEF Moved
    <2>4. /\ "refino" \in label'[i].stage /\ ledger'[i] # "none"
          => "refino" \in label[i].stage /\ ledger[i] # "none"
      BY <1>4, <2>3
    <2> QED BY <1>4, <1>5, <2>1, <2>2, <2>4, CarryPass
  <1> QED BY <1>4, <1>5, <1>6, OnePass DEF SameBooks

\* A critique's verdict: the count starts afresh, or stays below the ceiling.
LEMMA JudgePass ==
  ASSUME TypeOK, TypeOK', PassInv, NEW i \in Issues,
         JudgeClear(i) \/ JudgePoor(i) \/ JudgeCeiling(i)
  PROVE  PassInv'
  <1>1. /\ tick.point = "next" /\ tick.at = "judge" /\ ledger' = ledger /\ kills' = kills
        /\ label[i] \in Labels
    BY DEF JudgeClear, JudgePoor, JudgeCeiling, At, TypeOK
  <1>2. tick' = Abort \/ tick' = Stop(i, "clearing")
    BY DEF JudgeClear, JudgePoor, JudgeCeiling, Block, Abort
  <1>3. /\ tick'.point = "next" \/ (tick'.on = i /\ tick'.at # "idle")
        /\ tick'.point # "posting"
    BY <1>1, <1>2, Stops, Onward
  <1>4. /\ \A j \in Issues \ {i} : label'[j] = label[j] /\ spent'[j] = spent[j]
        /\ faults' = 0 => faults = 0 /\ PassOk(i)'
    <2>1. CASE JudgeClear(i)
      <3> DEFINE rest(how) == IF how = "moved"
                              THEN [label[i] EXCEPT !.refinar = FALSE, !.passes = 0]
                              ELSE label[i]
      <3>1. CASE \E how \in Outcomes :
                   /\ Move(i, "em_revisao", "revisada", how, rest(how))
                   /\ spent' = [spent EXCEPT ![i] = IF how = "moved" THEN 0 ELSE @]
        <4>1. PICK how \in Outcomes :
                   /\ Move(i, "em_revisao", "revisada", how, rest(how))
                   /\ spent' = [spent EXCEPT ![i] = IF how = "moved" THEN 0 ELSE @]
          BY <3>1
        <4>2. rest(how) \in Labels /\ rest(how).stage = label[i].stage
          BY <1>1, UnmarkedRest
        <4> HIDE DEF rest
        <4>3. /\ \A j \in Issues \ {i} : label'[j] = label[j]
              /\ faults' = 0 => faults = 0 /\ how = "moved"
          BY <4>1, <4>2, MoveBooks
        <4>4. /\ \A j \in Issues \ {i} : spent'[j] = spent[j]
              /\ how = "moved" => spent'[i] = 0
          BY <4>1 DEF TypeOK
        <4> QED BY <1>3, <4>3, <4>4, ZeroPass
      <3>2. CASE /\ Fault(1)
                 /\ label' = [label EXCEPT ![i].stage = Moved(@, "em_revisao", "revisada")]
                 /\ UNCHANGED spent
        BY <3>2 DEF Fault, TypeOK
      <3> QED BY <2>1, <3>1, <3>2 DEF JudgeClear
    <2>2. CASE JudgePoor(i)
      <3> DEFINE rest == [label[i] EXCEPT !.refinar = TRUE]
      <3>1. rest \in Labels /\ rest.stage = label[i].stage /\ rest.passes = label[i].passes
        BY <1>1, UnmarkedType, MarksKeepStage, MarksKeepPasses
      <3>2. CASE \E how \in Outcomes : /\ Move(i, "em_revisao", "refino", how, rest)
                                       /\ tick' = Stop(i, "clearing")
        <4>1. PICK how \in Outcomes : Move(i, "em_revisao", "refino", how, rest)
          BY <3>2
        <4> HIDE DEF rest
        <4>2. /\ \A j \in Issues \ {i} : label'[j] = label[j]
              /\ label'[i].passes = label[i].passes
              /\ faults' = 0 => /\ faults = 0
                                /\ label'[i].stage = Moved(label[i].stage, "em_revisao", "refino")
          BY <3>1, <4>1, MoveBooks
        <4>3. spent' = spent /\ tick'.point = "clearing" /\ tick'.on = i
          BY <2>2, <3>2, Stops DEF JudgePoor
        <4>4. faults' = 0 => ("decomposta" \in label[i].stage
                               => "decomposta" \in label'[i].stage)
          BY <4>2 DEF Moved
        <4> QED BY <1>1, <4>2, <4>3, <4>4, CarryPass DEF PassInv
      <3>3. CASE Fault(1) /\ label' = label
        BY <2>2, <3>3 DEF Fault, TypeOK, JudgePoor
      <3> QED BY <2>2, <3>2, <3>3 DEF JudgePoor
    <2>3. CASE JudgeCeiling(i)
      <3>1. PICK F \in BlockFaults : Block(i, F, Stop(i, "clearing"))
        BY <2>3 DEF JudgeCeiling
      <3> QED BY <1>3, <3>1, BlockBooks, ZeroPass
    <2> QED BY <2>1, <2>2, <2>3
  <1> QED BY <1>1, <1>3, <1>4, OnePass DEF SameBooks

\* A critique is claimed and dispatched for an issue outside refinement.
LEMMA CritiquePass ==
  ASSUME TypeOK, GateInv, PassInv,
         \/ \E i \in Issues : CritiqueClaim(i)
         \/ CritiqueAccepted \/ CritiqueNotAccepted
  PROVE  PassInv'
  <1>1. ASSUME NEW i \in Issues, CritiqueClaim(i) PROVE PassInv'
    <2>1. /\ tick.point = "next" /\ tick.at = "critique" /\ ledger' = ledger
          /\ kills' = kills /\ spent' = spent /\ label[i] \in Labels
      BY <1>1 DEF CritiqueClaim, At, TypeOK
    <2>2. PICK how \in Outcomes, own \in BOOLEAN :
            /\ Move(i, "nova", "em_revisao", how, [label[i] EXCEPT !.own = @ \/ own])
            /\ tick' = IF how = "moved" THEN Stop(i, "posting") ELSE Leave(i)
      BY <1>1 DEF CritiqueClaim
    <2> DEFINE rest == [label[i] EXCEPT !.own = @ \/ own]
    <2>3. rest \in Labels /\ rest.stage = label[i].stage /\ rest.passes = label[i].passes
      BY <2>1 DEF Labels
    <2>4. Move(i, "nova", "em_revisao", how, rest)
      BY <2>2
    <2> HIDE DEF rest
    <2>5. /\ \A j \in Issues \ {i} : label'[j] = label[j]
          /\ label'[i].passes = label[i].passes
          /\ faults' = 0 => /\ faults = 0
                            /\ label'[i].stage = Moved(label[i].stage, "nova", "em_revisao")
      BY <2>3, <2>4, MoveBooks
    <2>6. /\ tick'.point = "next" \/ (tick'.on = i /\ tick'.at # "idle")
          /\ tick'.point = "posting" => tick'.at # "refine"
      BY <2>1, <2>2, Stops
    <2>7. faults' = 0 => /\ "decomposta" \in label[i].stage => "decomposta" \in label'[i].stage
                         /\ "refino" \in label'[i].stage => "refino" \in label[i].stage
      BY <2>5 DEF Moved
    <2>8. faults' = 0 => PassOk(i)'
      BY <2>1, <2>5, <2>6, <2>7, CarryPass DEF PassInv
    <2> QED BY <2>1, <2>5, <2>6, <2>8, OnePass DEF SameBooks
  <1>2. ASSUME CritiqueAccepted \/ CritiqueNotAccepted PROVE PassInv'
    <2>1. PICK i \in Issues : i = tick.on
      BY <1>2, OnType DEF CritiqueAccepted, Accepted, CritiqueNotAccepted, NotAccepted
    <2>2. /\ tick.at = "critique" /\ tick.point = "posting" /\ tick'.point = "next"
          /\ kills' = kills /\ spent' = spent /\ label[i] \in Labels
      BY <1>2, <2>1, Stops
         DEF CritiqueAccepted, Accepted, CritiqueNotAccepted, NotAccepted, counters, TypeOK
    <2>3. faults = 0 => "refino" \notin label[i].stage /\ "decomposta" \notin label[i].stage
      BY <2>1, <2>2 DEF GateInv, StageInv, Alone
    <2>4. \A j \in Issues \ {i} : ledger'[j] = ledger[j]
      BY <1>2, <2>1
         DEF CritiqueAccepted, Accepted, CritiqueNotAccepted, NotAccepted, TypeOK
    <2>5. /\ \A j \in Issues \ {i} : label'[j] = label[j]
          /\ label'[i].passes = label[i].passes
          /\ faults' = 0 => faults = 0 /\ "refino" \notin label'[i].stage
      <3>1. CASE CritiqueAccepted
        BY <2>3, <3>1 DEF CritiqueAccepted, Accepted, counters
      <3>2. CASE CritiqueNotAccepted
        <4>1. PICK how \in Outcomes : Move(i, "em_revisao", "nova", how, label[i])
          BY <2>1, <3>2 DEF CritiqueNotAccepted
        <4>2. /\ \A j \in Issues \ {i} : label'[j] = label[j]
              /\ label'[i].passes = label[i].passes
              /\ faults' = 0 => /\ faults = 0
                                /\ label'[i].stage = Moved(label[i].stage, "em_revisao", "nova")
          BY <2>2, <4>1, MoveBooks
        <4> QED BY <2>3, <4>2 DEF Moved
      <3> QED BY <1>2, <3>1, <3>2
    <2>6. faults' = 0 => PassOk(i)'
      BY <2>2, <2>3, <2>5, CarryPass DEF PassInv
    <2> QED BY <2>1, <2>2, <2>4, <2>5, <2>6, OnePass DEF SameBooks
  <1> QED BY <1>1, <1>2

\* The verdict of a refinement costs a pass only while there is room for one,
\* and its ledger entry is dropped next.
LEMMA SettlePass ==
  ASSUME TypeOK, TypeOK', GateInv, PassInv, NEW i \in Issues,
         \/ SettleError(i) \/ SettleDecomposed(i) \/ SettleWaiting(i)
         \/ SettleDiverged(i) \/ SettleConverged(i) \/ SettleChanged(i)
  PROVE  PassInv'
  <1>1. /\ tick.point = "next" /\ tick.at = "settle" /\ ledger' = ledger /\ kills' = kills
        /\ i \in tick.list /\ ledger[i] # "none" /\ label[i] \in Labels
    BY DEF SettleError, SettleDecomposed, SettleWaiting, SettleDiverged,
           SettleConverged, SettleChanged, At, Foremost, Over, TypeOK
  <1>2. tick' = Abort \/ tick' = Stop(i, "clearing")
    BY DEF SettleError, SettleDecomposed, SettleWaiting, SettleDiverged,
           SettleConverged, SettleChanged, Block, Abort
  <1>3. /\ tick'.point = "next" \/ (tick'.on = i /\ tick'.at # "idle")
        /\ tick'.point # "posting"
    BY <1>1, <1>2, Stops, Onward
  <1>4. faults = 0 => "refino" \in label[i].stage /\ "decomposta" \notin label[i].stage
    BY <1>1 DEF GateInv, StageInv, Alone
  <1>5. faults = 0 => /\ PassOk(i) /\ spent[i] <= label[i].passes
                      /\ spent[i] + 1 <= MaxRefine + kills
    <2>1. faults = 0 => /\ PassOk(i) /\ spent[i] <= label[i].passes
                        /\ spent[i] < MaxRefine + kills
      BY <1>1, <1>4 DEF PassInv, PassOk
    <2> QED BY <2>1, PassTypes
  <1> DEFINE rest(how) == IF how = "moved"
                          THEN [label[i] EXCEPT !.refinar = FALSE, !.passes = 0]
                          ELSE label[i]
  <1>6. /\ \A j \in Issues \ {i} : label'[j] = label[j] /\ spent'[j] = spent[j]
        /\ faults' = 0 => faults = 0 /\ PassOk(i)'
    <2>1. CASE SettleError(i)
      <3>1. PICK n \in 0..MaxPasses :
              /\ CountPass(i, [label[i] EXCEPT !.passes = n])
              /\ label' = [label EXCEPT ![i].passes = n]
        BY <2>1 DEF SettleError
      <3>2. /\ tick'.point = "clearing" /\ tick'.on = i
            /\ faults' = 0 => faults = 0
        BY <2>1, Stops DEF SettleError, NoFault, Fault, TypeOK
      <3>3. /\ \A j \in Issues \ {i} : label'[j] = label[j] /\ spent'[j] = spent[j]
            /\ label'[i].stage = label[i].stage /\ label'[i].passes = n
            /\ spent'[i] <= spent[i] + 1
            /\ faults' = 0 /\ spent[i] <= label[i].passes => spent'[i] <= n
        BY <3>1, <3>2, CountBooks
      <3>4. faults' = 0 => spent'[i] <= MaxRefine + kills
        <4>1. spent'[i] \in Int /\ spent[i] \in Int
          BY PassTypes DEF TypeOK
        <4> QED BY <1>5, <3>2, <3>3, <4>1, PassTypes
      <3> QED BY <1>1, <1>5, <3>2, <3>3, <3>4 DEF PassOk
    <2>2. CASE SettleDecomposed(i)
      <3>1. spent' = spent /\ tick'.point = "clearing" /\ tick'.on = i
        BY <2>2, Stops DEF SettleDecomposed
      <3>2. CASE \E how \in Outcomes : Move(i, "refino", "decomposta", how, rest(how))
        <4>1. PICK how \in Outcomes : Move(i, "refino", "decomposta", how, rest(how))
          BY <3>2
        <4>2. rest(how) \in Labels /\ rest(how).stage = label[i].stage
          BY UnmarkedRest
        <4> HIDE DEF rest
        <4>3. /\ \A j \in Issues \ {i} : label'[j] = label[j]
              /\ faults' = 0 => /\ faults = 0
                                /\ label'[i].stage = Moved(label[i].stage, "refino", "decomposta")
          BY <4>1, <4>2, MoveBooks
        <4>4. faults' = 0 => "decomposta" \in label'[i].stage
          BY <4>3 DEF Moved
        <4> QED BY <1>1, <1>5, <3>1, <4>3, <4>4 DEF PassOk
      <3>3. CASE /\ Fault(1)
                 /\ label' = [label EXCEPT ![i].stage = Moved(@, "refino", "decomposta")]
        BY <3>1, <3>3 DEF Fault, TypeOK
      <3> QED BY <2>2, <3>2, <3>3 DEF SettleDecomposed
    <2>3. CASE SettleWaiting(i)
      <3>1. spent' = spent /\ \A j \in Issues \ {i} : label'[j] = label[j]
        BY <2>3 DEF SettleWaiting, TypeOK
      <3>2. CASE Fault(1)
        BY <3>1, <3>2 DEF Fault, TypeOK
      <3>3. CASE /\ label' = [label EXCEPT ![i].waiting = TRUE]
                 /\ tick' = Stop(i, "clearing") /\ NoFault
        <4>1. label'[i].stage = label[i].stage /\ label'[i].passes = label[i].passes
          BY <1>1, <3>3, Relabel, MarksKeepStage, MarksKeepPasses
        <4>2. tick'.point = "clearing" /\ tick'.on = i /\ faults' = faults
          BY <3>3, Stops DEF NoFault
        <4> QED BY <1>1, <1>5, <3>1, <4>1, <4>2, CarryPass
      <3> QED BY <2>3, <3>2, <3>3 DEF SettleWaiting
    <2>4. CASE SettleDiverged(i)
      <3>1. PICK F \in BlockFaults : Block(i, F, Stop(i, "clearing"))
        BY <2>4 DEF SettleDiverged
      <3> QED BY <1>3, <3>1, BlockBooks, ZeroPass
    <2>5. CASE SettleConverged(i)
      <3>1. CASE \E how \in Outcomes :
                   /\ Move(i, "refino", "revisada", how, rest(how))
                   /\ spent' = [spent EXCEPT ![i] = IF how = "moved" THEN 0 ELSE @]
        <4>1. PICK how \in Outcomes :
                   /\ Move(i, "refino", "revisada", how, rest(how))
                   /\ spent' = [spent EXCEPT ![i] = IF how = "moved" THEN 0 ELSE @]
          BY <3>1
        <4>2. rest(how) \in Labels /\ rest(how).stage = label[i].stage
          BY UnmarkedRest
        <4> HIDE DEF rest
        <4>3. /\ \A j \in Issues \ {i} : label'[j] = label[j]
              /\ faults' = 0 => faults = 0 /\ how = "moved"
          BY <4>1, <4>2, MoveBooks
        <4>4. /\ \A j \in Issues \ {i} : spent'[j] = spent[j]
              /\ how = "moved" => spent'[i] = 0
          BY <4>1 DEF TypeOK
        <4> QED BY <1>3, <4>3, <4>4, ZeroPass
      <3>2. CASE /\ Fault(1)
                 /\ label' = [label EXCEPT ![i].stage = Moved(@, "refino", "revisada")]
                 /\ spent' = spent
        BY <3>2 DEF Fault, TypeOK
      <3> QED BY <2>5, <3>1, <3>2 DEF SettleConverged
    <2>6. CASE SettleChanged(i)
      <3> DEFINE count == Bumped(Known(i))
      <3>1. PICK how \in Outcomes, n \in 0..MaxPasses :
              /\ n = count \/ how = "kept"
              /\ Move(i, "refino", "nova", how, [label[i] EXCEPT !.passes = n])
              /\ spent' = [spent EXCEPT ![i] = IF @ < MaxPasses THEN @ + 1 ELSE @]
        BY <2>6, Zenon DEF SettleChanged
      <3> DEFINE r == [label[i] EXCEPT !.passes = n]
      <3>2. r \in Labels /\ r.stage = label[i].stage /\ r.passes = n
        BY <1>1 DEF Labels
      <3>3. Move(i, "refino", "nova", how, r)
        BY <3>1
      <3> HIDE DEF r
      <3>4. /\ \A j \in Issues \ {i} : label'[j] = label[j]
            /\ label'[i].passes = n
            /\ faults' = 0 => /\ faults = 0 /\ how = "moved"
                              /\ label'[i].stage = Moved(label[i].stage, "refino", "nova")
        BY <3>2, <3>3, MoveBooks
      <3>5. /\ \A j \in Issues \ {i} : spent'[j] = spent[j]
            /\ spent'[i] = IF spent[i] < MaxPasses THEN spent[i] + 1 ELSE spent[i]
        BY <3>1 DEF TypeOK
      <3>6. faults' = 0 => spent'[i] <= n /\ spent'[i] <= MaxRefine + kills
        <4>1. faults' = 0 => n = count
          BY <3>1, <3>4
        <4> QED BY <1>5, <3>4, <3>5, <4>1, PassTypes, CountTypes DEF Bumped, TypeOK
      <3>7. tick'.point = "clearing" /\ tick'.on = i
        BY <2>6, Stops DEF SettleChanged
      <3> QED BY <1>1, <3>4, <3>5, <3>6, <3>7 DEF PassOk
    <2> QED BY <2>1, <2>2, <2>3, <2>4, <2>5, <2>6
  <1> QED BY <1>1, <1>3, <1>6, OnePass DEF SameBooks

\* A refinement begins below the ceiling, for an issue without an entry.
LEMMA RefinePass ==
  ASSUME TypeOK, TypeOK', GateInv, PassInv, NEW i \in Issues,
         Rehydrate(i) \/ RefineCeiling(i) \/ RefineBegin(i)
  PROVE  PassInv'
  <1>1. /\ tick.point = "next" /\ tick.at = "refine" /\ ledger' = ledger /\ kills' = kills
        /\ i \in tick.list /\ ledger[i] = "none" /\ label[i] \in Labels
    BY DEF Rehydrate, RefineCeiling, RefineBegin, Refining, At, Foremost, TypeOK
  <1>2. faults = 0 => "decomposta" \notin label[i].stage
    BY <1>1 DEF GateInv, StageInv
  <1>3. CASE Rehydrate(i)
    <2> DEFINE cur == label[i].stage \cap {"nova", "em_revisao", "revisada"}
    <2>1. PICK from \in IF cur = {} THEN {"none"} ELSE cur, how \in Outcomes :
            Move(i, from, "refino", how, label[i])
      BY <1>3, Zenon DEF Rehydrate
    <2>2. tick'.point = "next" /\ spent' = spent
      BY <1>3, Stops DEF Rehydrate
    <2>3. /\ \A j \in Issues \ {i} : label'[j] = label[j]
          /\ label'[i].passes = label[i].passes
          /\ faults' = 0 => faults = 0
      BY <1>1, <2>1, MoveBooks
    <2>4. faults' = 0 => PassOk(i)'
      BY <1>1, <1>2, <2>2, <2>3, CarryPass DEF PassInv
    <2> QED BY <1>1, <2>2, <2>3, <2>4, OnePass DEF SameBooks
  <1>4. CASE RefineCeiling(i)
    <2>1. PICK F \in BlockFaults : Block(i, F, Leave(i))
      BY <1>4 DEF RefineCeiling
    <2>2. tick'.point = "next"
      BY <2>1, Stops DEF Block
    <2>3. /\ \A j \in Issues \ {i} : label'[j] = label[j] /\ spent'[j] = spent[j]
          /\ faults' = 0 => faults = 0 /\ PassOk(i)'
      BY <2>1, <2>2, BlockBooks, ZeroPass
    <2> QED BY <1>1, <2>2, <2>3, OnePass DEF SameBooks
  <1>5. CASE RefineBegin(i)
    <2>1. \/ label' = label
          \/ label' = [label EXCEPT ![i].refinar = TRUE]
      BY <1>5 DEF RefineBegin
    <2>2. /\ \A j \in Issues \ {i} : label'[j] = label[j]
          /\ label'[i].stage = label[i].stage /\ label'[i].passes = label[i].passes
      <3>1. CASE label' = label
        BY <3>1
      <3>2. CASE label' = [label EXCEPT ![i].refinar = TRUE]
        BY <1>1, <3>2, Relabel, MarksKeepStage, MarksKeepPasses
      <3> QED BY <2>1, <3>1, <3>2
    <2>3. /\ tick'.point = "posting" /\ tick'.on = i /\ tick'.at = "refine"
          /\ spent' = spent /\ Known(i) < MaxRefine
      BY <1>1, <1>5, Stops DEF RefineBegin
    <2>4. faults' = 0 => faults = 0
      BY <1>5 DEF RefineBegin, NoFault, Fault, TypeOK
    <2>5. faults = 0 => spent[i] < MaxRefine + kills
      <3>1. faults = 0 => spent[i] <= label[i].passes
        BY <1>2 DEF PassInv, PassOk
      <3> QED BY <2>3, <3>1, PassTypes
    <2>6. faults' = 0 => PassOk(i)'
      BY <1>1, <2>2, <2>3, <2>4, <2>5 DEF PassInv, PassOk
    <2> QED BY <1>1, <2>2, <2>3, <2>4, <2>6, OnePass DEF SameBooks
  <1> QED BY <1>3, <1>4, <1>5

\* The posted pass gets its entry, or costs the one there was room for.
LEMMA RefinePostPass ==
  ASSUME TypeOK, TypeOK', GateInv, PassInv, RefineAccepted \/ RefineNotAccepted
  PROVE  PassInv'
  <1>1. PICK i \in Issues : i = tick.on
    BY OnType DEF RefineAccepted, Accepted, RefineNotAccepted, NotAccepted
  <1>2. /\ tick.at = "refine" /\ tick.point = "posting" /\ kills' = kills
        /\ \A j \in Issues \ {i} : ledger'[j] = ledger[j]
    BY <1>1 DEF RefineAccepted, Accepted, RefineNotAccepted, NotAccepted, counters, TypeOK
  <1>3. faults = 0 => /\ PassOk(i) /\ ledger[i] = "none"
                      /\ spent[i] < MaxRefine + kills
    BY <1>1, <1>2 DEF PassInv, PassOk
  <1>4. CASE RefineAccepted
    <2>1. tick'.point = "next"
      <3>1. Leave(i) \in Ticks /\ Leave(i).point = "next"
        BY LeaveType
      <3>2. tick' = [Leave(i) EXCEPT !.slots = @ - 1]
        BY <1>1, <1>4 DEF RefineAccepted
      <3> QED BY <3>1, <3>2 DEF Ticks
    <2>2. label' = label /\ spent' = spent /\ faults' = faults
      BY <1>4 DEF RefineAccepted, Accepted, counters
    <2>3. faults' = 0 => PassOk(i)'
      BY <1>2, <1>3, <2>1, <2>2 DEF PassOk
    <2> QED BY <1>1, <1>2, <2>1, <2>2, <2>3, OnePass DEF SameBooks
  <1>5. CASE RefineNotAccepted
    <2>1. PICK n \in 0..MaxPasses :
            /\ CountPass(i, [label[i] EXCEPT !.passes = n])
            /\ label' = [label EXCEPT ![i].passes = n]
      BY <1>1, <1>5 DEF RefineNotAccepted
    <2>2. /\ tick'.point = "next" /\ (faults' = 0 => faults = 0)
      BY <1>1, <1>5, Stops DEF RefineNotAccepted, NoFault, Fault, TypeOK
    <2>3. /\ \A j \in Issues \ {i} : label'[j] = label[j] /\ spent'[j] = spent[j]
          /\ label'[i].stage = label[i].stage /\ label'[i].passes = n
          /\ spent'[i] <= spent[i] + 1
          /\ faults' = 0 /\ spent[i] <= label[i].passes => spent'[i] <= n
      BY <2>1, <2>2, CountBooks
    <2>4. faults = 0 => ledger'[i] = "none"
      BY <1>1, <1>3, <1>5 DEF RefineNotAccepted, NotAccepted, TypeOK
    <2>5. faults' = 0 => spent'[i] <= MaxRefine + kills
      <3>1. spent'[i] \in Int /\ spent[i] \in Int
        BY PassTypes DEF TypeOK
      <3> QED BY <1>3, <2>2, <2>3, <3>1, PassTypes
    <2>6. faults' = 0 => PassOk(i)'
      BY <1>2, <1>3, <2>2, <2>3, <2>4, <2>5 DEF PassOk
    <2> QED BY <1>1, <1>2, <2>2, <2>3, <2>6, OnePass DEF SameBooks
  <1> QED BY <1>4, <1>5

LEMMA DecomposePass ==
  ASSUME TypeOK, PassInv, RefineDone \/ DecomposeFails \/ Decompose
  PROVE  PassInv'
  <1>1. CASE RefineDone
    <2>1. PICK A \in SUBSET {i \in Wears("revisada") : ~label[i].blocked /\ ~label[i].own} :
            LET owned == {i \in Wears("revisada") : i \in A \/ label[i].own}
                S == {i \in owned : /\ label[i].intent /\ ~label[i].blocked
                                    /\ "decomposta" \notin label[i].stage}
            IN  /\ label' = [i \in Issues |-> [label[i] EXCEPT !.own = @ \/ i \in A]]
                /\ Fault(Cardinality({i \in Wears("revisada") : ~label[i].blocked} \ owned))
                /\ \/ S = {} /\ tick' = IdleTick
                   \/ \E i \in Foremost(S) :
                         tick' = [IdleTick EXCEPT !.at = "decompose", !.point = "waiting",
                                                  !.on = i]
      BY <1>1, Zenon DEF RefineDone
    <2> DEFINE owned == {i \in Wears("revisada") : i \in A \/ label[i].own}
               lost == {i \in Wears("revisada") : ~label[i].blocked} \ owned
    <2>2. \A j \in Issues : /\ label'[j].stage = label[j].stage
                            /\ label'[j].passes = label[j].passes
      <3> TAKE j \in Issues
      <3>1. label[j] \in Labels /\ label'[j] = [label[j] EXCEPT !.own = @ \/ j \in A]
        BY <2>1 DEF TypeOK
      <3> QED BY <3>1, MarksKeepStage, MarksKeepPasses
    <2>3. faults' = 0 => faults = 0
      <3>1. lost \in SUBSET Issues
        BY DEF Wears
      <3>2. Fault(Cardinality(lost))
        BY <2>1, Zenon
      <3> HIDE DEF lost
      <3> QED BY <3>1, <3>2, PartSize DEF Fault, TypeOK
    <2>4. \/ tick' = IdleTick
          \/ \E i \in Wears("revisada") :
                tick' = [IdleTick EXCEPT !.at = "decompose", !.point = "waiting", !.on = i]
      BY <2>1, Zenon DEF Foremost
    <2>5. tick'.point = "next" \/ (tick'.point = "waiting" /\ tick'.at # "idle")
      <3>1. CASE tick' = IdleTick
        BY <3>1 DEF IdleTick
      <3>2. ASSUME NEW i \in Wears("revisada"),
                   tick' = [IdleTick EXCEPT !.at = "decompose", !.point = "waiting",
                                            !.on = i]
            PROVE  tick'.point = "waiting" /\ tick'.at # "idle"
        BY <3>2 DEF IdleTick
      <3> QED BY <2>4, <3>1, <3>2
    <2>6. tick.point = "next" /\ ledger' = ledger /\ spent' = spent /\ kills' = kills
      BY <1>1 DEF RefineDone, Done
    <2> QED BY <2>2, <2>3, <2>5, <2>6, NoPass DEF SameBooks
  <1>2. CASE DecomposeFails
    BY <1>2, NoPass DEF DecomposeFails, counters, SameBooks, IdleTick
  <1>3. CASE Decompose
    <2>1. PICK i \in Issues : i = tick.on
      BY <1>3, OnType DEF Decompose
    <2>2. /\ tick.point = "waiting" /\ tick'.point = "next" /\ kills' = kills
          /\ ledger' = ledger /\ spent' = spent /\ label[i] \in Labels
      BY <1>3, <2>1, Stops DEF Decompose, TypeOK
    <2>3. PICK how \in Outcomes : Move(i, "revisada", "decomposta", how, label[i])
      BY <1>3, <2>1 DEF Decompose
    <2>4. /\ \A j \in Issues \ {i} : label'[j] = label[j]
          /\ label'[i].passes = label[i].passes
          /\ faults' = 0 => /\ faults = 0
                            /\ label'[i].stage = Moved(label[i].stage, "revisada", "decomposta")
      BY <2>2, <2>3, MoveBooks
    <2>5. faults' = 0 => /\ "decomposta" \in label'[i].stage
                         /\ "refino" \in label'[i].stage => "refino" \in label[i].stage
      BY <2>4 DEF Moved
    <2>6. faults' = 0 => PassOk(i)'
      BY <2>2, <2>4, <2>5, CarryPass DEF PassInv
    <2> QED BY <2>1, <2>2, <2>4, <2>6, OnePass DEF SameBooks
  <1> QED BY <1>1, <1>2, <1>3

\* A restart may repeat the pass whose verdict is being applied.
LEMMA EnvironmentPass ==
  ASSUME TypeOK, PassInv,
         Kill \/ \E i \in Issues : SessionEnds(i) \/ Ages(i) \/ HumanEdits(i)
  PROVE  PassInv'
  <1>1. ASSUME NEW i \in Issues, SessionEnds(i) \/ Ages(i) PROVE PassInv'
    BY <1>1, NoPass DEF SessionEnds, Ages, counters, SameBooks
  <1>2. ASSUME NEW i \in Issues, HumanEdits(i) PROVE PassInv'
    <2>1. PICK edited \in {[label[i] EXCEPT !.blocked = ~@],
                           [label[i] EXCEPT !.waiting = FALSE],
                           [label[i] EXCEPT !.refinar = TRUE]} :
            label' = [label EXCEPT ![i] = edited]
      BY <1>2 DEF HumanEdits
    <2>2. edited.stage = label[i].stage /\ edited.passes = label[i].passes
      BY DEF TypeOK, Labels
    <2>3. \A j \in Issues : /\ label'[j].stage = label[j].stage
                            /\ label'[j].passes = label[j].passes
      BY <2>1, <2>2, Relabel
    <2> QED BY <1>2, <2>3, NoPass DEF HumanEdits, SameBooks
  <1>3. CASE Kill
    <2>1. /\ label' = label /\ ledger' = ledger /\ spent' = spent /\ faults' = faults
          /\ kills' = kills + 1 /\ tick'.point = "next"
      BY <1>3 DEF Kill, IdleTick
    <2>2. ASSUME faults = 0, NEW j \in Issues PROVE PassOk(j)'
      <3>1. PassOk(j)
        BY <2>2 DEF PassInv
      <3>2. spent[j] <= MaxRefine + kills => spent[j] < MaxRefine + (kills + 1)
        BY PassTypes
      <3>3. spent[j] <= MaxRefine + kills => spent[j] <= MaxRefine + (kills + 1)
        BY PassTypes
      <3> QED BY <2>1, <3>1, <3>2, <3>3 DEF PassOk
    <2> QED BY <2>1, <2>2 DEF PassInv
  <1> QED BY <1>1, <1>2, <1>3

LEMMA NextPass == TypeOK /\ GateInv /\ PassInv /\ [Next]_vars => PassInv'
  <1> SUFFICES ASSUME TypeOK, GateInv, PassInv, [Next]_vars PROVE PassInv'
    OBVIOUS
  <1>1. TypeOK'
    BY NextType
  <1>2. CASE UNCHANGED vars
    BY <1>2, NoPass DEF vars, counters, SameBooks
  <1>3. CASE TickStep
    <2>1. ASSUME NEW i \in Issues, IssueStep(i) PROVE PassInv'
      BY <1>1, <2>1, ReapPass, WaitPass, JudgePass, CritiquePass, SettlePass, RefinePass
         DEF IssueStep
    <2> QED BY <1>1, <1>3, <2>1, ListPass, ClearPass, CritiquePass, RefinePostPass,
               DecomposePass
            DEF TickStep
  <1>4. CASE Kill \/ \E i \in Issues : SessionEnds(i) \/ Ages(i) \/ HumanEdits(i)
    BY <1>4, EnvironmentPass
  <1> QED BY <1>2, <1>3, <1>4 DEF Next

LEMMA InitPass == Init => PassInv
  <1> SUFFICES ASSUME Init, NEW i \in Issues PROVE PassOk(i) /\ tick.point = "next"
    BY DEF PassInv, Init, IdleTick
  <1>1. /\ label[i].passes = 0 /\ spent[i] = 0 /\ kills = 0 /\ ledger[i] = "none"
        /\ tick.point = "next"
    BY DEF Init, IdleTick
  <1>2. 0 <= MaxRefine + 0
    BY BoundsAssumption
  <1> QED BY <1>1, <1>2 DEF PassOk

\* The gate does not refine an issue for ever: as long as no forge call failed,
\* between two resets of its count an issue costs refine_max_attempts passes
\* at most, and one more for every restart, for any issues and bounds and
\* however sessions end, claims are reaped and humans edit labels.
THEOREM PassesAreBounded == Spec => []PassesBounded
  <1>1. TypeOK /\ PassInv => PassesBounded
    BY DEF TypeOK, PassInv, PassOk, PassesBounded
  <1>2. Spec => []PassInv
    BY InitPass, NextPass, RefineTypeOK, GateHolds, PTL DEF Spec
  <1> QED BY <1>1, <1>2, RefineTypeOK, PTL

=============================================================================
