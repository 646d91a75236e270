------------------------ MODULE IssueImplement_proofs ------------------------
(***************************************************************************)
(* Proofs about IssueImplement, for any set of issues, any bounds and any   *)
(* configuration: type correctness, and the claim discipline of a pipeline  *)
(* without forced ticks.                                                    *)
(***************************************************************************)
EXTENDS IssueImplement, FiniteSetTheorems, TLAPS

-----------------------------------------------------------------------------
(* Helpers: what the bookkeeping of a tick does to its record *)

LEMMA ListTypes ==
  ASSUME NEW S \in SUBSET Issues, NEW f \in [S -> 0..MaxReaps]
  PROVE  f \in Snapshots
  BY Zenon DEF Snapshots

LEMMA TickTypes ==
  ASSUME TypeOK, NEW t \in Ticks
  PROVE  /\ tick[t] \in TickStates
         /\ Listed(t) \in SUBSET Issues
         /\ \A i \in Listed(t) : tick[t].list[i] \in 0..MaxReaps
  <1>1. tick[t] \in TickStates
    BY DEF TypeOK
  <1>2. tick[t].list \in Snapshots
    BY <1>1 DEF TickStates
  <1>3. PICK S \in SUBSET Issues : tick[t].list \in [S -> 0..MaxReaps]
    BY <1>2 DEF Snapshots
  <1> QED BY <1>1, <1>3 DEF Listed

LEMMA Bounds == /\ {MaxParallel, MaxAttempts, MaxIncomplete, MaxReaps} \subseteq Nat \ {0}
                /\ 0 \in 0..MaxReaps
  BY BoundsAssumption

\* A label move is about an issue.
LEMMA MoveTypes ==
  ASSUME TypeOK, NEW t \in Ticks, tick[t].move # "none"
  PROVE  tick[t].on \in Issues /\ tick[t].next \in 0..MaxReaps
  BY TickTypes DEF TickStates

LEMMA StageTypes ==
  ASSUME TypeOK, NEW i, NEW label \in Stages, NEW ok,
         AddStage(i, label, ok) \/ RemoveStage(i, label, ok)
  PROVE  stage' \in [Issues -> SUBSET Stages]
  <1> DEFINE add == IF ok THEN stage[i] \cup {label} ELSE stage[i]
             remove == IF ok THEN stage[i] \ {label} ELSE stage[i]
  <1>1. i \in Issues => stage[i] \in SUBSET Stages
    BY DEF TypeOK
  <1>2. i \in Issues => add \in SUBSET Stages /\ remove \in SUBSET Stages
    BY <1>1, Zenon
  <1>3. stage' = [stage EXCEPT ![i] = add] \/ stage' = [stage EXCEPT ![i] = remove]
    BY DEF AddStage, RemoveStage
  <1> HIDE DEF add, remove
  <1> QED BY <1>2, <1>3 DEF TypeOK

LEMMA EmptyTypes == Empty \in Snapshots
  <1>1. Empty \in [{} -> 0..MaxReaps]
    BY DEF Empty
  <1> QED BY <1>1, ListTypes

LEMMA EnterTypes ==
  ASSUME TypeOK, NEW t \in Ticks, NEW phase \in Phases, NEW S \in SUBSET Issues,
         Enter(t, phase, S)
  PROVE  tick' \in [Ticks -> TickStates]
  <1>1. PICK L \in Listings(S) :
          tick' = [tick EXCEPT ![t].at = phase,
                               ![t].list = [i \in L |-> attempt[i]]]
    BY DEF Enter
  <1>2. L \in SUBSET Issues
    BY DEF Listings
  <1>3. [i \in L |-> attempt[i]] \in [L -> 0..MaxReaps]
    BY <1>2 DEF TypeOK
  <1>4. [i \in L |-> attempt[i]] \in Snapshots
    BY <1>2, <1>3, ListTypes
  <1> DEFINE l == [i \in L |-> attempt[i]]
             r == [tick[t] EXCEPT !.at = phase, !.list = l]
  <1> HIDE DEF l
  <1>5. r \in TickStates
    BY <1>4, TickTypes DEF TickStates, l
  <1>6. tick' = [tick EXCEPT ![t] = r]
    BY <1>1 DEF TypeOK, l
  <1> QED BY <1>5, <1>6 DEF TypeOK

LEMMA LeaveTypes ==
  ASSUME TypeOK, NEW t \in Ticks, NEW i \in Listed(t), NEW m \in Moves,
         Leave(t, i, m)
  PROVE  tick' \in [Ticks -> TickStates]
  <1> DEFINE L == [j \in Listed(t) \ {i} |-> tick[t].list[j]]
             n == IF m \in {"reap", "exhaust"} THEN NextCount(tick[t].list[i]) ELSE 0
             o == IF m = "none" THEN 0 ELSE i
  <1>1. tick' = [tick EXCEPT ![t].list = L, ![t].move = m, ![t].on = o, ![t].next = n]
    BY DEF Leave
  <1>2. L \in [Listed(t) \ {i} -> 0..MaxReaps]
    BY TickTypes
  <1>3. L \in Snapshots
    <2>1. Listed(t) \ {i} \in SUBSET Issues
      BY TickTypes
    <2> HIDE DEF L
    <2> QED BY <1>2, <2>1, ListTypes
  <1>4. n \in 0..MaxReaps
    BY TickTypes, BoundsAssumption DEF NextCount
  <1>5. o \in Issues \cup {0} /\ (m # "none" => o \in Issues)
    BY TickTypes
  <1> DEFINE r == [tick[t] EXCEPT !.list = L, !.move = m, !.on = o, !.next = n]
  <1> HIDE DEF L, n, o
  <1>6. r \in TickStates
    BY <1>3, <1>4, <1>5, TickTypes DEF TickStates
  <1>7. tick' = [tick EXCEPT ![t] = r]
    BY <1>1 DEF TypeOK
  <1> QED BY <1>6, <1>7 DEF TypeOK

LEMMA LandedTypes ==
  ASSUME TypeOK, NEW t \in Ticks
  PROVE  Landed(t) \in [Ticks -> TickStates]
  <1> DEFINE r == [tick[t] EXCEPT !.move = "none", !.on = 0, !.next = 0]
  <1>1. r \in TickStates
    <2>1. "none" \in Moves /\ 0 \in Issues \cup {0} /\ 0 \in 0..MaxReaps
      BY Bounds DEF Moves
    <2> QED BY <2>1, TickTypes DEF TickStates
  <1>2. Landed(t) = [tick EXCEPT ![t] = r]
    BY DEF Landed, TypeOK
  <1> QED BY <1>1, <1>2 DEF TypeOK

LEMMA IdleTypes == IdleTick \in TickStates
  BY EmptyTypes, BoundsAssumption DEF IdleTick, TickStates, Phases, Moves

-----------------------------------------------------------------------------
(* Type correctness *)

LEMMA TrackTypes ==
  ASSUME TypeOK
  PROVE  /\ NoTrack \in Tracks
         /\ \A i \in Issues : tracker[i] \in Tracks
  BY BoundsAssumption DEF TypeOK, Tracks, NoTrack, Errors

\* A step of a tick coroutine keeps every type.
LEMMA TickStepTypes ==
  ASSUME TypeOK, NEW t \in Ticks, TickStep(t)
  PROVE  TypeOK'
  <1>1. ASSUME StartTick(t) PROVE TypeOK'
    <2>1. tick' \in [Ticks -> TickStates]
      <3>1. "reap" \in Phases
        BY DEF Phases
      <3> QED BY <1>1, <3>1, EnterTypes DEF StartTick
    <2> QED BY <1>1, <2>1 DEF StartTick, TypeOK, forge, env
  <1>2. ASSUME ReapSkip(t) PROVE TypeOK'
    <2>1. tick' \in [Ticks -> TickStates]
      <3>1. {"none"} \subseteq Moves
        BY DEF Moves
      <3> QED BY <1>2, <3>1, LeaveTypes DEF ReapSkip, Foremost
    <2> QED BY <1>2, <2>1, TickTypes, TrackTypes DEF ReapSkip, Foremost, TypeOK, forge, env
  <1>3. ASSUME ReapRemove(t) PROVE TypeOK'
    <2>1. tick' \in [Ticks -> TickStates]
      <3>1. {"none", "reap", "exhaust"} \subseteq Moves
        BY DEF Moves
      <3> QED BY <1>3, <3>1, LeaveTypes DEF ReapRemove, Foremost
    <2> QED BY <1>3, <2>1, TickTypes, TrackTypes, Bounds DEF ReapRemove, Foremost, TypeOK, forge, env, RemoveStage
  <1>4. ASSUME FinishReap(t) PROVE TypeOK'
    <2>1. tick[t].on \in Issues /\ tick[t].next \in 0..MaxReaps
      BY <1>4, MoveTypes DEF FinishReap
    <2> DEFINE i == tick[t].on
               n == tick[t].next
    <2>2. PICK ok \in ForgeOk :
            /\ AddStage(i, "revisada", ok /\ ~(tick[t].move = "exhaust"))
            /\ blocked' = [blocked EXCEPT ![i] = @ \/ (ok /\ tick[t].move = "exhaust")]
            /\ attempt' = [attempt EXCEPT ![i] = IF ok /\ n > @ THEN n ELSE @]
      BY <1>4 DEF FinishReap
    <2> HIDE DEF i, n
    <2>3. stage' \in [Issues -> SUBSET Stages]
      BY <2>2, StageTypes DEF Stages
    <2>4. blocked' \in [Issues -> BOOLEAN]
      BY <2>1, <2>2 DEF TypeOK, ForgeOk, i
    <2>5. attempt' \in [Issues -> 0..MaxReaps]
      BY <2>1, <2>2 DEF TypeOK, n
    <2> QED BY <1>4, <2>3, <2>4, <2>5, LandedTypes DEF FinishReap, TypeOK, env
  <1>5. ASSUME ReapDone(t) PROVE TypeOK'
    <2>1. tick' \in [Ticks -> TickStates]
      <3>1. "reconcile" \in Phases
        BY DEF Phases
      <3> QED BY <1>5, <3>1, EnterTypes DEF ReapDone
    <2> QED BY <1>5, <2>1 DEF ReapDone, TypeOK, forge, env
  <1>6. ASSUME ReconcileSkip(t) PROVE TypeOK'
    <2>1. tick' \in [Ticks -> TickStates]
      <3>1. {"none"} \subseteq Moves
        BY DEF Moves
      <3> QED BY <1>6, <3>1, LeaveTypes DEF ReconcileSkip, Foremost
    <2> QED BY <1>6, <2>1, TickTypes, TrackTypes DEF ReconcileSkip, Foremost, TypeOK, forge, env
  <1>7. ASSUME ReconcileRemove(t) PROVE TypeOK'
    <2>1. tick' \in [Ticks -> TickStates]
      <3>1. {"none", "reconcile"} \subseteq Moves
        BY DEF Moves
      <3> QED BY <1>7, <3>1, LeaveTypes DEF ReconcileRemove, Foremost
    <2> QED BY <1>7, <2>1, TickTypes, TrackTypes DEF ReconcileRemove, Foremost, TypeOK, forge, env, RemoveStage
  <1>8. ASSUME FinishReconcile(t) PROVE TypeOK'
    <2>1. stage' \in [Issues -> SUBSET Stages]
      BY <1>8, StageTypes DEF FinishReconcile, Stages
    <2>2. tracker' \in [Issues -> Tracks]
      BY <1>8, MoveTypes, TrackTypes DEF FinishReconcile, TypeOK
    <2> QED BY <1>8, <2>1, <2>2, LandedTypes DEF FinishReconcile, TypeOK, env
  <1>9. ASSUME ReconcileDone(t) PROVE TypeOK'
    <2>1. tick' \in [Ticks -> TickStates]
      <3>1. "resume" \in Phases
        BY DEF Phases
      <3> QED BY <1>9, <3>1, EnterTypes DEF ReconcileDone
    <2> QED BY <1>9, <2>1 DEF ReconcileDone, TypeOK, forge, env
  <1>10. ASSUME ResumeNone(t) PROVE TypeOK'
    <2>1. tick' \in [Ticks -> TickStates]
      <3>1. "fetch" \in Phases
        BY DEF Phases
      <3> QED BY <1>10, <3>1, EnterTypes DEF ResumeNone
    <2> QED BY <1>10, <2>1 DEF ResumeNone, TypeOK, forge, env
  <1>11. ASSUME ResumeCeiling(t) PROVE TypeOK'
    <2>1. tick' \in [Ticks -> TickStates]
      <3>1. "fetch" \in Phases
        BY DEF Phases
      <3> QED BY <1>11, <3>1, EnterTypes DEF ResumeCeiling
    <2> QED BY <1>11, <2>1, TrackTypes DEF ResumeCeiling, TypeOK, forge, env, Block, ForgeOk
  <1>12. ASSUME ResumeSpawn(t) PROVE TypeOK'
    <2>1. tick' \in [Ticks -> TickStates]
      <3>1. "fetch" \in Phases
        BY DEF Phases
      <3> QED BY <1>12, <3>1, EnterTypes DEF ResumeSpawn
    <2>2. PICK i \in Listed(t) : /\ bg' = [bg EXCEPT ![i][t] = "posting"]
                                /\ resuming' = [resuming EXCEPT ![i] = TRUE]
      BY <1>12 DEF ResumeSpawn
    <2>3. /\ bg' \in [Issues -> [Ticks -> TaskStates]]
          /\ resuming' \in [Issues -> BOOLEAN]
      BY <2>2, TickTypes DEF TaskStates, TypeOK
    <2> QED BY <1>12, <2>1, <2>3 DEF ResumeSpawn, TypeOK, forge, env
  <1>13. ASSUME Fetch(t) PROVE TypeOK'
    <2>1. tick' \in [Ticks -> TickStates]
      <3>1. "count" \in Phases
        BY DEF Phases
      <3> QED BY <1>13, <3>1, EnterTypes DEF Fetch
    <2> QED BY <1>13, <2>1 DEF Fetch, TypeOK, forge, env
  <1>14. ASSUME Count(t) PROVE TypeOK'
    <2>1. PICK ok \in ForgeOk :
            LET batch == {i \in Listed(t) :
                            Cardinality({j \in Listed(t) : j < i}) < Slots(ok)}
            IN  tick' = [tick EXCEPT
                    ![t].at = "claim",
                    ![t].list = [i \in batch |-> tick[t].list[i]]]
      BY <1>14 DEF Count
    <2> DEFINE batch == {i \in Listed(t) :
                           Cardinality({j \in Listed(t) : j < i}) < Slots(ok)}
               l == [i \in batch |-> tick[t].list[i]]
    <2>2. l \in Snapshots
      <3>1. batch \in SUBSET Issues /\ batch \subseteq Listed(t)
        BY TickTypes
      <3> HIDE DEF batch
      <3>2. l \in [batch -> 0..MaxReaps]
        BY <3>1, TickTypes
      <3> HIDE DEF l
      <3> QED BY <3>1, <3>2, ListTypes
    <2> DEFINE r == [tick[t] EXCEPT !.at = "claim", !.list = l]
    <2>3. tick' = [tick EXCEPT ![t] = r]
      BY <2>1 DEF TypeOK
    <2> HIDE DEF l
    <2>4. r \in TickStates
      BY <2>2, TickTypes DEF TickStates, Phases
    <2> HIDE DEF r
    <2> QED BY <1>14, <2>3, <2>4 DEF Count, ForgeOk, TypeOK, forge
  <1>15. ASSUME ClaimPaused(t) PROVE TypeOK'
    <2>1. tick' \in [Ticks -> TickStates]
      <3>1. {"none"} \subseteq Moves
        BY DEF Moves
      <3> QED BY <1>15, <3>1, LeaveTypes DEF ClaimPaused, Foremost
    <2> QED BY <1>15, <2>1, TickTypes, TrackTypes DEF ClaimPaused, Foremost, TypeOK, forge, env
  <1>16. ASSUME ClaimMerged(t) PROVE TypeOK'
    <2>1. tick' \in [Ticks -> TickStates]
      <3>1. {"none"} \subseteq Moves
        BY DEF Moves
      <3> QED BY <1>16, <3>1, LeaveTypes DEF ClaimMerged, Foremost
    <2> QED BY <1>16, <2>1, TickTypes, TrackTypes DEF ClaimMerged, Foremost, TypeOK, forge, env, Block, ForgeOk
  <1>17. ASSUME ClaimRemove(t) PROVE TypeOK'
    <2>1. tick' \in [Ticks -> TickStates]
      <3>1. {"none", "park", "unpark", "claim"} \subseteq Moves
        BY DEF Moves
      <3> QED BY <1>17, <3>1, LeaveTypes DEF ClaimRemove, Foremost
    <2> QED BY <1>17, <2>1, TickTypes, TrackTypes DEF ClaimRemove, Foremost, TypeOK, forge, env, RemoveStage
  <1>18. ASSUME FinishPark(t) PROVE TypeOK'
    <2>1. stage' \in [Issues -> SUBSET Stages]
      BY <1>18, StageTypes DEF FinishPark, Stages
    <2>2. CASE Abort(t) /\ UNCHANGED tracker
      BY <1>18, <2>1, <2>2, IdleTypes DEF FinishPark, Abort, TypeOK, env
    <2>3. CASE /\ tracker' = [tracker EXCEPT ![tick[t].on] = NoTrack]
               /\ tick' = Landed(t)
               /\ UNCHANGED inFlight
      <3>1. tracker' \in [Issues -> Tracks]
        BY <2>3, TrackTypes DEF TypeOK
      <3> QED BY <1>18, <2>1, <2>3, <3>1, LandedTypes DEF FinishPark, TypeOK, env
    <2> QED BY <1>18, <2>2, <2>3 DEF FinishPark
  <1>19. ASSUME FinishClaim(t) PROVE TypeOK'
    <2>1. tick[t].on \in Issues
      BY <1>19, MoveTypes DEF FinishClaim
    <2>2. PICK ok \in ForgeOk :
            \/ tick' = [Landed(t) EXCEPT ![t].claimed =
                          IF ok THEN @ \cup {tick[t].on} ELSE @]
            \/ tick' = [tick EXCEPT ![t] = IdleTick]
      BY <1>19 DEF FinishClaim, Abort
    <2> DEFINE r == [tick[t] EXCEPT !.move = "none", !.on = 0, !.next = 0]
               c == IF ok THEN r.claimed \cup {tick[t].on} ELSE r.claimed
               q == [r EXCEPT !.claimed = c]
    <2>3. r \in TickStates
      BY TickTypes, Bounds DEF TickStates, Moves
    <2>4. q \in TickStates
      <3> HIDE DEF r
      <3>1. c \in SUBSET Issues
        BY <2>1, <2>3 DEF TickStates
      <3> HIDE DEF c
      <3> QED BY <2>3, <3>1 DEF TickStates
    <2>5. tick' \in [Ticks -> TickStates]
      <3>1. Landed(t) = [tick EXCEPT ![t] = r]
        BY DEF Landed, TypeOK
      <3> HIDE DEF r
      <3>2. tick' \in {[tick EXCEPT ![t] = q], [tick EXCEPT ![t] = IdleTick]}
        BY <2>2, <3>1 DEF TypeOK
      <3> HIDE DEF q
      <3> QED BY <2>4, <3>2, IdleTypes DEF TypeOK
    <2>6. stage' \in [Issues -> SUBSET Stages]
      BY <1>19, StageTypes DEF FinishClaim, Stages
    <2>7. stale' \in [Issues -> BOOLEAN]
      BY <1>19, <2>1 DEF FinishClaim, ForgeOk, TypeOK
    <2> QED BY <1>19, <2>5, <2>6, <2>7 DEF FinishClaim, Abort, TypeOK, env
  <1>20. ASSUME ClaimDone(t) PROVE TypeOK'
    <2>1. [tick[t] EXCEPT !.at = "post"] \in TickStates
      BY TickTypes DEF TickStates, Phases
    <2>2. tick' = [tick EXCEPT ![t] = [tick[t] EXCEPT !.at = "post"]]
      BY <1>20 DEF ClaimDone, TypeOK
    <2> QED BY <1>20, <2>1, <2>2 DEF ClaimDone, TypeOK, forge, env
  <1>21. ASSUME NEW i \in Issues, Post(t, i) PROVE TypeOK'
    <2> DEFINE r == [tick[t] EXCEPT !.claimed = @ \ {i}]
    <2>1. r \in TickStates
      BY TickTypes DEF TickStates
    <2>2. tick' = [tick EXCEPT ![t] = r]
      BY <1>21 DEF Post, TypeOK
    <2> QED BY <1>21, <2>1, <2>2 DEF Post, Recorded, TypeOK, forge, env
  <1>22. ASSUME EndTick(t) PROVE TypeOK'
    BY <1>22, IdleTypes DEF EndTick, TypeOK, forge, env
  <1>23. ASSUME ResumeSelect(t) PROVE TypeOK'
    <2>1. PICK i \in Listed(t) : tick' = [tick EXCEPT
              ![t].at = "ask", ![t].list = [j \in {i} |-> @[j]]]
      BY <1>23 DEF ResumeSelect, Resumable, Foremost
    <2> DEFINE l == [j \in {i} |-> tick[t].list[j]]
               r == [tick[t] EXCEPT !.at = "ask", !.list = l]
    <2>2. l \in Snapshots
      <3>1. {i} \in SUBSET Issues /\ l \in [{i} -> 0..MaxReaps]
        BY TickTypes
      <3> HIDE DEF l
      <3> QED BY <3>1, ListTypes
    <2>3. tick' = [tick EXCEPT ![t] = r]
      BY <2>1 DEF TypeOK
    <2> HIDE DEF l
    <2>4. r \in TickStates
      BY <2>2, TickTypes DEF TickStates, Phases
    <2> HIDE DEF r
    <2> QED BY <1>23, <2>3, <2>4 DEF ResumeSelect, TypeOK, forge, env
  <1>24. ASSUME ResumePrOpen(t) PROVE TypeOK'
    <2>1. tick' \in [Ticks -> TickStates]
      <3>1. "fetch" \in Phases
        BY DEF Phases
      <3> QED BY <1>24, <3>1, EnterTypes DEF ResumePrOpen
    <2> QED BY <1>24, <2>1 DEF ResumePrOpen, TypeOK, forge, env
  <1>25. ASSUME ResumeNotify(t) PROVE TypeOK'
    <2>1. [tick[t] EXCEPT !.at = "spawn"] \in TickStates
      BY TickTypes DEF TickStates, Phases
    <2>2. tick' = [tick EXCEPT ![t] = [tick[t] EXCEPT !.at = "spawn"]]
      BY <1>25 DEF ResumeNotify, TypeOK
    <2> QED BY <1>25, <2>1, <2>2 DEF ResumeNotify, TypeOK, forge, env
  <1> QED BY <1>1, <1>2, <1>3, <1>4, <1>5, <1>6, <1>7, <1>8, <1>9, <1>10, <1>11, <1>12, <1>13, <1>14, <1>15, <1>16, <1>17, <1>18, <1>19, <1>20, <1>21, <1>22, <1>23, <1>24, <1>25 DEF TickStep

\* A step of a resume task keeps every type.
LEMMA BgStepTypes ==
  ASSUME TypeOK, NEW i \in Issues, NEW t \in Ticks, BgStep(i, t)
  PROVE  TypeOK'
  <1> DEFINE withAttempt(a) == [tracker[i] EXCEPT !.attempt = a]
  <1>1. \A a \in 0..MaxAttempts : withAttempt(a) \in Tracks
    BY TrackTypes DEF Tracks
  <1>2. \A a \in 0..MaxAttempts, e \in Errors :
           [tracker[i] EXCEPT !.attempt = a, !.err = e] \in Tracks
    BY TrackTypes DEF Tracks
  <1>3. OneMore(i) \in 0..MaxAttempts /\ Absorbed(i, t) \subseteq 0..MaxAttempts
    BY TrackTypes, Bounds DEF OneMore, Absorbed, Tracks
  <1>4. TaskEnds(i, t) => /\ bg' \in [Issues -> [Ticks -> TaskStates]]
                         /\ resuming' \in [Issues -> BOOLEAN]
    BY DEF TaskEnds, TaskStates, TypeOK
  <1>5. ASSUME BgAccepted(i, t) PROVE TypeOK'
    <2>1. bg' \in [Issues -> [Ticks -> TaskStates]]
      BY <1>5 DEF BgAccepted, TaskStates, TypeOK
    <2> QED BY <1>5, <2>1 DEF BgAccepted, LedgerLookup, TypeOK, forge, env
  <1>6. ASSUME BgStillRunning(i, t) PROVE TypeOK'
    BY <1>6, <1>4 DEF BgStillRunning, TypeOK, forge, env
  <1>7. ASSUME BgLeaseRefused(i, t) PROVE TypeOK'
    <2>1. tracker' = [tracker EXCEPT ![i] =
              [tracker[i] EXCEPT !.attempt = OneMore(i), !.err = "OTHER"]]
      BY <1>7 DEF BgLeaseRefused, TypeOK
    <2>2. [tracker[i] EXCEPT !.attempt = OneMore(i), !.err = "OTHER"] \in Tracks
      BY <1>2, <1>3 DEF Errors
    <2>3. tracker' \in [Issues -> Tracks]
      BY <2>1, <2>2 DEF TypeOK
    <2> QED BY <1>7, <1>4, <2>3 DEF BgLeaseRefused, LedgerLookup, TypeOK, forge, env
  <1>9. ASSUME BgConcluded(i, t) PROVE TypeOK'
    <2>1. stage' \in [Issues -> SUBSET Stages]
      BY <1>9, StageTypes DEF BgConcluded, Stages
    <2>2. bg' \in [Issues -> [Ticks -> TaskStates]] /\ resuming' \in [Issues -> BOOLEAN]
      <3>1. \/ bg' = [bg EXCEPT ![i][t] = "concluding"] /\ resuming' = resuming
            \/ TaskEnds(i, t)
        BY <1>9, Zenon DEF BgConcluded
      <3>2. CASE bg' = [bg EXCEPT ![i][t] = "concluding"] /\ resuming' = resuming
        BY <3>2 DEF TaskStates, TypeOK
      <3> QED BY <1>4, <3>1, <3>2
    <2> QED BY <1>9, <2>1, <2>2, TrackTypes DEF BgConcluded, Answered, TypeOK, env
  <1>10. ASSUME BgConclude(i, t) PROVE TypeOK'
    <2>1. stage' \in [Issues -> SUBSET Stages]
      BY <1>10, StageTypes DEF BgConclude, Stages
    <2> QED BY <1>10, <1>4, <2>1 DEF BgConclude, TypeOK, env
  <1>11. ASSUME BgBlocks(i, t) PROVE TypeOK'
    BY <1>11, <1>4, TrackTypes DEF BgBlocks, Answered, Block, ForgeOk, TypeOK, env
  <1>12. ASSUME BgIncomplete(i, t) PROVE TypeOK'
    <2>1. PICK a \in Absorbed(i, t) : tracker' = [tracker EXCEPT ![i] =
                [tracker[i] EXCEPT !.attempt = a, !.incomplete = tracker[i].incomplete + 1]]
      BY <1>12 DEF BgIncomplete
    <2>2. [tracker[i] EXCEPT !.attempt = a, !.incomplete = tracker[i].incomplete + 1] \in Tracks
      <3>1. a \in 0..MaxAttempts
        BY <1>3, Zenon
      <3>2. tracker[i].incomplete + 1 \in 0..MaxIncomplete
        <4>1. tracker[i].incomplete \in 0..MaxIncomplete
          BY TrackTypes DEF Tracks
        <4>2. tracker[i].incomplete + 1 < MaxIncomplete
          BY <1>12 DEF BgIncomplete
        <4> QED BY <4>1, <4>2, Bounds
      <3> QED BY <3>1, <3>2, TrackTypes DEF Tracks
    <2>3. tracker' \in [Issues -> Tracks]
      BY <2>1, <2>2 DEF TypeOK
    <2> QED BY <1>12, <1>4, <2>3 DEF BgIncomplete, Answered, TypeOK, forge, env
  <1>13. ASSUME BgNotOpen(i, t) PROVE TypeOK'
    <2>1. PICK a \in Absorbed(i, t) : tracker' = [tracker EXCEPT ![i].attempt = a]
      BY <1>13 DEF BgNotOpen
    <2>2. tracker' \in [Issues -> Tracks]
      BY <2>1, <1>1, <1>3 DEF TypeOK
    <2> QED BY <1>13, <1>4, <2>2 DEF BgNotOpen, Answered, TypeOK, forge, env
  <1>8. Unanswered(i, t) =>
          /\ sess' \in [Issues -> {"none", "fresh", "resume"}]
          /\ ledger' \in [Issues -> BOOLEAN]
          /\ bg' \in [Issues -> [Ticks -> TaskStates]]
          /\ resuming' \in [Issues -> BOOLEAN]
    BY <1>4 DEF Unanswered, LedgerLookup, TypeOK
  <1>14. ASSUME BgFailedTwice(i, t) PROVE TypeOK'
    BY <1>14, <1>8, TrackTypes DEF BgFailedTwice, Block, ForgeOk, TypeOK, env
  <1>15. ASSUME BgFailed(i, t) PROVE TypeOK'
    <2>1. PICK kind \in Errors \ {"none"}, a \in Absorbed(i, t) :
            tracker' = [tracker EXCEPT ![i].attempt = a, ![i].err = kind]
      BY <1>15 DEF BgFailed
    <2>2. tracker' = [tracker EXCEPT ![i] =
                [tracker[i] EXCEPT !.attempt = a, !.err = kind]]
      BY <2>1, TrackTypes DEF Tracks, TypeOK
    <2>3. tracker' \in [Issues -> Tracks]
      BY <2>2, <1>2, <1>3 DEF TypeOK
    <2> QED BY <1>15, <1>8, <2>3 DEF BgFailed, TypeOK, forge, env
  <1>16. ASSUME BgAuthExpired(i, t) PROVE TypeOK'
    <2>1. PICK a \in Absorbed(i, t) : tracker' = [tracker EXCEPT ![i].attempt = a]
      BY <1>16 DEF BgAuthExpired
    <2>2. tracker' \in [Issues -> Tracks]
      BY <2>1, <1>1, <1>3 DEF TypeOK
    <2>3. paused' \in [Issues -> BOOLEAN]
      BY <1>16 DEF BgAuthExpired, TypeOK
    <2>4. UNCHANGED <<forge, tick, inFlight, env>> /\ Unanswered(i, t)
      BY <1>16 DEF BgAuthExpired
    <2> QED BY <1>8, <2>2, <2>3, <2>4 DEF TypeOK, forge, env
  <1> QED BY <1>5, <1>6, <1>7, <1>9, <1>10, <1>11, <1>12, <1>13, <1>14, <1>15, <1>16 DEF BgStep

\* So does a step of a worker, the clock, a human or a restart.
LEMMA WorldStepTypes ==
  ASSUME TypeOK,
         \/ \E t \in Ticks : ForceTick(t)
         \/ \E i \in Issues : \/ WorkerOpensPr(i) \/ SessionEnds(i) \/ GrowsStale(i)
                              \/ PauseEnds(i) \/ PrMerged(i) \/ Unblock(i)
         \/ Kill
  PROVE  TypeOK'
  <1>1. ASSUME NEW t \in Ticks, ForceTick(t) PROVE TypeOK'
    <2>1. [tick[t] EXCEPT !.at = "scheduled"] \in TickStates
      BY TickTypes DEF TickStates, Phases
    <2>2. tick' = [tick EXCEPT ![t] = [tick[t] EXCEPT !.at = "scheduled"]]
      BY <1>1 DEF ForceTick, TypeOK
    <2> QED BY <1>1, <2>1, <2>2 DEF ForceTick, TypeOK, forge, env
  <1>2. ASSUME NEW i \in Issues, WorkerOpensPr(i) \/ PrMerged(i) PROVE TypeOK'
    BY <1>2 DEF WorkerOpensPr, PrMerged, TypeOK, memory, env
  <1>3. ASSUME NEW i \in Issues, SessionEnds(i) \/ GrowsStale(i) PROVE TypeOK'
    BY <1>3 DEF SessionEnds, GrowsStale, TypeOK, forge, memory, env
  <1>4. ASSUME NEW i \in Issues, PauseEnds(i) PROVE TypeOK'
    BY <1>4 DEF PauseEnds, TypeOK, forge, env
  <1>5. ASSUME NEW i \in Issues, Unblock(i) PROVE TypeOK'
    BY <1>5, BoundsAssumption DEF Unblock, TypeOK, memory
  <1>6. ASSUME Kill PROVE TypeOK'
    <2>1. /\ tick' \in [Ticks -> TickStates]
          /\ tracker' \in [Issues -> Tracks]
      BY <1>6, IdleTypes, TrackTypes DEF Kill
    <2>2. kills' \in 0..MaxKills
      BY <1>6, BoundsAssumption DEF Kill, TypeOK
    <2> QED BY <1>6, <2>1, <2>2 DEF Kill, TaskStates, TypeOK, forge
  <1> QED BY <1>1, <1>2, <1>3, <1>4, <1>5, <1>6

LEMMA InitTypes == Init => TypeOK
  <1> SUFFICES ASSUME Init PROVE TypeOK
    OBVIOUS
  <1>1. NoTrack \in Tracks
    BY Bounds DEF NoTrack, Tracks, Errors
  <1>2. /\ 0 \in 0..MaxReaps /\ 0 \in 0..MaxReaps + 1
        /\ 0 \in 0..MaxKills /\ 0 \in 0..MaxUnblocks
    BY BoundsAssumption
  <1>3. stage \in [Issues -> SUBSET Stages]
    BY DEF Init, Stages
  <1>4. tracker \in [Issues -> Tracks] /\ tick \in [Ticks -> TickStates]
    BY <1>1, IdleTypes DEF Init
  <1> QED BY <1>2, <1>3, <1>4 DEF Init, TaskStates, TypeOK

LEMMA NextTypes == TypeOK /\ [Next]_vars => TypeOK'
  <1>1. TypeOK /\ Next => TypeOK'
    BY TickStepTypes, BgStepTypes, WorldStepTypes DEF Next
  <1>2. TypeOK /\ UNCHANGED vars => TypeOK'
    BY DEF vars, forge, memory, env, TypeOK
  <1> QED BY <1>1, <1>2

\* Every label, counter and coroutine state stays within its type: no count
\* leaves its bound, and no coroutine works on an issue that is not there.
THEOREM TypeCorrect == Spec => []TypeOK
  BY InitTypes, NextTypes, PTL DEF Spec

-----------------------------------------------------------------------------
(* What the bookkeeping of a tick does to the fields of its record *)

LEMMA EnterEffect ==
  ASSUME TypeOK, NEW t \in Ticks, NEW phase, NEW S, Enter(t, phase, S)
  PROVE  /\ tick'[t].at = phase
         /\ Listed(t)' \subseteq S
         /\ tick'[t].move = tick[t].move
         /\ tick'[t].on = tick[t].on
         /\ tick'[t].claimed = tick[t].claimed
  <1>1. PICK L \in Listings(S) :
          tick' = [tick EXCEPT ![t].at = phase,
                               ![t].list = [i \in L |-> attempt[i]]]
    BY DEF Enter
  <1>2. L \subseteq S
    BY DEF Listings
  <1> DEFINE l == [i \in L |-> attempt[i]]
  <1>3. DOMAIN l = L
    OBVIOUS
  <1> HIDE DEF l
  <1>4. tick' = [tick EXCEPT ![t] = [tick[t] EXCEPT !.at = phase, !.list = l]]
    BY <1>1 DEF TypeOK, l
  <1>5. tick'[t] = [tick[t] EXCEPT !.at = phase, !.list = l]
    BY <1>4 DEF TypeOK
  <1> QED BY <1>2, <1>3, <1>5, TickTypes DEF Listed, TickStates

LEMMA LeaveEffect ==
  ASSUME TypeOK, NEW t \in Ticks, NEW i, NEW m, Leave(t, i, m)
  PROVE  /\ tick'[t].at = tick[t].at
         /\ Listed(t)' = Listed(t) \ {i}
         /\ tick'[t].move = m
         /\ tick'[t].on = IF m = "none" THEN 0 ELSE i
         /\ tick'[t].claimed = tick[t].claimed
  <1> DEFINE l == [j \in Listed(t) \ {i} |-> tick[t].list[j]]
             n == IF m \in {"reap", "exhaust"} THEN NextCount(tick[t].list[i]) ELSE 0
             o == IF m = "none" THEN 0 ELSE i
  <1>1. tick' = [tick EXCEPT ![t].list = l, ![t].move = m, ![t].on = o, ![t].next = n]
    BY DEF Leave
  <1>2. DOMAIN l = Listed(t) \ {i}
    OBVIOUS
  <1> HIDE DEF l, n, o
  <1>3. tick'[t] = [tick[t] EXCEPT !.list = l, !.move = m, !.on = o, !.next = n]
    BY <1>1 DEF TypeOK
  <1> QED BY <1>2, <1>3, TickTypes DEF Listed, TickStates, o

LEMMA LandedEffect ==
  ASSUME TypeOK, NEW t \in Ticks, tick' = Landed(t)
  PROVE  /\ tick'[t].at = tick[t].at
         /\ Listed(t)' = Listed(t)
         /\ tick'[t].move = "none"
         /\ tick'[t].on = 0
         /\ tick'[t].claimed = tick[t].claimed
  <1>1. tick'[t] = [tick[t] EXCEPT !.move = "none", !.on = 0, !.next = 0]
    BY DEF Landed, TypeOK
  <1> QED BY <1>1, TickTypes DEF Listed, TickStates

LEMMA IdleEffect ==
  ASSUME NEW t, tick'[t] = IdleTick
  PROVE  TickDiscipline(t)'
  <1>1. Listed(t)' = {} /\ tick'[t].move = "none" /\ tick'[t].claimed = {}
    BY DEF Listed, IdleTick, Empty
  <1> QED BY <1>1 DEF TickDiscipline

\* One label of one issue at a time.
LEMMA StageEffect ==
  ASSUME TypeOK, NEW i \in Issues, NEW label, NEW ok,
         AddStage(i, label, ok) \/ RemoveStage(i, label, ok)
  PROVE  /\ \A j \in Issues \ {i} : stage'[j] = stage[j]
         /\ ~ok => stage'[i] = stage[i]
         /\ ok /\ AddStage(i, label, ok) => stage'[i] = stage[i] \cup {label}
         /\ ok /\ RemoveStage(i, label, ok) => stage'[i] = stage[i] \ {label}
  BY DEF AddStage, RemoveStage, TypeOK

-----------------------------------------------------------------------------
(* The claim discipline *)

Awaited(i) == \E t \in Ticks : bg[i][t] = "waiting"

\* IssueDiscipline is about stage, bg and, for a waiting task, sess.
LEMMA IssueFrame ==
  ASSUME NEW i \in Issues, IssueDiscipline(i),
         stage'[i] = stage[i], bg'[i] = bg[i],
         Awaited(i) => sess'[i] = sess[i]
  PROVE  IssueDiscipline(i)'
  BY DEF IssueDiscipline, Awaited

\* Without forced ticks there is one tick coroutine.
LEMMA OneTick == ForcedTicks = {} => \A t \in Ticks : t = Loop
  BY DEF Ticks

LEMMA TickStepDiscipline ==
  ASSUME TypeOK, ClaimDiscipline, ForcedTicks = {}, ~(EnableReaper /\ EnableResume),
         NEW t \in Ticks, TickStep(t)
  PROVE  ClaimDiscipline'
  <1>0. /\ \A i \in Issues : IssueDiscipline(i)
        /\ TickDiscipline(t)
        /\ Listed(t) \subseteq Issues
    BY TickTypes DEF ClaimDiscipline
  <1>23. SUFFICES (\A j \in Issues : IssueDiscipline(j)') /\ TickDiscipline(t)'
    BY OneTick DEF ClaimDiscipline
  <1>1. ASSUME StartTick(t)
        PROVE  (\A j \in Issues : IssueDiscipline(j)') /\ TickDiscipline(t)'
    <2>1. Listed(t) = {} /\ tick[t].claimed = {} /\ tick[t].move = "none"
      <3>1. tick[t].at \in {"idle", "scheduled"}
        BY <1>1 DEF StartTick
      <3> QED BY <1>0, <3>1 DEF TickDiscipline, ListedStays, MoveIsAlone, ClaimHolds
    <2> DEFINE S == IF EnableReaper THEN {i \in Issues : /\ "em_implementacao" \in stage[i]
                                                         /\ own[i]} ELSE {}
    <2>2. /\ tick'[t].at = "reap" /\ Listed(t)' \subseteq S
          /\ tick'[t].move = "none" /\ tick'[t].claimed = {}
      BY <1>1, <2>1, EnterEffect DEF StartTick
    <2>3. UNCHANGED <<stage, blocked, bg, sess>>
      BY <1>1 DEF StartTick, forge
    <2>4. \A i \in S : ListedStays(t, i)'
      BY <1>0, <2>2, <2>3 DEF ListedStays, Unattended, IssueDiscipline, Stages
    <2>5. TickDiscipline(t)'
      BY <2>2, <2>4 DEF TickDiscipline
    <2> QED BY <1>0, <2>3, <2>5, IssueFrame
  <1>2. ASSUME ReapSkip(t)
        PROVE  (\A j \in Issues : IssueDiscipline(j)') /\ TickDiscipline(t)'
    <2>1. PICK i \in Listed(t) : Leave(t, i, "none")
      BY <1>2 DEF ReapSkip, Foremost
    <2>2. UNCHANGED <<stage, blocked, bg, sess>> /\ tick[t].move = "none"
      BY <1>2 DEF ReapSkip, Working, forge
    <2>3. /\ tick'[t].at = tick[t].at /\ Listed(t)' \subseteq Listed(t)
          /\ tick'[t].move = "none" /\ tick'[t].on = 0
          /\ tick'[t].claimed = tick[t].claimed
      BY <2>1, LeaveEffect
    <2>4. \A j \in Listed(t) : ListedStays(t, j)'
      BY <1>0, <2>2, <2>3 DEF TickDiscipline, ListedStays, Undisturbed, Unattended
    <2>5. \A j \in tick[t].claimed : ClaimHolds(t, j)'
      <3>1. \A j \in tick[t].claimed : j # 0
        BY IssuesAssumption, TickTypes DEF TickStates
      <3> QED BY <1>0, <2>2, <2>3, <3>1 DEF TickDiscipline, ClaimHolds, Undisturbed, Unattended
    <2> QED BY <1>0, <2>2, <2>3, <2>4, <2>5, IssueFrame DEF TickDiscipline
  <1>3. ASSUME ReapRemove(t)
        PROVE  (\A j \in Issues : IssueDiscipline(j)') /\ TickDiscipline(t)'
    <2>1. PICK i \in Listed(t), ok \in BOOLEAN, move \in {"none", "reap", "exhaust"} :
            /\ RemoveStage(i, "em_implementacao", ok)
            /\ Leave(t, i, move)
            /\ move = "reap" => ok
      <3>1. PICK i \in Listed(t), k \in Removals, move \in {"none", "reap", "exhaust"} :
              /\ RemoveStage(i, "em_implementacao", k >= 1)
              /\ Leave(t, i, move)
              /\ move = "reap" => k = 3
        BY <1>3 DEF ReapRemove, Foremost
      <3>2. (k >= 1) \in BOOLEAN /\ (move = "reap" => k >= 1)
        BY <3>1
      <3> QED BY <3>1, <3>2
    <2>2. UNCHANGED <<blocked, bg, sess>> /\ tick[t].at = "reap" /\ tick[t].move = "none"
      BY <1>3 DEF ReapRemove, Working
    <2>3. tick[t].claimed = {} /\ stage[i] = {"em_implementacao"} /\ Unattended(i)
      BY <1>0, <2>1, <2>2 DEF TickDiscipline, ListedStays, ClaimHolds
    <2>4. /\ \A j \in Issues \ {i} : stage'[j] = stage[j]
          /\ stage'[i] \in {{}, {"em_implementacao"}}
          /\ move = "reap" => stage'[i] = {}
      BY <1>0, <2>1, <2>3, StageEffect
    <2>5. TickDiscipline(t)'
      <3>1. /\ tick'[t].at = "reap" /\ Listed(t)' = Listed(t) \ {i}
            /\ tick'[t].claimed = {} /\ tick'[t].move = move
            /\ tick'[t].on = IF move = "none" THEN 0 ELSE i
        BY <2>1, <2>2, <2>3, LeaveEffect
      <3>2. \A j \in Listed(t)' : ListedStays(t, j)'
        BY <1>0, <2>2, <2>4, <3>1 DEF TickDiscipline, ListedStays, Unattended
      <3>3. tick'[t].move # "none" => MoveIsAlone(t, tick[t].on)'
        BY <2>1, <2>2, <2>3, <2>4, <3>1 DEF MoveIsAlone, Unattended
      <3> QED BY <3>1, <3>2, <3>3 DEF TickDiscipline
    <2>6. ASSUME NEW j \in Issues PROVE IssueDiscipline(j)'
      <3>1. CASE j = i
        BY <1>0, <2>2, <2>3, <2>4, <3>1 DEF IssueDiscipline, Stages
      <3>2. CASE j # i
        BY <1>0, <2>2, <2>4, <3>2, IssueFrame
      <3> QED BY <3>1, <3>2
    <2> QED BY <2>5, <2>6
  <1>4. ASSUME FinishReap(t)
        PROVE  (\A j \in Issues : IssueDiscipline(j)') /\ TickDiscipline(t)'
    <2> DEFINE i == tick[t].on
               move == tick[t].move
    <2>1. /\ move \in {"reap", "exhaust"} /\ i \in Issues
          /\ i \notin Listed(t) /\ tick[t].at = "reap"
          /\ move = "reap" => stage[i] = {} /\ Unattended(i)
      BY <1>0, <1>4, MoveTypes DEF FinishReap, TickDiscipline, MoveIsAlone
    <2>2. tick[t].claimed = {}
      BY <1>0, <2>1 DEF TickDiscipline, ClaimHolds
    <2>3. PICK ok \in BOOLEAN : AddStage(i, "revisada", ok /\ ~(move = "exhaust"))
      BY <1>4 DEF FinishReap, ForgeOk
    <2>4. UNCHANGED <<bg, sess>> /\ tick' = Landed(t)
      BY <1>4 DEF FinishReap
    <2>5. /\ tick'[t].at = "reap" /\ Listed(t)' = Listed(t)
          /\ tick'[t].move = "none" /\ tick'[t].claimed = {}
      BY <2>1, <2>2, <2>4, LandedEffect
    <2>6. /\ \A j \in Issues \ {i} : stage'[j] = stage[j]
          /\ stage'[i] = stage[i] \/ (Unattended(i) /\ stage'[i] = {"revisada"})
      <3> HIDE DEF i, move
      <3> QED BY <2>1, <2>3, StageEffect
    <2> HIDE DEF i, move
    <2>7. TickDiscipline(t)'
      BY <1>0, <2>1, <2>4, <2>5, <2>6 DEF TickDiscipline, ListedStays, Unattended
    <2>8. ASSUME NEW j \in Issues PROVE IssueDiscipline(j)'
      BY <1>0, <2>4, <2>6, IssueFrame DEF IssueDiscipline, Unattended, Stages
    <2> QED BY <2>7, <2>8
  <1>5. ASSUME ReapDone(t)
        PROVE  (\A j \in Issues : IssueDiscipline(j)') /\ TickDiscipline(t)'
    <2>1. tick[t].move = "none" /\ tick[t].claimed = {}
      BY <1>5, <1>0 DEF ReapDone, StageDone, TickDiscipline, ClaimHolds
    <2> DEFINE S == {i \in Issues : /\ "em_implementacao" \in stage[i]
                               /\ "em_pr" \notin stage[i]
                               /\ ~blocked[i]
                               /\ Owns(i)}
    <2>2. /\ tick'[t].at = "reconcile" /\ Listed(t)' \subseteq S
          /\ tick'[t].move = "none" /\ tick'[t].claimed = {}
      BY <1>5, <2>1, EnterEffect DEF ReapDone
    <2>3. UNCHANGED <<stage, blocked, bg, sess>>
      BY <1>5 DEF ReapDone, forge
    <2>4. \A i \in S : ListedStays(t, i)'
      BY <1>0, <2>2, <2>3 DEF ListedStays, IssueDiscipline, Stages
    <2> QED BY <1>0, <2>2, <2>3, <2>4, IssueFrame DEF TickDiscipline
  <1>6. ASSUME ReconcileSkip(t)
        PROVE  (\A j \in Issues : IssueDiscipline(j)') /\ TickDiscipline(t)'
    <2>1. PICK i \in Listed(t) : Leave(t, i, "none")
      BY <1>6 DEF ReconcileSkip, Foremost
    <2>2. UNCHANGED <<stage, blocked, bg, sess>> /\ tick[t].move = "none"
      BY <1>6 DEF ReconcileSkip, Working, forge
    <2>3. /\ tick'[t].at = tick[t].at /\ Listed(t)' \subseteq Listed(t)
          /\ tick'[t].move = "none" /\ tick'[t].on = 0
          /\ tick'[t].claimed = tick[t].claimed
      BY <2>1, LeaveEffect
    <2>4. \A j \in Listed(t) : ListedStays(t, j)'
      BY <1>0, <2>2, <2>3 DEF TickDiscipline, ListedStays, Undisturbed, Unattended
    <2>5. \A j \in tick[t].claimed : ClaimHolds(t, j)'
      <3>1. \A j \in tick[t].claimed : j # 0
        BY IssuesAssumption, TickTypes DEF TickStates
      <3> QED BY <1>0, <2>2, <2>3, <3>1 DEF TickDiscipline, ClaimHolds, Undisturbed, Unattended
    <2> QED BY <1>0, <2>2, <2>3, <2>4, <2>5, IssueFrame DEF TickDiscipline
  <1>7. ASSUME ReconcileRemove(t)
        PROVE  (\A j \in Issues : IssueDiscipline(j)') /\ TickDiscipline(t)'
    <2>1. PICK i \in Listed(t), ok \in BOOLEAN :
            /\ RemoveStage(i, "em_implementacao", ok)
            /\ Leave(t, i, IF ok THEN "reconcile" ELSE "none")
      BY <1>7 DEF ReconcileRemove, Foremost, ForgeOk
    <2>2. UNCHANGED <<blocked, bg, sess>> /\ tick[t].at = "reconcile" /\ tick[t].move = "none"
      BY <1>7 DEF ReconcileRemove, Working
    <2>3. tick[t].claimed = {} /\ "revisada" \notin stage[i]
      BY <1>0, <2>1, <2>2 DEF TickDiscipline, ListedStays, ClaimHolds
    <2>4. /\ \A j \in Issues \ {i} : stage'[j] = stage[j]
          /\ ~ok => stage'[i] = stage[i]
          /\ ok => stage'[i] = stage[i] \ {"em_implementacao"}
      BY <1>0, <2>1, StageEffect
    <2>5. /\ stage'[i] = stage[i] \/ stage'[i] = {}
          /\ ok => stage'[i] \subseteq {"em_pr"}
      <3>1. stage[i] \in {{}} \cup {{s} : s \in Stages}
        BY <1>0, Zenon DEF IssueDiscipline
      <3> QED BY <2>3, <2>4, <3>1 DEF Stages
    <2>6. TickDiscipline(t)'
      <3>1. /\ tick'[t].at = "reconcile" /\ Listed(t)' = Listed(t) \ {i}
            /\ tick'[t].claimed = {}
            /\ tick'[t].move = IF ok THEN "reconcile" ELSE "none"
            /\ ok => tick'[t].on = i
        BY <2>1, <2>2, <2>3, LeaveEffect
      <3>2. \A j \in Listed(t)' : ListedStays(t, j)'
        BY <1>0, <2>2, <2>4, <3>1 DEF TickDiscipline, ListedStays
      <3>3. tick'[t].move # "none" => MoveIsAlone(t, tick[t].on)'
        BY <2>5, <3>1 DEF MoveIsAlone
      <3> QED BY <3>1, <3>2, <3>3 DEF TickDiscipline
    <2>7. ASSUME NEW j \in Issues PROVE IssueDiscipline(j)'
      <3>1. CASE j = i
        BY <1>0, <2>2, <2>3, <2>5, <3>1 DEF IssueDiscipline, Stages
      <3>2. CASE j # i
        BY <1>0, <2>2, <2>4, <3>2, IssueFrame
      <3> QED BY <3>1, <3>2
    <2> QED BY <2>6, <2>7
  <1>8. ASSUME FinishReconcile(t)
        PROVE  (\A j \in Issues : IssueDiscipline(j)') /\ TickDiscipline(t)'
    <2> DEFINE i == tick[t].on
    <2>1. /\ i \in Issues /\ i \notin Listed(t) /\ tick[t].at = "reconcile"
          /\ stage[i] \subseteq {"em_pr"}
      BY <1>0, <1>8, MoveTypes DEF FinishReconcile, TickDiscipline, MoveIsAlone
    <2>2. tick[t].claimed = {}
      BY <1>0, <2>1 DEF TickDiscipline, ClaimHolds
    <2>3. PICK ok \in BOOLEAN : AddStage(i, "em_pr", ok)
      BY <1>8 DEF FinishReconcile, ForgeOk
    <2>4. UNCHANGED <<blocked, bg, sess>> /\ tick' = Landed(t)
      BY <1>8 DEF FinishReconcile
    <2>5. /\ tick'[t].at = "reconcile" /\ Listed(t)' = Listed(t)
          /\ tick'[t].move = "none" /\ tick'[t].claimed = {}
      BY <2>1, <2>2, <2>4, LandedEffect
    <2> HIDE DEF i
    <2>6. /\ \A j \in Issues \ {i} : stage'[j] = stage[j]
          /\ stage'[i] = stage[i] \/ stage'[i] = {"em_pr"}
      BY <2>1, <2>3, StageEffect
    <2>7. TickDiscipline(t)'
      BY <1>0, <2>1, <2>4, <2>5, <2>6 DEF TickDiscipline, ListedStays
    <2>8. ASSUME NEW j \in Issues PROVE IssueDiscipline(j)'
      BY <1>0, <2>4, <2>6, IssueFrame DEF IssueDiscipline, Stages
    <2> QED BY <2>7, <2>8
  <1>9. ASSUME ReconcileDone(t)
        PROVE  (\A j \in Issues : IssueDiscipline(j)') /\ TickDiscipline(t)'
    <2>1. tick[t].move = "none" /\ tick[t].claimed = {}
      BY <1>9, <1>0 DEF ReconcileDone, StageDone, TickDiscipline, ClaimHolds
    <2> DEFINE S == IF EnableResume
               THEN {i \in Issues : /\ "em_implementacao" \in stage[i]
                                    /\ "em_pr" \notin stage[i]
                                    /\ ~blocked[i]
                                    /\ Owns(i)}
               ELSE {}
    <2>2. /\ tick'[t].at = "resume" /\ Listed(t)' \subseteq S
          /\ tick'[t].move = "none" /\ tick'[t].claimed = {}
      BY <1>9, <2>1, EnterEffect DEF ReconcileDone
    <2>3. UNCHANGED <<stage, blocked, bg, sess>>
      BY <1>9 DEF ReconcileDone, forge
    <2>4. \A i \in S : ListedStays(t, i)'
      BY <1>0, <2>2, <2>3 DEF ListedStays, IssueDiscipline, Stages
    <2> QED BY <1>0, <2>2, <2>3, <2>4, IssueFrame DEF TickDiscipline
  <1>10. ASSUME ResumeNone(t)
        PROVE  (\A j \in Issues : IssueDiscipline(j)') /\ TickDiscipline(t)'
    <2>1. tick[t].move = "none" /\ tick[t].claimed = {}
      BY <1>10, <1>0 DEF ResumeNone, TickDiscipline, ClaimHolds, MoveIsAlone
    <2>2. Listed(t)' = {} /\ tick'[t].move = "none" /\ tick'[t].claimed = {}
      BY <1>10, <2>1, EnterEffect DEF ResumeNone
    <2>3. UNCHANGED <<stage, blocked, bg, sess>>
      BY <1>10 DEF ResumeNone, forge
    <2> QED BY <1>0, <2>2, <2>3, IssueFrame DEF TickDiscipline
  <1>11. ASSUME ResumeCeiling(t)
        PROVE  (\A j \in Issues : IssueDiscipline(j)') /\ TickDiscipline(t)'
    <2>1. tick[t].move = "none" /\ tick[t].claimed = {}
      BY <1>11, <1>0 DEF ResumeCeiling, ResumeAsked, TickDiscipline, ClaimHolds, MoveIsAlone
    <2>2. Listed(t)' = {} /\ tick'[t].move = "none" /\ tick'[t].claimed = {}
      BY <1>11, <2>1, EnterEffect DEF ResumeCeiling
    <2>3. UNCHANGED <<stage, bg, sess>>
      BY <1>11 DEF ResumeCeiling, forge
    <2> QED BY <1>0, <2>2, <2>3, IssueFrame DEF TickDiscipline
  <1>12. ASSUME ResumeSpawn(t)
        PROVE  (\A j \in Issues : IssueDiscipline(j)') /\ TickDiscipline(t)'
    <2>1. tick[t].move = "none" /\ tick[t].claimed = {} /\ tick[t].at = "spawn"
      BY <1>12, <1>0 DEF ResumeSpawn, TickDiscipline, ClaimHolds, MoveIsAlone
    <2>2. Listed(t)' = {} /\ tick'[t].move = "none" /\ tick'[t].claimed = {}
      BY <1>12, <2>1, EnterEffect DEF ResumeSpawn
    <2>3. UNCHANGED <<stage, sess>>
      BY <1>12 DEF ResumeSpawn, forge
    <2>4. PICK i \in Listed(t) : bg' = [bg EXCEPT ![i][t] = "posting"]
      BY <1>12 DEF ResumeSpawn
    <2>5. EnableResume /\ "revisada" \notin stage[i]
      BY <1>0, <2>1 DEF TickDiscipline, ListedStays
    <2>6. ASSUME NEW j \in Issues PROVE IssueDiscipline(j)'
      <3>1. CASE j = i
        <4>1. bg'[i] = [bg[i] EXCEPT ![t] = "posting"]
          BY <2>4, <3>1 DEF TypeOK
        <4>2. \A u \in Ticks : bg'[i][u] = bg[i][u] \/ bg'[i][u] = "posting"
          BY <3>1, <4>1 DEF TypeOK
        <4> QED BY <1>0, <2>3, <2>5, <3>1, <4>2 DEF IssueDiscipline
      <3>2. CASE j # i
        BY <1>0, <2>3, <2>4, <3>2, IssueFrame DEF TypeOK
      <3> QED BY <3>1, <3>2
    <2> QED BY <2>2, <2>6 DEF TickDiscipline
  <1>24. ASSUME ResumeSelect(t)
        PROVE  (\A j \in Issues : IssueDiscipline(j)') /\ TickDiscipline(t)'
    <2>1. /\ tick[t].at = "resume" /\ tick[t].move = "none" /\ tick[t].claimed = {}
          /\ UNCHANGED <<stage, blocked, bg, sess>>
      BY <1>24, <1>0 DEF ResumeSelect, TickDiscipline, ClaimHolds, MoveIsAlone, forge
    <2>2. PICK i \in Listed(t) : tick' = [tick EXCEPT
              ![t].at = "ask", ![t].list = [j \in {i} |-> @[j]]]
      BY <1>24 DEF ResumeSelect, Resumable, Foremost
    <2> DEFINE l == [j \in {i} |-> tick[t].list[j]]
    <2>3. DOMAIN l = {i}
      OBVIOUS
    <2> HIDE DEF l
    <2>4. tick'[t] = [tick[t] EXCEPT !.at = "ask", !.list = l]
      BY <2>2 DEF TypeOK, l
    <2>5. /\ tick'[t].at = "ask" /\ Listed(t)' = {i} /\ tick'[t].move = "none"
          /\ tick'[t].claimed = {}
      BY <2>1, <2>3, <2>4, TickTypes DEF Listed, TickStates
    <2>6. TickDiscipline(t)'
      BY <1>0, <2>1, <2>5 DEF TickDiscipline, ListedStays
    <2> QED BY <1>0, <2>1, <2>6, IssueFrame
  <1>25. ASSUME ResumePrOpen(t)
        PROVE  (\A j \in Issues : IssueDiscipline(j)') /\ TickDiscipline(t)'
    <2>1. tick[t].move = "none" /\ tick[t].claimed = {}
      BY <1>25, <1>0 DEF ResumePrOpen, TickDiscipline, ClaimHolds, MoveIsAlone
    <2>2. Listed(t)' = {} /\ tick'[t].move = "none" /\ tick'[t].claimed = {}
      BY <1>25, <2>1, EnterEffect DEF ResumePrOpen
    <2>3. UNCHANGED <<stage, blocked, bg, sess>>
      BY <1>25 DEF ResumePrOpen, forge
    <2> QED BY <1>0, <2>2, <2>3, IssueFrame DEF TickDiscipline
  <1>26. ASSUME ResumeNotify(t)
        PROVE  (\A j \in Issues : IssueDiscipline(j)') /\ TickDiscipline(t)'
    <2>1. /\ tick[t].at = "ask" /\ tick[t].move = "none" /\ tick[t].claimed = {}
          /\ UNCHANGED <<stage, blocked, bg, sess>>
      BY <1>26, <1>0 DEF ResumeNotify, ResumeAsked, TickDiscipline, ClaimHolds,
                         MoveIsAlone, forge
    <2>2. tick'[t] = [tick[t] EXCEPT !.at = "spawn"]
      BY <1>26 DEF ResumeNotify, TypeOK
    <2>3. /\ tick'[t].at = "spawn" /\ Listed(t)' = Listed(t) /\ tick'[t].move = "none"
          /\ tick'[t].claimed = {}
      BY <2>1, <2>2, TickTypes DEF Listed, TickStates
    <2>4. TickDiscipline(t)'
      BY <1>0, <2>1, <2>3 DEF TickDiscipline, ListedStays
    <2> QED BY <1>0, <2>1, <2>4, IssueFrame
  <1>13. ASSUME Fetch(t)
        PROVE  (\A j \in Issues : IssueDiscipline(j)') /\ TickDiscipline(t)'
    <2>1. tick[t].move = "none" /\ tick[t].claimed = {}
      BY <1>13, <1>0 DEF Fetch, TickDiscipline, ClaimHolds, MoveIsAlone
    <2> DEFINE S == {i \in Issues : ~blocked[i] /\ stage[i] = {"revisada"}}
    <2>2. /\ tick'[t].at = "count" /\ Listed(t)' \subseteq S
          /\ tick'[t].move = "none" /\ tick'[t].claimed = {}
      <3> DEFINE F == {i \in {j \in Issues : "revisada" \in stage[j] /\ ~blocked[j]} :
                         own[i] /\ stage[i] = {"revisada"}}
      <3>1. Enter(t, "count", F)
        BY <1>13 DEF Fetch
      <3>2. F \subseteq S
        OBVIOUS
      <3> HIDE DEF F, S
      <3> QED BY <2>1, <3>1, <3>2, EnterEffect
    <2>3. UNCHANGED <<stage, blocked, bg, sess>>
      BY <1>13 DEF Fetch
    <2>4. \A i \in S : ListedStays(t, i)'
      BY <1>0, <2>2, <2>3 DEF ListedStays, IssueDiscipline, Undisturbed, Unattended
    <2> QED BY <1>0, <2>2, <2>3, <2>4, IssueFrame DEF TickDiscipline
  <1>14. ASSUME Count(t)
        PROVE  (\A j \in Issues : IssueDiscipline(j)') /\ TickDiscipline(t)'
    <2>1. tick[t].at = "count" /\ UNCHANGED <<stage, blocked, bg, sess>>
      BY <1>14 DEF Count, forge
    <2>2. tick[t].move = "none" /\ tick[t].claimed = {}
      BY <1>0, <2>1 DEF TickDiscipline, ClaimHolds, MoveIsAlone
    <2>3. /\ tick'[t].at = "claim" /\ Listed(t)' \subseteq Listed(t)
          /\ tick'[t].move = "none" /\ tick'[t].claimed = {}
      <3>1. PICK batch \in SUBSET Listed(t) :
              tick' = [tick EXCEPT ![t].at = "claim",
                                   ![t].list = [i \in batch |-> tick[t].list[i]]]
        BY <1>14 DEF Count
      <3> DEFINE l == [i \in batch |-> tick[t].list[i]]
      <3>2. DOMAIN l = batch
        OBVIOUS
      <3> HIDE DEF l
      <3>3. tick'[t] = [tick[t] EXCEPT !.at = "claim", !.list = l]
        BY <3>1 DEF TypeOK, l
      <3> QED BY <2>2, <3>2, <3>3, TickTypes DEF Listed, TickStates
    <2>4. \A i \in Listed(t) : ListedStays(t, i)'
      BY <1>0, <2>1, <2>3 DEF TickDiscipline, ListedStays, Undisturbed, Unattended
    <2> QED BY <1>0, <2>1, <2>3, <2>4, IssueFrame DEF TickDiscipline
  <1>15. ASSUME ClaimPaused(t)
        PROVE  (\A j \in Issues : IssueDiscipline(j)') /\ TickDiscipline(t)'
    <2>1. PICK i \in Listed(t) : Leave(t, i, "none")
      BY <1>15 DEF ClaimPaused, Foremost
    <2>2. UNCHANGED <<stage, blocked, bg, sess>> /\ tick[t].move = "none"
      BY <1>15 DEF ClaimPaused, Working, forge
    <2>3. /\ tick'[t].at = tick[t].at /\ Listed(t)' \subseteq Listed(t)
          /\ tick'[t].move = "none" /\ tick'[t].on = 0
          /\ tick'[t].claimed = tick[t].claimed
      BY <2>1, LeaveEffect
    <2>4. \A j \in Listed(t) : ListedStays(t, j)'
      BY <1>0, <2>2, <2>3 DEF TickDiscipline, ListedStays, Undisturbed, Unattended
    <2>5. \A j \in tick[t].claimed : ClaimHolds(t, j)'
      <3>1. \A j \in tick[t].claimed : j # 0
        BY IssuesAssumption, TickTypes DEF TickStates
      <3> QED BY <1>0, <2>2, <2>3, <3>1 DEF TickDiscipline, ClaimHolds, Undisturbed, Unattended
    <2> QED BY <1>0, <2>2, <2>3, <2>4, <2>5, IssueFrame DEF TickDiscipline
  <1>16. ASSUME ClaimMerged(t)
        PROVE  (\A j \in Issues : IssueDiscipline(j)') /\ TickDiscipline(t)'
    <2>1. PICK i \in Listed(t), ok \in BOOLEAN : Block(i, ok) /\ Leave(t, i, "none")
      BY <1>16 DEF ClaimMerged, Foremost, ForgeOk
    <2>2. UNCHANGED <<stage, bg, sess>> /\ tick[t].at = "claim" /\ tick[t].move = "none"
      BY <1>16 DEF ClaimMerged, Working
    <2>3. \A j \in Issues \ {i} : blocked'[j] = blocked[j]
      BY <2>1 DEF Block, TypeOK
    <2>4. TickDiscipline(t)'
      <3>1. tick[t].claimed \subseteq Issues
        BY TickTypes DEF TickStates
      <3>2. /\ tick'[t].at = "claim" /\ Listed(t)' = Listed(t) \ {i}
            /\ tick'[t].move = "none" /\ tick'[t].on = 0
            /\ tick'[t].claimed = tick[t].claimed
        BY <2>1, <2>2, LeaveEffect
      <3>3. \A j \in Listed(t)' : ListedStays(t, j)'
        BY <1>0, <2>2, <2>3, <3>2 DEF TickDiscipline, ListedStays, Undisturbed, Unattended
      <3>4. \A j \in tick[t].claimed : ClaimHolds(t, j)'
        <4> SUFFICES ASSUME NEW j \in tick[t].claimed PROVE ClaimHolds(t, j)'
          OBVIOUS
        <4>1. ClaimHolds(t, j) /\ j # 0
          BY <1>0, <3>1, IssuesAssumption DEF TickDiscipline
        <4>2. j # i
          BY <2>1, <4>1 DEF ClaimHolds
        <4>3. blocked'[j] = blocked[j] /\ stage' = stage /\ Unattended(j)' = Unattended(j)
          BY <2>2, <2>3, <3>1, <4>2 DEF Unattended
        <4> QED BY <3>2, <4>1, <4>3 DEF ClaimHolds, Undisturbed
      <3> QED BY <3>2, <3>3, <3>4 DEF TickDiscipline
    <2> QED BY <1>0, <2>2, <2>4, IssueFrame
  <1>17. ASSUME ClaimRemove(t)
        PROVE  (\A j \in Issues : IssueDiscipline(j)') /\ TickDiscipline(t)'
    <2>1. PICK i \in Listed(t), ok \in BOOLEAN, m \in {"none", "claim", "park", "unpark"} :
            /\ RemoveStage(i, "revisada", ok)
            /\ Leave(t, i, m)
            /\ m \in {"claim", "park"} => ok
      BY <1>17 DEF ClaimRemove, Foremost, ForgeOk
    <2>2. UNCHANGED <<blocked, bg, sess>> /\ tick[t].at = "claim" /\ tick[t].move = "none"
      BY <1>17 DEF ClaimRemove, Working
    <2>3. stage[i] = {"revisada"} /\ Undisturbed(i) /\ i \in Issues
      BY <1>0, <2>1, <2>2 DEF TickDiscipline, ListedStays
    <2>4. /\ \A j \in Issues \ {i} : stage'[j] = stage[j]
          /\ stage'[i] \in {{}, {"revisada"}}
          /\ ok => stage'[i] = {}
      BY <1>0, <2>1, <2>3, StageEffect
    <2>5. TickDiscipline(t)'
      <3>1. tick[t].claimed \subseteq Issues
        BY TickTypes DEF TickStates
      <3>2. /\ tick'[t].at = "claim" /\ Listed(t)' = Listed(t) \ {i}
            /\ tick'[t].move = m /\ tick'[t].on = IF m = "none" THEN 0 ELSE i
            /\ tick'[t].claimed = tick[t].claimed
        BY <2>1, <2>2, LeaveEffect
      <3>3. \A j \in Listed(t)' : ListedStays(t, j)'
        BY <1>0, <2>2, <2>4, <3>2 DEF TickDiscipline, ListedStays, Undisturbed, Unattended
      <3>4. tick'[t].move # "none" => MoveIsAlone(t, tick[t].on)'
        BY <2>1, <2>2, <2>3, <2>4, <3>2 DEF MoveIsAlone, Undisturbed, Unattended
      <3>5. \A j \in tick[t].claimed : ClaimHolds(t, j)'
        <4>1. \A j \in tick[t].claimed : j # i /\ j # 0 /\ ClaimHolds(t, j)
          BY <1>0, <2>1, <3>1, IssuesAssumption DEF TickDiscipline, ClaimHolds
        <4> QED BY <2>2, <2>4, <3>1, <3>2, <4>1 DEF ClaimHolds, Undisturbed, Unattended
      <3> QED BY <3>2, <3>3, <3>4, <3>5 DEF TickDiscipline
    <2>6. ASSUME NEW j \in Issues PROVE IssueDiscipline(j)'
      <3>1. CASE j = i
        BY <2>2, <2>3, <2>4, <3>1 DEF IssueDiscipline, Undisturbed, Unattended, Stages
      <3>2. CASE j # i
        BY <1>0, <2>2, <2>4, <3>2, IssueFrame
      <3> QED BY <3>1, <3>2
    <2> QED BY <2>5, <2>6
  <1>18. ASSUME FinishPark(t)
        PROVE  (\A j \in Issues : IssueDiscipline(j)') /\ TickDiscipline(t)'
    <2> DEFINE i == tick[t].on
    <2>1. /\ i \in Issues /\ i \notin Listed(t) /\ tick[t].at = "claim"
          /\ tick[t].move = "park" => stage[i] = {} /\ Undisturbed(i)
          /\ \A j \in tick[t].claimed : j \in Issues \ {i}
      <3>1. tick[t].claimed \subseteq Issues
        BY TickTypes DEF TickStates
      <3> QED BY <1>0, <1>18, <3>1, MoveTypes
              DEF FinishPark, TickDiscipline, MoveIsAlone, ClaimHolds
    <2>2. PICK ok \in BOOLEAN : AddStage(i, "em_pr", ok) /\ (ok => tick[t].move = "park")
      BY <1>18 DEF FinishPark, ForgeOk
    <2>3. UNCHANGED <<blocked, bg, sess>>
      BY <1>18 DEF FinishPark
    <2>4. tick' = Landed(t) \/ tick'[t] = IdleTick
      BY <1>18 DEF FinishPark, Abort, TypeOK
    <2> HIDE DEF i
    <2>5. /\ \A j \in Issues \ {i} : stage'[j] = stage[j]
          /\ \/ stage'[i] = stage[i]
             \/ Unattended(i) /\ stage'[i] = {"em_pr"}
      BY <2>1, <2>2, StageEffect DEF Undisturbed, Unattended
    <2>6. ASSUME tick' = Landed(t) PROVE TickDiscipline(t)'
      <3>1. /\ tick'[t].at = "claim" /\ Listed(t)' = Listed(t)
            /\ tick'[t].move = "none" /\ tick'[t].claimed = tick[t].claimed
            /\ tick'[t].on = 0
        BY <2>1, <2>6, LandedEffect
      <3>2. \A j \in Listed(t) : ListedStays(t, j)'
        BY <1>0, <2>1, <2>3, <2>5, <3>1 DEF TickDiscipline, ListedStays, Undisturbed, Unattended
      <3>3. \A j \in tick[t].claimed : ClaimHolds(t, j)'
        BY <1>0, <2>1, <2>3, <2>5, <3>1, IssuesAssumption
           DEF TickDiscipline, ClaimHolds, Undisturbed, Unattended
      <3> QED BY <3>1, <3>2, <3>3 DEF TickDiscipline
    <2>7. ASSUME NEW j \in Issues PROVE IssueDiscipline(j)'
      BY <1>0, <2>3, <2>5, IssueFrame DEF IssueDiscipline, Stages
    <2> QED BY <2>4, <2>6, <2>7, IdleEffect
  <1>19. ASSUME FinishClaim(t)
        PROVE  (\A j \in Issues : IssueDiscipline(j)') /\ TickDiscipline(t)'
    <2>0. PICK i : i = tick[t].on
      OBVIOUS
    <2>1. /\ i \in Issues /\ i \notin Listed(t) /\ tick[t].at = "claim"
          /\ stage[i] = {} /\ Undisturbed(i)
          /\ \A j \in tick[t].claimed : j \in Issues \ {i}
      <3>1. tick[t].claimed \subseteq Issues
        BY TickTypes DEF TickStates
      <3> QED BY <1>0, <1>19, <2>0, <3>1, MoveTypes
              DEF FinishClaim, TickDiscipline, MoveIsAlone, ClaimHolds
    <2>2. PICK ok \in BOOLEAN :
            /\ AddStage(i, "em_implementacao", ok)
            /\ \/ tick' = [Landed(t) EXCEPT ![t].claimed = IF ok THEN @ \cup {i} ELSE @]
               \/ tick'[t] = IdleTick
      BY <1>19, <2>0 DEF FinishClaim, Abort, ForgeOk, TypeOK
    <2>3. UNCHANGED <<blocked, bg, sess>>
      BY <1>19 DEF FinishClaim
    <2>4. tick'[t] # IdleTick =>
          /\ tick'[t].at = "claim" /\ Listed(t)' = Listed(t)
          /\ tick'[t].move = "none" /\ tick'[t].on = 0
          /\ tick'[t].claimed = IF ok THEN tick[t].claimed \cup {i} ELSE tick[t].claimed
      <3>0. SUFFICES ASSUME tick'[t] # IdleTick
                     PROVE  /\ tick'[t].at = "claim" /\ Listed(t)' = Listed(t)
                            /\ tick'[t].move = "none" /\ tick'[t].on = 0
                            /\ tick'[t].claimed =
                                 IF ok THEN tick[t].claimed \cup {i} ELSE tick[t].claimed
        OBVIOUS
      <3> DEFINE r == [tick[t] EXCEPT !.move = "none", !.on = 0, !.next = 0]
                 c == IF ok THEN tick[t].claimed \cup {i} ELSE tick[t].claimed
      <3>1. Landed(t) = [tick EXCEPT ![t] = r] /\ r.claimed = tick[t].claimed
        BY TickTypes DEF Landed, TypeOK, TickStates
      <3>2. r.at = "claim" /\ r.list = tick[t].list /\ r.move = "none" /\ r.on = 0
        BY <2>1, TickTypes DEF TickStates
      <3>3. r \in TickStates
        BY TickTypes, Bounds DEF TickStates, Moves
      <3> HIDE DEF r
      <3>4. tick'[t] = [r EXCEPT !.claimed = c]
        <4>1. tick' = [Landed(t) EXCEPT ![t].claimed = IF ok THEN @ \cup {i} ELSE @]
          BY <2>2, <3>0
        <4>2. t \in DOMAIN Landed(t) /\ Landed(t)[t] = r
          BY <3>1 DEF TypeOK
        <4> QED BY <3>1, <4>1, <4>2
      <3> HIDE DEF c
      <3>5. /\ tick'[t].at = r.at /\ tick'[t].list = r.list /\ tick'[t].move = r.move
            /\ tick'[t].on = r.on /\ tick'[t].claimed = c
        BY <3>3, <3>4 DEF TickStates
      <3> QED BY <3>2, <3>5 DEF Listed, c
    <2>5. /\ \A j \in Issues \ {i} : stage'[j] = stage[j]
          /\ stage'[i] = IF ok THEN {"em_implementacao"} ELSE {}
      BY <2>1, <2>2, StageEffect
    <2>6. ASSUME tick'[t] # IdleTick PROVE TickDiscipline(t)'
      <3>1. \A j \in Listed(t) : ListedStays(t, j)'
        BY <1>0, <2>1, <2>3, <2>4, <2>5, <2>6 DEF TickDiscipline, ListedStays, Undisturbed, Unattended
      <3>2. \A j \in tick[t].claimed : ClaimHolds(t, j)'
        <4>1. \A j \in tick[t].claimed : j # 0 /\ stage'[j] = stage[j]
          BY <2>1, <2>5, IssuesAssumption
        <4>2. \A j \in tick[t].claimed : ClaimHolds(t, j)
          BY <1>0 DEF TickDiscipline
        <4> QED BY <2>3, <2>4, <2>6, <4>1, <4>2 DEF ClaimHolds, Undisturbed, Unattended
      <3>3. ok => ClaimHolds(t, i)'
        BY <2>1, <2>3, <2>4, <2>5, <2>6, IssuesAssumption DEF ClaimHolds, Undisturbed, Unattended
      <3> QED BY <2>4, <2>6, <3>1, <3>2, <3>3 DEF TickDiscipline
    <2>7. ASSUME NEW j \in Issues PROVE IssueDiscipline(j)'
      BY <1>0, <2>1, <2>3, <2>5, IssueFrame DEF IssueDiscipline, Undisturbed, Unattended, Stages
    <2> QED BY <2>6, <2>7, IdleEffect
  <1>20. ASSUME ClaimDone(t)
        PROVE  (\A j \in Issues : IssueDiscipline(j)') /\ TickDiscipline(t)'
    <2>1. UNCHANGED <<stage, blocked, bg, sess>> /\ Listed(t) = {} /\ tick[t].move = "none"
      BY <1>20 DEF ClaimDone, StageDone, forge
    <2>2. tick'[t] = [tick[t] EXCEPT !.at = "post"]
      BY <1>20 DEF ClaimDone, TypeOK
    <2>3. /\ tick'[t].at = "post" /\ Listed(t)' = {} /\ tick'[t].move = "none"
          /\ tick'[t].on = tick[t].on /\ tick'[t].claimed = tick[t].claimed
      BY <2>1, <2>2, TickTypes DEF Listed, TickStates
    <2>4. TickDiscipline(t)'
      BY <1>0, <2>1, <2>3 DEF TickDiscipline, ClaimHolds, Undisturbed, Unattended
    <2> QED BY <1>0, <2>1, <2>4, IssueFrame
  <1>21. ASSUME NEW i \in Issues, Post(t, i)
        PROVE  (\A j \in Issues : IssueDiscipline(j)') /\ TickDiscipline(t)'
    <2>1. UNCHANGED <<stage, blocked, bg>> /\ tick[t].at = "post" /\ i \in tick[t].claimed
      BY <1>21 DEF Post, forge
    <2>2. Listed(t) = {} /\ tick[t].move = "none" /\ Unattended(i)
      BY <1>0, <2>1 DEF TickDiscipline, ListedStays, MoveIsAlone, ClaimHolds, Undisturbed, Unattended
    <2>3. tick'[t] = [tick[t] EXCEPT !.claimed = tick[t].claimed \ {i}]
      BY <1>21 DEF Post, TypeOK
    <2>4. /\ tick'[t].at = "post" /\ Listed(t)' = {} /\ tick'[t].move = "none"
          /\ tick'[t].on = tick[t].on /\ tick'[t].claimed = tick[t].claimed \ {i}
      BY <2>1, <2>2, <2>3, TickTypes DEF Listed, TickStates
    <2>5. TickDiscipline(t)'
      BY <1>0, <2>1, <2>2, <2>4 DEF TickDiscipline, ClaimHolds, Undisturbed, Unattended
    <2>6. \A j \in Issues : Awaited(j) => sess'[j] = sess[j]
      BY <1>21, <2>2 DEF Post, Awaited, Unattended, TypeOK
    <2> QED BY <1>0, <2>1, <2>5, <2>6, IssueFrame
  <1>22. ASSUME EndTick(t)
        PROVE  (\A j \in Issues : IssueDiscipline(j)') /\ TickDiscipline(t)'
    <2>1. UNCHANGED <<stage, bg, sess>> /\ tick'[t] = IdleTick
      BY <1>22 DEF EndTick, TypeOK, forge
    <2> QED BY <1>0, <2>1, IssueFrame, IdleEffect
  <1> QED BY <1>1, <1>2, <1>3, <1>4, <1>5, <1>6, <1>7, <1>8, <1>9, <1>10, <1>11, <1>12, <1>13, <1>14, <1>15, <1>16, <1>17, <1>18, <1>19, <1>20, <1>21, <1>22, <1>24, <1>25, <1>26 DEF TickStep

\* A resume task moves its own issue only, and never back to revisada.
LEMMA BgEffect ==
  ASSUME TypeOK, ForcedTicks = {}, NEW i \in Issues, NEW t \in Ticks,
         IssueDiscipline(i), BgStep(i, t)
  PROVE  /\ bg[i][t] # "none"
         /\ UNCHANGED tick
         /\ \A j \in Issues \ {i} : /\ stage'[j] = stage[j]
                                    /\ blocked'[j] = blocked[j]
                                    /\ bg'[j] = bg[j] /\ sess'[j] = sess[j]
         /\ stage'[i] \subseteq stage[i] \cup {"em_pr"}
         /\ IssueDiscipline(i)'
  <1>0. \A u \in Ticks : u = t
    BY OneTick
  <1>9. TaskEnds(i, t) => bg'[i][t] = "none" /\ \A j \in Issues \ {i} : bg'[j] = bg[j]
    BY DEF TaskEnds, TypeOK
  <1>1. ASSUME BgAccepted(i, t) \/ BgStillRunning(i, t) \/ BgLeaseRefused(i, t)
        PROVE  /\ bg[i][t] # "none" /\ UNCHANGED tick
               /\ UNCHANGED <<stage, blocked>>
               /\ \A j \in Issues \ {i} : bg'[j] = bg[j] /\ sess'[j] = sess[j]
               /\ bg'[i][t] = "none" \/ (bg'[i][t] = "waiting" /\ sess'[i] = "resume")
    <2>1. CASE BgAccepted(i, t)
      BY <2>1 DEF BgAccepted, TypeOK, forge
    <2>2. CASE BgStillRunning(i, t) \/ BgLeaseRefused(i, t)
      BY <2>2, <1>9 DEF BgStillRunning, BgLeaseRefused, forge
    <2> QED BY <1>1, <2>1, <2>2
  <1>2. ASSUME BgConcluded(i, t)
        PROVE  /\ bg[i][t] # "none" /\ UNCHANGED <<tick, blocked>>
               /\ \A j \in Issues \ {i} : /\ bg'[j] = bg[j] /\ sess'[j] = sess[j]
                                          /\ stage'[j] = stage[j]
               /\ \/ bg'[i][t] = "none" /\ stage'[i] = stage[i]
                  \/ /\ bg'[i][t] = "concluding"
                     /\ stage'[i] = stage[i] \ {"em_implementacao"}
    <2>1. PICK ok \in BOOLEAN :
            /\ RemoveStage(i, "em_implementacao", ok)
            /\ \/ ok /\ bg' = [bg EXCEPT ![i][t] = "concluding"]
               \/ ~ok /\ TaskEnds(i, t)
      BY <1>2 DEF BgConcluded, ForgeOk
    <2>2. \/ /\ ok /\ bg'[i][t] = "concluding"
             /\ \A j \in Issues \ {i} : bg'[j] = bg[j]
          \/ ~ok /\ TaskEnds(i, t)
      BY <2>1 DEF TypeOK
    <2> QED BY <1>2, <1>9, <2>1, <2>2, StageEffect DEF BgConcluded, Answered, TypeOK
  <1>3. ASSUME BgConclude(i, t)
        PROVE  /\ bg[i][t] = "concluding" /\ UNCHANGED <<tick, blocked, sess>>
               /\ \A j \in Issues \ {i} : bg'[j] = bg[j] /\ stage'[j] = stage[j]
               /\ bg'[i][t] = "none"
               /\ stage'[i] \in {stage[i], stage[i] \cup {"em_pr"}}
    <2>1. PICK ok \in BOOLEAN : AddStage(i, "em_pr", ok)
      BY <1>3 DEF BgConclude, ForgeOk
    <2> QED BY <1>3, <1>9, <2>1, StageEffect DEF BgConclude
  <1>4. ASSUME \/ BgBlocks(i, t) \/ BgIncomplete(i, t) \/ BgNotOpen(i, t)
               \/ BgFailedTwice(i, t) \/ BgFailed(i, t) \/ BgAuthExpired(i, t)
        PROVE  /\ bg[i][t] # "none" /\ UNCHANGED <<tick, stage>>
               /\ \A j \in Issues \ {i} : /\ blocked'[j] = blocked[j]
                                          /\ bg'[j] = bg[j] /\ sess'[j] = sess[j]
               /\ bg'[i][t] = "none"
    <2>1. ASSUME BgBlocks(i, t) \/ BgFailedTwice(i, t)
          PROVE  \A j \in Issues \ {i} : blocked'[j] = blocked[j]
      BY <2>1 DEF BgBlocks, BgFailedTwice, Block, TypeOK
    <2>2. ASSUME \/ BgIncomplete(i, t) \/ BgNotOpen(i, t) \/ BgFailed(i, t)
                 \/ BgAuthExpired(i, t)
          PROVE  UNCHANGED <<tick, stage, blocked>>
      BY <2>2 DEF BgIncomplete, BgNotOpen, BgFailed, BgAuthExpired, forge
    <2>3. /\ UNCHANGED <<tick, stage>>
          /\ (Answered(i, t) /\ TaskEnds(i, t)) \/ Unanswered(i, t)
      BY <1>4, <2>2 DEF BgBlocks, BgFailedTwice, BgIncomplete, BgNotOpen, BgFailed,
                        BgAuthExpired
    <2>4. /\ bg[i][t] # "none" /\ TaskEnds(i, t)
          /\ \A j \in Issues \ {i} : sess'[j] = sess[j]
      BY <2>3 DEF Answered, Unanswered, TypeOK
    <2> QED BY <1>4, <1>9, <2>1, <2>2, <2>3, <2>4
  <1>5. CASE BgAccepted(i, t) \/ BgStillRunning(i, t) \/ BgLeaseRefused(i, t)
    BY <1>0, <1>1, <1>5 DEF IssueDiscipline
  <1>6. CASE BgConcluded(i, t)
    BY <1>0, <1>2, <1>6 DEF IssueDiscipline, Stages
  <1>7. CASE BgConclude(i, t)
    BY <1>0, <1>3, <1>7 DEF IssueDiscipline, Stages
  <1>8. CASE \/ BgBlocks(i, t) \/ BgIncomplete(i, t) \/ BgNotOpen(i, t)
             \/ BgFailedTwice(i, t) \/ BgFailed(i, t) \/ BgAuthExpired(i, t)
    BY <1>0, <1>4, <1>8 DEF IssueDiscipline
  <1> QED BY <1>5, <1>6, <1>7, <1>8 DEF BgStep

LEMMA BgStepDiscipline ==
  ASSUME TypeOK, ClaimDiscipline, ForcedTicks = {}, ~(EnableReaper /\ EnableResume),
         NEW i \in Issues, NEW u \in Ticks, BgStep(i, u)
  PROVE  ClaimDiscipline'
  <1>1. IssueDiscipline(i) /\ ~EnableReaper
    BY BgEffect DEF ClaimDiscipline, IssueDiscipline
  <1>2. ASSUME NEW j \in Issues PROVE IssueDiscipline(j)'
    <2>1. CASE j = i
      BY <1>1, <2>1, BgEffect
    <2>2. CASE j # i
      BY <1>1, <2>2, BgEffect, IssueFrame DEF ClaimDiscipline
    <2> QED BY <2>1, <2>2
  <1>3. ASSUME NEW t \in Ticks PROVE TickDiscipline(t)'
    <2>1. TickDiscipline(t) /\ tick' = tick /\ Listed(t)' = Listed(t)
      BY <1>1, BgEffect DEF ClaimDiscipline, Listed
    <2>2. ~Unattended(i) /\ stage'[i] \subseteq stage[i] \cup {"em_pr"}
      BY <1>1, BgEffect DEF Unattended
    <2>3. \A j \in Issues \ {i} : /\ stage'[j] = stage[j]
                                  /\ blocked'[j] = blocked[j]
                                  /\ bg'[j] = bg[j]
      BY <1>1, BgEffect
    <2>4. \A j \in Listed(t) : ListedStays(t, j)'
      BY <1>1, <2>1, <2>2, <2>3, TickTypes DEF TickDiscipline, ListedStays, Undisturbed, Unattended
    <2>5. tick[t].move # "none" => MoveIsAlone(t, tick[t].on)'
      <3> SUFFICES ASSUME tick[t].move # "none" PROVE MoveIsAlone(t, tick[t].on)'
        OBVIOUS
      <3>1. tick[t].on \in Issues /\ MoveIsAlone(t, tick[t].on)
        BY <2>1, MoveTypes DEF TickDiscipline
      <3> QED BY <2>1, <2>2, <2>3, <3>1 DEF MoveIsAlone, Undisturbed, Unattended
    <2>6. \A j \in tick[t].claimed : ClaimHolds(t, j)'
      <3>1. tick[t].claimed \subseteq Issues
        BY TickTypes DEF TickStates
      <3> QED BY <2>1, <2>2, <2>3, <3>1 DEF TickDiscipline, ClaimHolds, Undisturbed, Unattended
    <2> QED BY <2>1, <2>4, <2>5, <2>6 DEF TickDiscipline
  <1> QED BY <1>2, <1>3 DEF ClaimDiscipline

LEMMA WorldStepDiscipline ==
  ASSUME TypeOK, ClaimDiscipline, ForcedTicks = {},
         \/ \E t \in Ticks : ForceTick(t)
         \/ \E i \in Issues : \/ WorkerOpensPr(i) \/ SessionEnds(i) \/ GrowsStale(i)
                              \/ PauseEnds(i) \/ PrMerged(i) \/ Unblock(i)
         \/ Kill
  PROVE  ClaimDiscipline'
  <1>1. ASSUME NEW i \in Issues, \/ WorkerOpensPr(i) \/ SessionEnds(i) \/ GrowsStale(i)
                                 \/ PauseEnds(i) \/ PrMerged(i) \/ Unblock(i)
        PROVE  ClaimDiscipline'
    <2>1. UNCHANGED <<stage, bg, tick>>
      BY <1>1 DEF WorkerOpensPr, SessionEnds, GrowsStale, PauseEnds, PrMerged, Unblock,
                  forge, memory
    <2>2. \A j \in Issues : ~blocked[j] => ~blocked'[j]
      BY <1>1 DEF WorkerOpensPr, SessionEnds, GrowsStale, PauseEnds, PrMerged, Unblock,
                  forge, TypeOK
    <2>3. \A j \in Issues : Awaited(j) => sess'[j] = sess[j]
      <3>1. \A j \in Issues : Awaited(j) => sess[j] = "resume"
        BY DEF ClaimDiscipline, IssueDiscipline, Awaited
      <3> QED BY <1>1, <3>1 DEF WorkerOpensPr, SessionEnds, GrowsStale, PauseEnds,
                                PrMerged, Unblock, TypeOK
    <2>4. \A j \in Issues : IssueDiscipline(j)'
      BY <2>1, <2>3, IssueFrame DEF ClaimDiscipline
    <2>5. ASSUME NEW t \in Ticks PROVE TickDiscipline(t)'
      <3>1. TickDiscipline(t) /\ Listed(t)' = Listed(t)
        BY <2>1 DEF ClaimDiscipline, Listed
      <3>2. tick[t].claimed \subseteq Issues
        BY TickTypes DEF TickStates
      <3>3. \A j \in Listed(t) : ListedStays(t, j)'
        BY <2>1, <2>2, <3>1, TickTypes DEF TickDiscipline, ListedStays, Undisturbed, Unattended
      <3>4. tick[t].move # "none" => MoveIsAlone(t, tick[t].on)'
        BY <2>1, <2>2, <3>1, MoveTypes DEF TickDiscipline, MoveIsAlone, Undisturbed, Unattended
      <3>5. \A j \in tick[t].claimed : ClaimHolds(t, j)'
        BY <2>1, <2>2, <3>1, <3>2 DEF TickDiscipline, ClaimHolds, Undisturbed, Unattended
      <3> QED BY <2>1, <3>1, <3>3, <3>4, <3>5 DEF TickDiscipline
    <2> QED BY <2>4, <2>5 DEF ClaimDiscipline
  <1>2. ASSUME Kill PROVE ClaimDiscipline'
    <2>1. UNCHANGED stage /\ (\A j \in Issues, t \in Ticks : bg'[j][t] = "none")
      BY <1>2 DEF Kill, forge
    <2>2. \A t \in Ticks : tick'[t] = IdleTick
      BY <1>2 DEF Kill
    <2>3. \A j \in Issues : IssueDiscipline(j)'
      BY <2>1 DEF ClaimDiscipline, IssueDiscipline
    <2> QED BY <2>2, <2>3, IdleEffect DEF ClaimDiscipline
  <1> QED BY <1>1, <1>2 DEF ForceTick

LEMMA InitDiscipline == Init => ClaimDiscipline
  <1> SUFFICES ASSUME Init PROVE ClaimDiscipline
    OBVIOUS
  <1>1. \A i \in Issues : IssueDiscipline(i)
    BY DEF Init, IssueDiscipline, Stages
  <1>2. ASSUME NEW t \in Ticks PROVE TickDiscipline(t)
    <2>1. Listed(t) = {} /\ tick[t].move = "none" /\ tick[t].claimed = {}
      BY DEF Init, Listed, IdleTick, Empty
    <2> QED BY <2>1 DEF TickDiscipline
  <1> QED BY <1>1, <1>2 DEF ClaimDiscipline

LEMMA NextDiscipline ==
  ASSUME ForcedTicks = {}, ~(EnableReaper /\ EnableResume)
  PROVE  TypeOK /\ ClaimDiscipline /\ [Next]_vars => ClaimDiscipline'
  <1>1. TypeOK /\ ClaimDiscipline /\ Next => ClaimDiscipline'
    BY TickStepDiscipline, BgStepDiscipline, WorldStepDiscipline DEF Next
  <1>2. ClaimDiscipline /\ UNCHANGED vars => ClaimDiscipline'
    BY DEF vars, forge, memory, ClaimDiscipline, IssueDiscipline, TickDiscipline,
           ListedStays, MoveIsAlone, ClaimHolds, Undisturbed, Unattended, Listed
  <1> QED BY <1>1, <1>2

\* The claim discipline: the label that stands for the lock on an issue is
\* never held by two stages, and no listing that a stage works through goes
\* stale in a way that matters.  It needs a single tick coroutine, and not both
\* of the reaper and the automatic resume.
THEOREM ClaimsHold ==
  ASSUME ForcedTicks = {}, ~(EnableReaper /\ EnableResume)
  PROVE  Spec => []ClaimDiscipline
  <1>1. Init => ClaimDiscipline
    BY InitDiscipline
  <1>2. TypeOK /\ ClaimDiscipline /\ [Next]_vars => ClaimDiscipline'
    BY NextDiscipline
  <1> QED BY <1>1, <1>2, TypeCorrect, PTL DEF Spec

\* An issue never carries two ~workflow: stages, whatever fails and whenever
\* the pod restarts.
THEOREM OneStageAtATime ==
  ASSUME ForcedTicks = {}, ~(EnableReaper /\ EnableResume)
  PROVE  Spec => []SingleStage
  <1>1. ClaimDiscipline => SingleStage
    <2> SUFFICES ASSUME ClaimDiscipline, NEW i \in Issues
                 PROVE  Cardinality(stage[i]) <= 1
      BY DEF SingleStage
    <2>1. stage[i] = {} \/ \E s \in Stages : stage[i] = {s}
      BY DEF ClaimDiscipline, IssueDiscipline
    <2>2. CASE stage[i] = {}
      BY <2>2, FS_EmptySet
    <2>3. CASE \E s \in Stages : stage[i] = {s}
      BY <2>3, FS_Singleton
    <2> QED BY <2>1, <2>2, <2>3
  <1> QED BY <1>1, ClaimsHold, PTL

\* A worker is never sent a fresh session for an issue that is blocked, or that
\* another stage has taken since the tick claimed it.
THEOREM DispatchNeedsClaim ==
  ASSUME ForcedTicks = {}, ~(EnableReaper /\ EnableResume)
  PROVE  Spec => FreshNeedsClaim
  <1> DEFINE A == \A i \in Issues : sess[i] = "none" /\ sess'[i] = "fresh"
                      => "em_implementacao" \in stage[i] /\ ~blocked[i]
  <1>1. TypeOK /\ ClaimDiscipline /\ [Next]_vars => [A]_vars
    <2> SUFFICES ASSUME TypeOK, ClaimDiscipline, Next, NEW i \in Issues,
                        sess[i] = "none", sess'[i] = "fresh"
                 PROVE  "em_implementacao" \in stage[i] /\ ~blocked[i]
      OBVIOUS
    <2>1. ASSUME NEW t \in Ticks, NEW j \in Issues, Post(t, j)
          PROVE  "em_implementacao" \in stage[i] /\ ~blocked[i]
      <3>1. i = j /\ i \in tick[t].claimed
        BY <2>1 DEF Post, TypeOK
      <3>2. ClaimHolds(t, i)
        BY <3>1 DEF ClaimDiscipline, TickDiscipline
      <3> QED BY <3>2 DEF ClaimHolds, Undisturbed
    <2>2. ASSUME NEW t \in Ticks, TickStep(t), ~(\E j \in Issues : Post(t, j))
          PROVE  UNCHANGED sess
      BY <2>2 DEF TickStep, StartTick, ReapSkip, ReapRemove, FinishReap, ReapDone,
                  ReconcileSkip, ReconcileRemove, FinishReconcile, ReconcileDone,
                  ResumeNone, ResumeSelect, ResumePrOpen, ResumeCeiling, ResumeNotify,
                  ResumeSpawn, Fetch, Count, ClaimPaused,
                  ClaimMerged, ClaimRemove, FinishPark, FinishClaim,
                  ClaimDone, EndTick
    <2>3. ASSUME NEW j \in Issues, NEW t \in Ticks, BgStep(j, t) PROVE sess'[i] # "fresh"
      <3>1. IssueDiscipline(j)
        BY DEF ClaimDiscipline
      <3>2. CASE j # i
        BY <2>3, <3>1, <3>2, BgEffect
      <3>3. CASE j = i
        <4>1. ~Answered(i, t) /\ (Unanswered(i, t) => sess' = sess)
          BY <3>1, <3>3 DEF IssueDiscipline, Unanswered, Answered
        <4>2. \/ BgAccepted(i, t) \/ UNCHANGED sess
              \/ Answered(i, t) \/ Unanswered(i, t)
          BY <2>3, <3>3 DEF BgStep, BgStillRunning, BgLeaseRefused, BgConcluded,
                BgConclude, BgBlocks, BgIncomplete, BgNotOpen, BgFailedTwice, BgFailed,
                BgAuthExpired
        <4> QED BY <4>1, <4>2 DEF BgAccepted, TypeOK
      <3> QED BY <3>2, <3>3
    <2>4. ASSUME NEW j \in Issues, \/ WorkerOpensPr(j) \/ SessionEnds(j) \/ GrowsStale(j)
                                   \/ PauseEnds(j) \/ PrMerged(j) \/ Unblock(j)
          PROVE  sess'[i] # "fresh"
      BY <2>4 DEF WorkerOpensPr, SessionEnds, GrowsStale, PauseEnds, PrMerged, Unblock,
                  TypeOK
    <2>5. ASSUME NEW t \in Ticks, ForceTick(t) PROVE UNCHANGED sess
      BY <2>5 DEF ForceTick
    <2>6. ASSUME Kill PROVE sess'[i] # "fresh"
      BY <2>6 DEF Kill
    <2> QED BY <2>1, <2>2, <2>3, <2>4, <2>5, <2>6 DEF Next
  <1> HIDE DEF A
  <1>2. Spec => [][A]_vars
    BY <1>1, TypeCorrect, ClaimsHold, PTL DEF Spec
  <1> QED BY <1>2 DEF FreshNeedsClaim, A

=============================================================================
