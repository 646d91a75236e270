-------------------------- MODULE IssueCounts_proofs --------------------------
(***************************************************************************)
(* Proofs about what the pipeline of IssueImplement keeps over many steps,  *)
(* for any set of issues and any bounds: no issue is lost, the reaper's     *)
(* count is exact and bounded, and the issues in flight stay within         *)
(* max_parallel.                                                            *)
(***************************************************************************)
EXTENDS IssueImplement_proofs

-----------------------------------------------------------------------------
(* Without forge faults *)

LEMMA Faultless ==
  ASSUME ~ForgeFaults
  PROVE  ForgeOk = {TRUE} /\ Removals = {3}
  BY DEF ForgeOk, Removals

\* The steps that enter a phase with a fresh listing ...
Entering(t) ==
    \/ StartTick(t) \/ ReapDone(t) \/ ReconcileDone(t) \/ ResumeNone(t)
    \/ ResumePrOpen(t) \/ ResumeCeiling(t) \/ ResumeSpawn(t) \/ Fetch(t)

\* ... and those that neither enter a phase nor leave an issue.
Quiet(t) ==
    \/ ResumeSelect(t) \/ ResumeNotify(t) \/ Count(t) \/ ClaimDone(t)
    \/ (\E i \in Issues : Post(t, i)) \/ EndTick(t)

\* A step of one tick coroutine touches no other one.
LEMMA OtherTicks ==
  ASSUME TypeOK, NEW t \in Ticks, TickStep(t), NEW u \in Ticks, u # t
  PROVE  tick'[u] = tick[u]
  <1>1. ASSUME NEW phase, NEW S, Enter(t, phase, S) PROVE tick'[u] = tick[u]
    BY <1>1 DEF Enter, TypeOK
  <1>2. ASSUME NEW i, NEW m, Leave(t, i, m) PROVE tick'[u] = tick[u]
    BY <1>2 DEF Leave, TypeOK
  <1>3. Landed(t)[u] = tick[u] /\ t \in DOMAIN Landed(t) /\ u \in DOMAIN Landed(t)
    BY DEF Landed, TypeOK
  <1>4. CASE Entering(t)
    BY <1>1, <1>4 DEF Entering, StartTick, ReapDone, ReconcileDone, ResumeNone,
                      ResumePrOpen, ResumeCeiling, ResumeSpawn, Fetch
  <1>5. CASE \/ ReapSkip(t) \/ ReapRemove(t) \/ ReconcileSkip(t) \/ ReconcileRemove(t)
             \/ ClaimPaused(t) \/ ClaimMerged(t) \/ ClaimRemove(t)
    BY <1>2, <1>5 DEF ReapSkip, ReapRemove, ReconcileSkip, ReconcileRemove, ClaimPaused,
                      ClaimMerged, ClaimRemove
  <1>6. CASE FinishReap(t) \/ FinishReconcile(t) \/ FinishPark(t) \/ FinishClaim(t)
    <2>1. tick' = Landed(t) \/ tick' = [tick EXCEPT ![t] = IdleTick] => tick'[u] = tick[u]
      BY <1>3 DEF TypeOK
    <2>2. FinishClaim(t) => \/ \E c : tick' = [Landed(t) EXCEPT ![t].claimed = c]
                            \/ tick' = [tick EXCEPT ![t] = IdleTick]
      BY <1>3 DEF FinishClaim, Abort
    <2> QED BY <1>3, <1>6, <2>1, <2>2 DEF FinishReap, FinishReconcile, FinishPark, Abort
  <1>7. CASE Quiet(t)
    BY <1>7 DEF Quiet, ResumeSelect, ResumeNotify, Count, ClaimDone, Post, EndTick, TypeOK
  <1> QED BY <1>4, <1>5, <1>6, <1>7 DEF TickStep, Entering, Quiet

-----------------------------------------------------------------------------
(* What a step does when no forge call fails *)

LEMMA EnterList ==
  ASSUME TypeOK, NEW t \in Ticks, NEW phase, NEW S, Enter(t, phase, S)
  PROVE  \A i \in Listed(t)' : tick'[t].list[i] = attempt[i]
  <1>1. PICK L \in Listings(S) :
          tick' = [tick EXCEPT ![t].at = phase,
                               ![t].list = [i \in L |-> attempt[i]]]
    BY DEF Enter
  <1> DEFINE l == [i \in L |-> attempt[i]]
  <1>2. DOMAIN l = L /\ \A i \in L : l[i] = attempt[i]
    OBVIOUS
  <1> HIDE DEF l
  <1>3. tick'[t] = [tick[t] EXCEPT !.at = phase, !.list = l]
    BY <1>1 DEF TypeOK, l
  <1>4. tick'[t].list = l
    BY <1>3, TickTypes DEF TickStates
  <1> QED BY <1>2, <1>4 DEF Listed

LEMMA LeaveList ==
  ASSUME TypeOK, NEW t \in Ticks, NEW i, NEW m, Leave(t, i, m)
  PROVE  /\ \A j \in Listed(t)' : tick'[t].list[j] = tick[t].list[j]
         /\ m \in {"reap", "exhaust"} => tick'[t].next = NextCount(tick[t].list[i])
  <1> DEFINE l == [j \in Listed(t) \ {i} |-> tick[t].list[j]]
             n == IF m \in {"reap", "exhaust"} THEN NextCount(tick[t].list[i]) ELSE 0
             o == IF m = "none" THEN 0 ELSE i
  <1>1. tick' = [tick EXCEPT ![t].list = l, ![t].move = m, ![t].on = o, ![t].next = n]
    BY DEF Leave
  <1>2. DOMAIN l = Listed(t) \ {i} /\ \A j \in Listed(t) \ {i} : l[j] = tick[t].list[j]
    OBVIOUS
  <1> HIDE DEF l, n, o
  <1>3. tick'[t] = [tick[t] EXCEPT !.list = l, !.move = m, !.on = o, !.next = n]
    BY <1>1 DEF TypeOK
  <1>4. tick'[t].list = l /\ tick'[t].next = n
    BY <1>3, TickTypes DEF TickStates
  <1> QED BY <1>2, <1>4 DEF Listed, n

\* Only issue i changes its stage, to S.
Restaged(i, S) == /\ i \in Issues /\ stage'[i] = S
                  /\ \A j \in Issues \ {i} : stage'[j] = stage[j]

LEMMA RemoveEffect ==
  ASSUME TypeOK, NEW i \in Issues, NEW label, RemoveStage(i, label, TRUE)
  PROVE  Restaged(i, stage[i] \ {label})
  BY StageEffect DEF Restaged

LEMMA AddEffect ==
  ASSUME TypeOK, NEW i \in Issues, NEW label, AddStage(i, label, TRUE)
  PROVE  Restaged(i, stage[i] \cup {label})
  BY StageEffect DEF Restaged

LEMMA ReapRemoveEffect ==
  ASSUME TypeOK, ~ForgeFaults, NEW t \in Ticks, ReapRemove(t)
  PROVE  \E i \in Listed(t) :
           LET n == tick[t].list[i]
               m == IF Exhausted(n) THEN "exhaust" ELSE "reap"
           IN  /\ Restaged(i, stage[i] \ {"em_implementacao"})
               /\ attempt' = [attempt EXCEPT ![i] = IF attempt[i] = n THEN 0 ELSE attempt[i]]
               /\ reaps' = [reaps EXCEPT ![i] =
                                 IF reaps[i] > MaxReaps THEN reaps[i] ELSE reaps[i] + 1]
               /\ Leave(t, i, m)
  <1>1. PICK i \in Listed(t) :
           LET n == tick[t].list[i]
               move == IF Exhausted(n) THEN "exhaust"
                       ELSE IF 3 = 3 THEN "reap" ELSE "none"
           IN  /\ RemoveStage(i, "em_implementacao", 3 >= 1)
               /\ attempt' = [attempt EXCEPT ![i] = IF 3 = 3 /\ @ = n THEN 0 ELSE @]
               /\ Leave(t, i, move)
               /\ reaps' = [reaps EXCEPT ![i] =
                      IF move = "none" \/ @ > MaxReaps THEN @ ELSE @ + 1]
    BY Faultless DEF ReapRemove, Foremost
  <1>2. (3 >= 1) = TRUE
    OBVIOUS
  <1>3. RemoveStage(i, "em_implementacao", TRUE)
    BY <1>1, <1>2
  <1>4. Restaged(i, stage[i] \ {"em_implementacao"})
    BY <1>3, RemoveEffect, TickTypes
  <1> QED BY <1>1, <1>4

LEMMA FinishReapEffect ==
  ASSUME TypeOK, ~ForgeFaults, NEW t \in Ticks, FinishReap(t), NEW i, i = tick[t].on
  PROVE  /\ \/ tick[t].move = "reap" /\ Restaged(i, stage[i] \cup {"revisada"})
            \/ tick[t].move = "exhaust" /\ Restaged(i, stage[i]) /\ blocked'[i]
         /\ \A j \in Issues \ {i} : blocked'[j] = blocked[j]
         /\ tick[t].move = "reap" => blocked'[i] = blocked[i]
         /\ attempt' = [attempt EXCEPT ![i] = IF tick[t].next > attempt[i] THEN tick[t].next
                                             ELSE attempt[i]]
         /\ tick' = Landed(t)
  <1>1. tick[t].move \in {"reap", "exhaust"} /\ i \in Issues
    BY MoveTypes DEF FinishReap
  <1>2. PICK ok \in ForgeOk :
          /\ AddStage(i, "revisada", ok /\ ~(tick[t].move = "exhaust"))
          /\ blocked' = [blocked EXCEPT ![i] = @ \/ (ok /\ tick[t].move = "exhaust")]
          /\ attempt' = [attempt EXCEPT ![i] = IF ok /\ tick[t].next > @ THEN tick[t].next
                                               ELSE @]
          /\ tick' = Landed(t)
    BY DEF FinishReap
  <1>3. ok = TRUE
    BY Faultless
  <1>4. CASE tick[t].move = "reap"
    BY <1>1, <1>2, <1>3, <1>4 DEF Restaged, AddStage, TypeOK
  <1>5. CASE tick[t].move = "exhaust"
    BY <1>1, <1>2, <1>3, <1>5 DEF Restaged, AddStage, TypeOK
  <1> QED BY <1>1, <1>2, <1>3, <1>4, <1>5

LEMMA ReconcileEffect ==
  ASSUME TypeOK, ~ForgeFaults, NEW t \in Ticks
  PROVE  /\ ReconcileRemove(t) => \E i \in Listed(t) :
                /\ Restaged(i, stage[i] \ {"em_implementacao"})
                /\ Leave(t, i, "reconcile")
         /\ FinishReconcile(t) => /\ Restaged(tick[t].on, stage[tick[t].on] \cup {"em_pr"})
                                  /\ tick' = Landed(t)
  <1>1. ASSUME ReconcileRemove(t)
        PROVE  \E i \in Listed(t) : /\ Restaged(i, stage[i] \ {"em_implementacao"})
                                     /\ Leave(t, i, "reconcile")
    <2>1. PICK i \in Foremost(Listed(t)), ok \in ForgeOk :
            /\ pr[i] = "open"
            /\ RemoveStage(i, "em_implementacao", ok)
            /\ Leave(t, i, IF ok THEN "reconcile" ELSE "none")
      BY <1>1, Zenon DEF ReconcileRemove
    <2>2. ok = TRUE /\ i \in Listed(t)
      BY <2>1, Faultless DEF Foremost
    <2>3. Leave(t, i, "reconcile")
      BY <2>1, <2>2
    <2>4. Restaged(i, stage[i] \ {"em_implementacao"})
      BY <2>1, <2>2, TickTypes DEF RemoveStage, Restaged, TypeOK
    <2> QED BY <2>2, <2>3, <2>4
  <1>2. ASSUME FinishReconcile(t)
        PROVE  Restaged(tick[t].on, stage[tick[t].on] \cup {"em_pr"}) /\ tick' = Landed(t)
    <2>1. AddStage(tick[t].on, "em_pr", TRUE) /\ tick' = Landed(t) /\ tick[t].on \in Issues
      BY <1>2, Faultless, MoveTypes DEF FinishReconcile
    <2> QED BY <2>1, AddEffect
  <1> QED BY <1>1, <1>2

LEMMA ClaimRemoveEffect ==
  ASSUME TypeOK, ~ForgeFaults, NEW t \in Ticks, ClaimRemove(t)
  PROVE  \E i \in Listed(t), m \in {"claim", "park"} :
           Restaged(i, stage[i] \ {"revisada"}) /\ Leave(t, i, m)
  <1>1. PICK i \in Foremost(Listed(t)), ok \in ForgeOk :
        \E p \in Seen(i) \ {"merged"} :
          /\ ~paused[i]
          /\ RemoveStage(i, "revisada", ok)
          /\ Leave(t, i, IF EnableGate /\ p = "open"
                            THEN IF ok THEN "park" ELSE "unpark"
                         ELSE IF ok THEN "claim" ELSE "none")
    BY Zenon DEF ClaimRemove
  <1>2. ok = TRUE /\ i \in Listed(t)
    BY <1>1, Faultless DEF Foremost
  <1>3. \E m \in {"claim", "park"} : Leave(t, i, m)
    <2>1. PICK p : Leave(t, i, IF EnableGate /\ p = "open"
                                  THEN IF ok THEN "park" ELSE "unpark"
                               ELSE IF ok THEN "claim" ELSE "none")
      BY <1>1
    <2>2. CASE EnableGate /\ p = "open"
      BY <1>2, <2>1, <2>2
    <2>3. CASE ~(EnableGate /\ p = "open")
      BY <1>2, <2>1, <2>3
    <2> QED BY <2>2, <2>3
  <1>4. Restaged(i, stage[i] \ {"revisada"})
    BY <1>1, <1>2, TickTypes DEF RemoveStage, Restaged, TypeOK
  <1> QED BY <1>2, <1>3, <1>4

LEMMA FinishParkEffect ==
  ASSUME TypeOK, ~ForgeFaults, NEW t \in Ticks, FinishPark(t), tick[t].move # "unpark"
  PROVE  Restaged(tick[t].on, stage[tick[t].on] \cup {"em_pr"}) /\ tick' = Landed(t)
  <1>1. tick[t].move = "park" /\ tick' = Landed(t)
    BY DEF FinishPark, Abort
  <1>2. tick[t].on \in Issues
    BY <1>1, MoveTypes
  <1>3. PICK ok \in ForgeOk : AddStage(tick[t].on, "em_pr", ok /\ tick[t].move = "park")
    BY DEF FinishPark
  <1>4. ok = TRUE
    BY Faultless
  <1> QED BY <1>1, <1>2, <1>3, <1>4 DEF AddStage, Restaged, TypeOK

LEMMA FinishClaimEffect ==
  ASSUME TypeOK, ~ForgeFaults, NEW t \in Ticks, FinishClaim(t)
  PROVE  /\ Restaged(tick[t].on, stage[tick[t].on] \cup {"em_implementacao"})
         /\ tick'[t].at = tick[t].at
         /\ tick'[t].list = tick[t].list
         /\ tick'[t].move = "none"
         /\ tick'[t].on = 0
  <1>1. PICK c : /\ AddStage(tick[t].on, "em_implementacao", TRUE)
                 /\ tick' = [Landed(t) EXCEPT ![t].claimed = c]
    BY Faultless DEF FinishClaim, Abort
  <1>2. tick[t].on \in Issues
    BY MoveTypes DEF FinishClaim
  <1>3. Landed(t)[t] = [tick[t] EXCEPT !.move = "none", !.on = 0, !.next = 0]
    BY DEF Landed, TypeOK
  <1>4. t \in DOMAIN Landed(t)
    BY DEF Landed, TypeOK
  <1>5. tick'[t] = [Landed(t)[t] EXCEPT !.claimed = c]
    BY <1>1, <1>4
  <1>6. Restaged(tick[t].on, stage[tick[t].on] \cup {"em_implementacao"})
    BY <1>1, <1>2, AddEffect
  <1>7. /\ tick'[t].at = tick[t].at /\ tick'[t].list = tick[t].list
        /\ tick'[t].move = "none" /\ tick'[t].on = 0
    BY <1>3, <1>5, TickTypes DEF TickStates
  <1> QED BY <1>6, <1>7

LEMMA SelectEffect ==
  ASSUME TypeOK, NEW t \in Ticks, ResumeSelect(t)
  PROVE  /\ tick'[t].at = "ask" /\ tick'[t].move = tick[t].move
         /\ tick'[t].on = tick[t].on
         /\ \E i \in Listed(t) : bg[i][t] = "none" /\ Listed(t)' = {i}
  <1>1. PICK i \in Listed(t) :
           /\ bg[i][t] = "none"
           /\ tick' = [tick EXCEPT ![t].at = "ask", ![t].list = [j \in {i} |-> @[j]]]
    BY DEF ResumeSelect, Resumable, Foremost
  <1> DEFINE l == [j \in {i} |-> tick[t].list[j]]
  <1>2. DOMAIN l = {i}
    OBVIOUS
  <1> HIDE DEF l
  <1>3. tick'[t] = [tick[t] EXCEPT !.at = "ask", !.list = l]
    BY <1>1 DEF TypeOK, l
  <1> QED BY <1>1, <1>2, <1>3, TickTypes DEF Listed, TickStates

LEMMA QuietEffect ==
  ASSUME TypeOK, NEW t \in Ticks, Quiet(t)
  PROVE  /\ UNCHANGED forge /\ UNCHANGED <<kills, unblocks, reaps, bg>>
         /\ \/ /\ tick'[t].move = tick[t].move /\ tick'[t].on = tick[t].on
               /\ Listed(t)' \subseteq Listed(t)
               /\ \/ Count(t) /\ tick'[t].at = "claim"
                  \/ tick'[t].at \in {"ask", "spawn", "post"}
            \/ tick'[t] = IdleTick
  <1>0. UNCHANGED forge /\ UNCHANGED <<kills, unblocks, reaps, bg>>
    BY DEF Quiet, ResumeSelect, ResumeNotify, Count, ClaimDone, Post, EndTick, env
  <1>1. CASE Count(t)
    <2>1. PICK batch \in SUBSET Listed(t) :
            tick' = [tick EXCEPT ![t].at = "claim",
                                 ![t].list = [i \in batch |-> tick[t].list[i]]]
      BY <1>1 DEF Count
    <2> DEFINE l == [i \in batch |-> tick[t].list[i]]
    <2>2. DOMAIN l = batch
      OBVIOUS
    <2> HIDE DEF l
    <2>3. tick'[t] = [tick[t] EXCEPT !.at = "claim", !.list = l]
      BY <2>1 DEF TypeOK, l
    <2> QED BY <1>0, <1>1, <2>2, <2>3, TickTypes DEF Listed, TickStates
  <1>2. CASE ClaimDone(t) \/ ResumeNotify(t)
    <2>1. PICK phase \in {"spawn", "post"} : tick' = [tick EXCEPT ![t].at = phase]
      BY <1>2 DEF ClaimDone, ResumeNotify
    <2>2. tick'[t] = [tick[t] EXCEPT !.at = phase]
      BY <2>1 DEF TypeOK
    <2> QED BY <1>0, <2>2, TickTypes DEF Listed, TickStates
  <1>3. CASE \E i \in Issues : Post(t, i)
    <2>1. PICK c : tick'[t] = [tick[t] EXCEPT !.claimed = c]
      BY <1>3 DEF Post, TypeOK
    <2>2. tick[t].at = "post"
      BY <1>3 DEF Post
    <2> QED BY <1>0, <2>1, <2>2, TickTypes DEF Listed, TickStates
  <1>4. CASE EndTick(t)
    BY <1>0, <1>4 DEF EndTick, TypeOK
  <1>5. CASE ResumeSelect(t)
    BY <1>0, <1>5, SelectEffect
  <1> QED BY <1>1, <1>2, <1>3, <1>4, <1>5 DEF Quiet

-----------------------------------------------------------------------------
(* No issue is lost *)

\* A coroutine is about to add a label to i.
Adding(i) ==
    \E t \in Ticks : \/ bg[i][t] = "concluding"
                     \/ tick[t].move # "none" /\ tick[t].on = i

\* A label move is finished in the stage that began it.
MoveInPhase(t) ==
    tick[t].move # "none" => /\ tick[t].move # "unpark"
                             /\ tick[t].at \in {"reap", "reconcile", "claim"}

\* A tick coroutine that is about to spawn a task for an issue has none for it,
\* whoever else has.
SlotIsFree(t) ==
    tick[t].at \in {"ask", "spawn"} => \A i \in Listed(t) : bg[i][t] = "none"

\* NeverLost counts a coroutine that merely remembers an issue (tick.on); this
\* one only those that will add a label to it, so that it is inductive.
NothingLost ==
    /\ \A i \in Issues : stage[i] # {} \/ blocked[i] \/ Adding(i)
    /\ \A t \in Ticks : MoveInPhase(t) /\ SlotIsFree(t)

\* What t alone guarantees of i.
Secured(i, t) ==
    stage[i] # {} \/ blocked[i] \/ (tick[t].move # "none" /\ tick[t].on = i)

LEMMA EnterSecures ==
  ASSUME TypeOK, NEW t \in Ticks, MoveInPhase(t),
         Entering(t)
  PROVE  /\ \A j \in Issues : Secured(j, t) => Secured(j, t)'
         /\ MoveInPhase(t)'
  <1>1. PICK phase, S : Enter(t, phase, S)
    BY DEF Entering, StartTick, ReapDone, ReconcileDone, ResumeNone, ResumePrOpen,
           ResumeCeiling, ResumeSpawn, Fetch
  <1>2. tick[t].move = "none"
    BY DEF Entering, StartTick, ReapDone, ReconcileDone, ResumeNone, ResumePrOpen,
           ResumeCeiling, ResumeSpawn, Fetch, ResumeAsked, StageDone, MoveInPhase
  <1>3. tick'[t].move = "none"
    BY <1>1, <1>2, EnterEffect
  <1>4. stage' = stage /\ \A j \in Issues : blocked[j] => blocked'[j]
    BY DEF Entering, StartTick, ReapDone, ReconcileDone, ResumeNone, ResumePrOpen,
           ResumeCeiling, ResumeSpawn, Fetch, forge, Block, TypeOK
  <1> QED BY <1>2, <1>3, <1>4 DEF Secured, MoveInPhase

LEMMA SkipSecures ==
  ASSUME TypeOK, NEW t \in Ticks, MoveInPhase(t),
         ReapSkip(t) \/ ReconcileSkip(t) \/ ClaimPaused(t) \/ ClaimMerged(t)
  PROVE  /\ \A j \in Issues : Secured(j, t) => Secured(j, t)'
         /\ MoveInPhase(t)'
  <1>1. PICK i : Leave(t, i, "none")
    BY DEF ReapSkip, ReconcileSkip, ClaimPaused, ClaimMerged
  <1>2. tick[t].move = "none" /\ tick'[t].move = "none"
    BY <1>1, LeaveEffect DEF ReapSkip, ReconcileSkip, ClaimPaused, ClaimMerged, Working
  <1>3. stage' = stage /\ \A j \in Issues : blocked[j] => blocked'[j]
    BY DEF ReapSkip, ReconcileSkip, ClaimPaused, ClaimMerged, forge, Block, TypeOK
  <1> QED BY <1>2, <1>3 DEF Secured, MoveInPhase

LEMMA RemoveSecures ==
  ASSUME TypeOK, ~ForgeFaults, NEW t \in Ticks,
         ReapRemove(t) \/ ReconcileRemove(t) \/ ClaimRemove(t)
  PROVE  /\ \A j \in Issues : Secured(j, t) => Secured(j, t)'
         /\ MoveInPhase(t)'
  <1>1. PICK i \in Listed(t), m \in {"reap", "exhaust", "reconcile", "claim", "park"} :
           /\ \A j \in Issues \ {i} : stage'[j] = stage[j]
           /\ Leave(t, i, m)
    <2>1. CASE ReapRemove(t)
      <3>1. PICK i \in Listed(t) :
               LET m == IF Exhausted(tick[t].list[i]) THEN "exhaust" ELSE "reap"
               IN  Restaged(i, stage[i] \ {"em_implementacao"}) /\ Leave(t, i, m)
        BY <2>1, ReapRemoveEffect
      <3>2. PICK m \in {"exhaust", "reap"} : Leave(t, i, m)
        BY <3>1
      <3> QED BY <3>1, <3>2 DEF Restaged
    <2>2. CASE ReconcileRemove(t)
      BY <2>2, ReconcileEffect DEF Restaged
    <2>3. CASE ClaimRemove(t)
      BY <2>3, ClaimRemoveEffect DEF Restaged
    <2> QED BY <2>1, <2>2, <2>3
  <1>2. tick[t].move = "none" /\ tick[t].at \in {"reap", "reconcile", "claim"} /\ blocked' = blocked
    BY DEF ReapRemove, ReconcileRemove, ClaimRemove, Working
  <1>3. tick'[t].move = m /\ tick'[t].on = i /\ tick'[t].at = tick[t].at
    BY <1>1, LeaveEffect
  <1> QED BY <1>1, <1>2, <1>3 DEF Secured, MoveInPhase

LEMMA FinishSecures ==
  ASSUME TypeOK, ~ForgeFaults, NEW t \in Ticks, MoveInPhase(t),
         FinishReap(t) \/ FinishReconcile(t) \/ FinishPark(t) \/ FinishClaim(t)
  PROVE  /\ \A j \in Issues : Secured(j, t) => Secured(j, t)'
         /\ MoveInPhase(t)'
  <1>1. PICK i : i = tick[t].on
    OBVIOUS
  <1>2. i \in Issues /\ tick[t].move \notin {"none", "unpark"}
    BY <1>1, MoveTypes DEF FinishReap, FinishReconcile, FinishPark, FinishClaim, MoveInPhase
  <1>3. CASE FinishReap(t)
    <2>1. /\ stage'[i] = stage[i] \cup {"revisada"} \/ blocked'[i]
          /\ \A j \in Issues \ {i} : stage'[j] = stage[j] /\ blocked'[j] = blocked[j]
          /\ tick' = Landed(t)
      BY <1>1, <1>3, FinishReapEffect DEF Restaged
    <2>2. tick'[t].move = "none"
      BY <2>1, LandedEffect
    <2> QED BY <1>1, <2>1, <2>2 DEF Secured, MoveInPhase
  <1>4. CASE FinishReconcile(t) \/ FinishPark(t) \/ FinishClaim(t)
    <2>1. PICK label : Restaged(i, stage[i] \cup {label})
      BY <1>1, <1>2, <1>4, ReconcileEffect, FinishParkEffect, FinishClaimEffect
    <2>2. tick'[t].move = "none"
      BY <1>2, <1>4, ReconcileEffect, FinishParkEffect, FinishClaimEffect, LandedEffect
    <2>3. blocked' = blocked
      BY <1>4 DEF FinishReconcile, FinishPark, FinishClaim
    <2> QED BY <1>1, <2>1, <2>2, <2>3 DEF Secured, MoveInPhase, Restaged
  <1> QED BY <1>3, <1>4

LEMMA TickStepSecures ==
  ASSUME TypeOK, ~ForgeFaults, NEW t \in Ticks, MoveInPhase(t), TickStep(t)
  PROVE  /\ \A j \in Issues : Secured(j, t) => Secured(j, t)'
         /\ MoveInPhase(t)'
  <1>1. CASE Quiet(t)
    <2>1. tick[t].move = "none"
      BY <1>1 DEF Quiet, ResumeSelect, ResumeNotify, ResumeAsked, Count, ClaimDone, Post,
                  EndTick, StageDone, MoveInPhase
    <2>2. UNCHANGED forge /\ (tick'[t].move = tick[t].move \/ tick'[t] = IdleTick)
      BY <1>1, QuietEffect
    <2>3. tick'[t].move = "none" /\ UNCHANGED <<stage, blocked>>
      BY <2>1, <2>2 DEF IdleTick, forge
    <2> QED BY <2>1, <2>3 DEF Secured, MoveInPhase
  <1> QED BY <1>1, EnterSecures, SkipSecures, RemoveSecures, FinishSecures
          DEF TickStep, Entering, Quiet

\* A tick coroutine spawns a task where it has none.
LEMMA TickStepSpawns ==
  ASSUME TypeOK, NEW t \in Ticks, MoveInPhase(t), SlotIsFree(t), TickStep(t)
  PROVE  /\ \A i \in Issues, u \in Ticks :
               bg'[i][u] = bg[i][u] \/ (u = t /\ bg[i][u] = "none")
         /\ SlotIsFree(t)'
  <1>1. CASE ResumeSpawn(t)
    <2>1. PICK i \in Listed(t) : bg' = [bg EXCEPT ![i][t] = "posting"]
      BY <1>1 DEF ResumeSpawn
    <2>2. i \in Issues /\ bg[i][t] = "none"
      BY <1>1, <2>1, TickTypes DEF ResumeSpawn, SlotIsFree
    <2>3. tick'[t].at = "fetch"
      BY <1>1, EnterEffect DEF ResumeSpawn
    <2> QED BY <2>1, <2>2, <2>3 DEF SlotIsFree, TypeOK
  <1>2. CASE ~ResumeSpawn(t)
    <2>1. UNCHANGED bg
      BY <1>2 DEF TickStep, StartTick, ReapSkip, ReapRemove, FinishReap, ReapDone,
                  ReconcileSkip, ReconcileRemove, FinishReconcile, ReconcileDone,
                  ResumeNone, ResumeSelect, ResumePrOpen, ResumeCeiling, ResumeNotify,
                  Fetch, Count, ClaimPaused, ClaimMerged, ClaimRemove, FinishPark,
                  FinishClaim, ClaimDone, Post, EndTick
    <2>2. CASE ResumeSelect(t)
      BY <2>1, <2>2, SelectEffect DEF SlotIsFree
    <2>3. CASE ResumeNotify(t)
      <3>1. tick'[t] = [tick[t] EXCEPT !.at = "spawn"] /\ tick[t].at = "ask"
        BY <2>3 DEF ResumeNotify, ResumeAsked, TypeOK
      <3>2. Listed(t)' = Listed(t)
        BY <3>1, TickTypes DEF Listed, TickStates
      <3> QED BY <2>1, <3>1, <3>2 DEF SlotIsFree
    <2>4. CASE Entering(t)
      <3>1. PICK phase \in {"reap", "reconcile", "resume", "fetch", "count"} :
              \E S : Enter(t, phase, S)
        BY <2>4 DEF Entering, StartTick, ReapDone, ReconcileDone, ResumeNone, ResumePrOpen,
                    ResumeCeiling, ResumeSpawn, Fetch
      <3>2. tick'[t].at \notin {"ask", "spawn"}
        BY <3>1, EnterEffect
      <3> QED BY <2>1, <3>2 DEF SlotIsFree
    <2>5. CASE \/ ReapSkip(t) \/ ReapRemove(t) \/ ReconcileSkip(t) \/ ReconcileRemove(t)
               \/ ClaimPaused(t) \/ ClaimMerged(t) \/ ClaimRemove(t)
      <3>1. PICK i, m : Leave(t, i, m)
        BY <2>5 DEF ReapSkip, ReapRemove, ReconcileSkip, ReconcileRemove, ClaimPaused,
                    ClaimMerged, ClaimRemove
      <3>2. tick[t].at \in {"reap", "reconcile", "claim"}
        BY <2>5 DEF ReapSkip, ReapRemove, ReconcileSkip, ReconcileRemove, ClaimPaused,
                    ClaimMerged, ClaimRemove, Working
      <3>3. tick'[t].at \notin {"ask", "spawn"}
        BY <3>1, <3>2, LeaveEffect
      <3> QED BY <2>1, <3>3 DEF SlotIsFree
    <2>6. CASE FinishReap(t) \/ FinishReconcile(t) \/ FinishPark(t) \/ FinishClaim(t)
      <3>1. tick[t].at \in {"reap", "reconcile", "claim"}
        BY <2>6 DEF FinishReap, FinishReconcile, FinishPark, FinishClaim, MoveInPhase
      <3>2. tick'[t].at \in {tick[t].at, "idle"}
        <4>1. CASE tick'[t] = IdleTick
          BY <4>1 DEF IdleTick
        <4>2. CASE tick' = Landed(t)
          BY <4>2, LandedEffect
        <4>3. ASSUME NEW c, tick' = [Landed(t) EXCEPT ![t].claimed = c]
              PROVE  tick'[t].at = tick[t].at
          <5>1. Landed(t)[t] = [tick[t] EXCEPT !.move = "none", !.on = 0, !.next = 0]
            BY DEF Landed, TypeOK
          <5>2. t \in DOMAIN Landed(t)
            BY DEF Landed, TypeOK
          <5>3. tick'[t] = [Landed(t)[t] EXCEPT !.claimed = c]
            BY <4>3, <5>2
          <5> QED BY <5>1, <5>3, TickTypes DEF TickStates
        <4>4. tick' = [tick EXCEPT ![t] = IdleTick] => tick'[t] = IdleTick
          BY DEF TypeOK
        <4> QED BY <2>6, <4>1, <4>2, <4>3, <4>4
                DEF FinishReap, FinishReconcile, FinishPark, FinishClaim, Abort
      <3> QED BY <2>1, <3>1, <3>2 DEF SlotIsFree
    <2>7. CASE Quiet(t) /\ ~ResumeSelect(t) /\ ~ResumeNotify(t)
      <3>1. tick'[t].at \notin {"ask", "spawn"}
        <4>1. CASE Count(t)
          BY <4>1 DEF Count, TypeOK
        <4>2. CASE ClaimDone(t)
          BY <4>2 DEF ClaimDone, TypeOK
        <4>3. CASE \E i \in Issues : Post(t, i)
          <5>1. PICK c : tick'[t] = [tick[t] EXCEPT !.claimed = c] /\ tick[t].at = "post"
            BY <4>3 DEF Post, TypeOK
          <5> QED BY <5>1, TickTypes DEF TickStates
        <4>4. CASE EndTick(t)
          BY <4>4 DEF EndTick, IdleTick, TypeOK
        <4> QED BY <2>7, <4>1, <4>2, <4>3, <4>4 DEF Quiet
      <3> QED BY <2>1, <3>1 DEF SlotIsFree
    <2> QED BY <1>2, <2>1, <2>2, <2>3, <2>4, <2>5, <2>6, <2>7 DEF TickStep, Entering, Quiet
  <1> QED BY <1>1, <1>2

\* A resume task that stops adding a label to its issue has added it.
LEMMA BgStepSecures ==
  ASSUME TypeOK, ~ForgeFaults, NEW i \in Issues, NEW t \in Ticks, BgStep(i, t)
  PROVE  /\ UNCHANGED tick
         /\ bg[i][t] # "none"
         /\ \A j \in Issues \ {i} : stage'[j] = stage[j] /\ blocked'[j] = blocked[j]
         /\ \A j \in Issues, u \in Ticks : bg'[j][u] = bg[j][u] \/ (j = i /\ u = t)
         /\ stage[i] # {} => stage'[i] # {} \/ bg'[i][t] = "concluding"
         /\ blocked[i] => blocked'[i]
         /\ bg[i][t] = "concluding" => stage'[i] # {}
  <1> DEFINE Slot(s) == bg' = [bg EXCEPT ![i][t] = s]
  <1>1. CASE BgConcluded(i, t)
    <2>1. PICK ok \in ForgeOk :
            /\ RemoveStage(i, "em_implementacao", ok)
            /\ \/ ok /\ Slot("concluding")
               \/ ~ok /\ TaskEnds(i, t)
      BY <1>1, Zenon DEF BgConcluded
    <2>2. ok = TRUE
      BY Faultless
    <2>3. Slot("concluding")
      BY <2>1, <2>2
    <2>4. /\ \A j \in Issues \ {i} : stage'[j] = stage[j]
          /\ bg[i][t] = "waiting" /\ UNCHANGED <<tick, blocked>>
      BY <1>1, <2>1 DEF BgConcluded, Answered, RemoveStage, TypeOK
    <2> QED BY <2>3, <2>4 DEF TypeOK
  <1>2. CASE BgConclude(i, t)
    <2>1. AddStage(i, "em_pr", TRUE)
      BY <1>2, Faultless DEF BgConclude
    <2>2. /\ \A j \in Issues \ {i} : stage'[j] = stage[j]
          /\ stage'[i] = stage[i] \cup {"em_pr"}
      BY <2>1, StageEffect
    <2>3. Slot("none") /\ bg[i][t] = "concluding" /\ UNCHANGED <<tick, blocked>>
      BY <1>2 DEF BgConclude, TaskEnds
    <2> QED BY <2>2, <2>3 DEF TypeOK
  <1>3. CASE BgBlocks(i, t) \/ BgFailedTwice(i, t)
    <2>1. /\ Slot("none") /\ bg[i][t] \in {"posting", "waiting"}
          /\ UNCHANGED <<tick, stage>> /\ \E ok : Block(i, ok)
      BY <1>3 DEF BgBlocks, BgFailedTwice, Answered, Unanswered, TaskEnds
    <2>2. /\ \A j \in Issues \ {i} : blocked'[j] = blocked[j]
          /\ blocked[i] => blocked'[i]
      BY <2>1 DEF Block, TypeOK
    <2> QED BY <2>1, <2>2 DEF TypeOK
  <1>4. CASE \/ BgAccepted(i, t) \/ BgStillRunning(i, t) \/ BgLeaseRefused(i, t)
             \/ BgIncomplete(i, t) \/ BgNotOpen(i, t) \/ BgFailed(i, t)
             \/ BgAuthExpired(i, t)
    <2>1. /\ \E s : Slot(s)
          /\ bg[i][t] \in {"posting", "waiting"} /\ UNCHANGED <<tick, forge>>
      BY <1>4 DEF BgAccepted, BgStillRunning, BgLeaseRefused, BgIncomplete, BgNotOpen,
                  BgFailed, BgAuthExpired, Answered, Unanswered, TaskEnds
    <2> QED BY <2>1 DEF forge, TypeOK
  <1> QED BY <1>1, <1>2, <1>3, <1>4 DEF BgStep

LEMMA NextSecures ==
  ASSUME TypeOK, NothingLost, ~ForgeFaults, MaxKills = 0, MaxUnblocks = 0, Next
  PROVE  NothingLost'
  <1>0. kills = 0 /\ unblocks = 0
    BY DEF TypeOK
  <1>1. ASSUME NEW t \in Ticks, TickStep(t) PROVE NothingLost'
    <2>1. /\ \A j \in Issues : Secured(j, t) => Secured(j, t)'
          /\ MoveInPhase(t)'
      BY <1>1, TickStepSecures DEF NothingLost
    <2>2. \A u \in Ticks \ {t} : tick'[u] = tick[u]
      BY <1>1, OtherTicks
    <2>3. /\ \A i \in Issues, u \in Ticks :
               bg'[i][u] = bg[i][u] \/ (u = t /\ bg[i][u] = "none")
          /\ SlotIsFree(t)'
      BY <1>1, TickStepSpawns DEF NothingLost
    <2>4. \A u \in Ticks : MoveInPhase(u)'
      BY <2>1, <2>2 DEF NothingLost, MoveInPhase
    <2>5. ASSUME NEW u \in Ticks PROVE SlotIsFree(u)'
      <3>1. CASE u # t
        <4>1. Listed(u)' = Listed(u) /\ Listed(u) \subseteq Issues
          BY <2>2, <3>1, TickTypes DEF Listed
        <4> QED BY <2>2, <2>3, <3>1, <4>1 DEF NothingLost, SlotIsFree
      <3> QED BY <2>3, <3>1
    <2>6. ASSUME NEW j \in Issues PROVE (stage[j] # {} \/ blocked[j] \/ Adding(j))'
      <3>1. CASE Secured(j, t)
        BY <2>1, <3>1 DEF Adding, Secured
      <3>2. CASE ~Secured(j, t)
        <4>1. PICK u \in Ticks : \/ bg[j][u] = "concluding"
                                 \/ u # t /\ tick[u].move # "none" /\ tick[u].on = j
          BY <3>2 DEF NothingLost, Adding, Secured
        <4> QED BY <2>2, <2>3, <4>1 DEF Adding
      <3> QED BY <3>1, <3>2
    <2> QED BY <2>4, <2>5, <2>6 DEF NothingLost
  <1>2. ASSUME NEW i \in Issues, NEW t \in Ticks, BgStep(i, t) PROVE NothingLost'
    <2>1. /\ UNCHANGED tick /\ bg[i][t] # "none"
          /\ \A j \in Issues, u \in Ticks : bg'[j][u] = bg[j][u] \/ (j = i /\ u = t)
      BY <1>2, BgStepSecures
    <2>2. ASSUME NEW u \in Ticks PROVE MoveInPhase(u)' /\ SlotIsFree(u)'
      <3>1. Listed(u)' = Listed(u) /\ Listed(u) \subseteq Issues
        BY <2>1, TickTypes DEF Listed
      <3> QED BY <2>1, <3>1 DEF NothingLost, MoveInPhase, SlotIsFree
    <2>3. ASSUME NEW j \in Issues PROVE (stage[j] # {} \/ blocked[j] \/ Adding(j))'
      <3>1. CASE j # i
        BY <1>2, <2>1, <3>1, BgStepSecures DEF NothingLost, Adding
      <3>2. CASE j = i
        <4>1. CASE stage[i] # {} \/ blocked[i] \/ bg[i][t] = "concluding"
          BY <1>2, <3>2, <4>1, BgStepSecures DEF Adding
        <4>2. CASE ~(stage[i] # {} \/ blocked[i] \/ bg[i][t] = "concluding")
          <5>1. PICK u \in Ticks : \/ bg[i][u] = "concluding" /\ u # t
                                   \/ tick[u].move # "none" /\ tick[u].on = i
            BY <4>2 DEF NothingLost, Adding
          <5> QED BY <2>1, <3>2, <5>1 DEF Adding
        <4> QED BY <4>1, <4>2
      <3> QED BY <3>1, <3>2
    <2> QED BY <2>2, <2>3 DEF NothingLost
  <1>3. ASSUME NEW i \in Issues, \/ WorkerOpensPr(i) \/ SessionEnds(i) \/ GrowsStale(i)
                                 \/ PauseEnds(i) \/ PrMerged(i) \/ Unblock(i)
        PROVE  NothingLost'
    <2>1. UNCHANGED <<stage, blocked, bg, tick>>
      BY <1>0, <1>3 DEF WorkerOpensPr, SessionEnds, GrowsStale, PauseEnds, PrMerged, Unblock,
                  forge, memory
    <2> QED BY <2>1 DEF NothingLost, Adding, MoveInPhase, SlotIsFree, Listed
  <1>4. ASSUME NEW t \in Ticks, ForceTick(t) PROVE NothingLost'
    <2>1. UNCHANGED <<stage, blocked, bg>>
      BY <1>4 DEF ForceTick, forge
    <2>2. tick'[t] = [tick[t] EXCEPT !.at = "scheduled"] /\ tick[t].at = "idle"
      BY <1>4 DEF ForceTick, TypeOK
    <2>3. \A u \in Ticks \ {t} : tick'[u] = tick[u]
      BY <1>4 DEF ForceTick, TypeOK
    <2>4. tick[t].move = "none"
      BY <2>2 DEF NothingLost, MoveInPhase
    <2>5. tick'[t].move = "none" /\ tick'[t].at = "scheduled"
      BY <2>2, <2>4, TickTypes DEF TickStates
    <2> QED BY <2>1, <2>3, <2>4, <2>5 DEF NothingLost, Adding, MoveInPhase, SlotIsFree, Listed
  <1>5. ~Kill
    BY <1>0 DEF Kill
  <1> QED BY <1>1, <1>2, <1>3, <1>4, <1>5 DEF Next

\* No issue falls out of the pipeline while the forge answers, the pod stays up
\* and nobody removes bloqueada: whatever the reaper, the automatic resume and
\* any number of forced ticks do to it at the same time, it keeps a stage or
\* bloqueada, or somebody is about to add one.
THEOREM NoIssueIsLost ==
  ASSUME ~ForgeFaults, MaxKills = 0, MaxUnblocks = 0
  PROVE  Spec => []NeverLost
  <1>1. Init => NothingLost
    <2> SUFFICES ASSUME Init PROVE NothingLost
      OBVIOUS
    <2>1. \A t \in Ticks : tick[t].move = "none" /\ tick[t].at = "idle"
      BY DEF Init, IdleTick
    <2>2. \A i \in Issues : stage[i] # {}
      BY DEF Init
    <2> QED BY <2>1, <2>2 DEF NothingLost, MoveInPhase, SlotIsFree
  <1>2. TypeOK /\ NothingLost /\ [Next]_vars => NothingLost'
    <2>1. TypeOK /\ NothingLost /\ Next => NothingLost'
      BY NextSecures
    <2>2. NothingLost /\ UNCHANGED vars => NothingLost'
      BY DEF vars, forge, memory, NothingLost, Adding, MoveInPhase, SlotIsFree, Listed
    <2> QED BY <2>1, <2>2
  <1>3. NothingLost => NeverLost
    BY DEF NothingLost, NeverLost, Adding, Moving
  <1> QED BY <1>1, <1>2, <1>3, TypeCorrect, PTL DEF Spec

-----------------------------------------------------------------------------
(* One tick coroutine, no forge faults: what its listing and its label move   *)
(* say about the issue.  Reaper and automatic resume may both be enabled.     *)

\* i is on its way from one of these two stages to somewhere else.
Exclusive(i) == {"revisada", "em_implementacao"} \cap stage[i] = {}

\* The stage a label move belongs to.
PhaseOf(m) == CASE m \in {"reap", "exhaust"} -> "reap"
                [] m = "reconcile" -> "reconcile"
                [] OTHER -> "claim"

LaneOf(t) ==
    /\ tick[t].at = "reap" => \A i \in Listed(t) : "revisada" \notin stage[i]
    /\ tick[t].at \in {"count", "claim"} => \A i \in Listed(t) : "revisada" \in stage[i]
    /\ tick[t].move = "none" => tick[t].on = 0
    /\ tick[t].move # "none" => /\ tick[t].on \notin Listed(t)
                                /\ tick[t].at = PhaseOf(tick[t].move)
    /\ tick[t].move \in {"reap", "exhaust", "claim"} => Exclusive(tick[t].on)

\* An issue is never in revisada and em_implementacao at once, although with
\* reaper and resume together it may well carry two stages.
LaneInv ==
    /\ \A i \in Issues : ~({"revisada", "em_implementacao"} \subseteq stage[i])
    /\ \A t \in Ticks : LaneOf(t)

\* What t alone changes: no other coroutine is there.
LEMMA LaneLoop ==
  ASSUME ForcedTicks = {}, NEW t \in Ticks,
         \A i \in Issues : ~({"revisada", "em_implementacao"} \subseteq stage'[i]),
         LaneOf(t)'
  PROVE  LaneInv'
  BY OneTick DEF LaneInv

\* The label moves begin and end, and the listings change, as follows.
LEMMA EnterFrame ==
  ASSUME TypeOK, LaneInv, NEW t \in Ticks,
         Entering(t)
  PROVE  /\ tick[t].move = "none" /\ tick'[t].move = "none" /\ tick'[t].on = 0
         /\ tick'[t].at # "claim"
         /\ tick'[t].at = "reap" => \A i \in Listed(t)' : "em_implementacao" \in stage[i]
         /\ tick'[t].at = "count" => \A i \in Listed(t)' : "revisada" \in stage[i]
         /\ \A i \in Listed(t)' : i \in Issues /\ tick'[t].list[i] = attempt[i]
         /\ UNCHANGED <<stage, attempt, reaps>>
         /\ \A i \in Issues : /\ blocked[i] => blocked'[i]
                              /\ own'[i] => own[i] \/ "revisada" \in stage[i]
  <1>1. PICK phase, S : /\ Enter(t, phase, S)
                        /\ phase \in {"reap", "reconcile", "resume", "fetch", "count"}
                        /\ phase = "reap" => \A i \in S : "em_implementacao" \in stage[i]
                        /\ phase = "count" => \A i \in S : "revisada" \in stage[i]
                        /\ S \subseteq Issues
    <2>1. CASE StartTick(t)
      BY <2>1 DEF StartTick
    <2>2. CASE ReapDone(t) \/ ReconcileDone(t)
      BY <2>2 DEF ReapDone, ReconcileDone
    <2>3. CASE ResumeNone(t) \/ ResumePrOpen(t) \/ ResumeCeiling(t) \/ ResumeSpawn(t)
      BY <2>3 DEF ResumeNone, ResumePrOpen, ResumeCeiling, ResumeSpawn
    <2>4. CASE Fetch(t)
      BY <2>4 DEF Fetch
    <2> QED BY <2>1, <2>2, <2>3, <2>4 DEF Entering
  <1>2. tick[t].move = "none" /\ tick[t].on = 0
    BY DEF Entering, StartTick, ReapDone, ReconcileDone, ResumeNone, ResumePrOpen,
           ResumeCeiling, ResumeSpawn, Fetch, ResumeAsked, StageDone, LaneInv, LaneOf, PhaseOf
  <1>3. /\ tick'[t].at = phase /\ Listed(t)' \subseteq S
        /\ tick'[t].move = "none" /\ tick'[t].on = 0
    BY <1>1, <1>2, EnterEffect
  <1>4. UNCHANGED <<stage, attempt, reaps>>
    BY DEF Entering, StartTick, ReapDone, ReconcileDone, ResumeNone, ResumePrOpen,
           ResumeCeiling, ResumeSpawn, Fetch, forge, env
  <1>5. \A i \in Issues : /\ blocked[i] => blocked'[i]
                          /\ own'[i] => own[i] \/ "revisada" \in stage[i]
    <2>1. CASE Fetch(t)
      BY <2>1 DEF Fetch
    <2>2. CASE ResumeCeiling(t)
      BY <2>2 DEF ResumeCeiling, Block, TypeOK
    <2> QED BY <2>1, <2>2 DEF Entering, StartTick, ReapDone, ReconcileDone, ResumeNone,
                              ResumePrOpen, ResumeSpawn, forge
  <1>6. \A i \in Listed(t)' : tick'[t].list[i] = attempt[i]
    BY <1>1, EnterList
  <1> QED BY <1>1, <1>2, <1>3, <1>4, <1>5, <1>6

LEMMA SkipFrame ==
  ASSUME TypeOK, NEW t \in Ticks,
         ReapSkip(t) \/ ReconcileSkip(t) \/ ClaimPaused(t) \/ ClaimMerged(t)
  PROVE  /\ tick[t].move = "none" /\ tick'[t].move = "none" /\ tick'[t].on = 0
         /\ tick'[t].at = tick[t].at
         /\ \A i \in Listed(t)' : i \in Listed(t) /\ tick'[t].list[i] = tick[t].list[i]
         /\ UNCHANGED <<stage, attempt, reaps, own>>
         /\ \A i \in Issues : blocked[i] => blocked'[i]
  <1>1. PICK i : Leave(t, i, "none")
    BY DEF ReapSkip, ReconcileSkip, ClaimPaused, ClaimMerged
  <1>2. /\ tick'[t].at = tick[t].at /\ Listed(t)' \subseteq Listed(t)
        /\ tick'[t].move = "none" /\ tick'[t].on = 0
    BY <1>1, LeaveEffect
  <1>3. /\ UNCHANGED <<stage, attempt, reaps, own>> /\ tick[t].move = "none"
        /\ \A j \in Issues : blocked[j] => blocked'[j]
    BY DEF ReapSkip, ReconcileSkip, ClaimPaused, ClaimMerged, Working, Block, forge, env, TypeOK
  <1> QED BY <1>1, <1>2, <1>3, LeaveList

\* Where a label move begins.
RemovedFrom(i, m) ==
    IF m \in {"claim", "park"} THEN stage[i] \ {"revisada"}
    ELSE stage[i] \ {"em_implementacao"}

LEMMA RemoveFrame ==
  ASSUME TypeOK, ~ForgeFaults, NEW t \in Ticks,
         ReapRemove(t) \/ ReconcileRemove(t) \/ ClaimRemove(t)
  PROVE  /\ tick[t].move = "none"
         /\ \E i \in Listed(t), m \in {"reap", "exhaust", "reconcile", "claim", "park"} :
               /\ Leave(t, i, m)
               /\ tick[t].at = PhaseOf(m)
               /\ Restaged(i, RemovedFrom(i, m))
         /\ UNCHANGED blocked
         /\ \A i \in Issues : own'[i] => own[i]
         /\ ~ReapRemove(t) => UNCHANGED <<attempt, reaps>>
  <1>1. CASE ReapRemove(t)
    <2>1. PICK i \in Listed(t) :
             LET m == IF Exhausted(tick[t].list[i]) THEN "exhaust" ELSE "reap"
             IN  Restaged(i, stage[i] \ {"em_implementacao"}) /\ Leave(t, i, m)
      BY <1>1, ReapRemoveEffect
    <2>2. PICK m \in {"exhaust", "reap"} : Leave(t, i, m)
      BY <2>1
    <2>3. tick[t].at = PhaseOf(m) /\ RemovedFrom(i, m) = stage[i] \ {"em_implementacao"}
      BY <1>1, <2>2 DEF ReapRemove, Working, PhaseOf, RemovedFrom
    <2>4. \A j \in Issues : own'[j] => own[j]
      <3>1. PICK c, k : own' = [own EXCEPT ![c] = @ /\ k < 2]
        BY <1>1 DEF ReapRemove
      <3>2. PICK b \in BOOLEAN : (b <=> k < 2) /\ own' = [own EXCEPT ![c] = @ /\ b]
        <4>1. (k < 2) \in BOOLEAN
          OBVIOUS
        <4> QED BY <3>1, <4>1
      <3>3. CASE b
        BY <3>2, <3>3 DEF TypeOK
      <3>4. CASE ~b
        BY <3>2, <3>4 DEF TypeOK
      <3> QED BY <3>3, <3>4
    <2>5. tick[t].move = "none" /\ UNCHANGED blocked
      BY <1>1 DEF ReapRemove, Working
    <2>6. Restaged(i, RemovedFrom(i, m))
      BY <2>1, <2>3
    <2> QED BY <1>1, <2>2, <2>3, <2>4, <2>5, <2>6
  <1>2. CASE ReconcileRemove(t)
    <2>1. PICK i \in Listed(t) :
             Restaged(i, stage[i] \ {"em_implementacao"}) /\ Leave(t, i, "reconcile")
      BY <1>2, ReconcileEffect
    <2>2. /\ tick[t].at = PhaseOf("reconcile")
          /\ RemovedFrom(i, "reconcile") = stage[i] \ {"em_implementacao"}
      BY <1>2 DEF ReconcileRemove, Working, PhaseOf, RemovedFrom
    <2> QED BY <1>2, <2>1, <2>2 DEF ReconcileRemove, Working, env
  <1>3. CASE ClaimRemove(t)
    <2>1. PICK i \in Listed(t), m \in {"claim", "park"} :
             Restaged(i, stage[i] \ {"revisada"}) /\ Leave(t, i, m)
      BY <1>3, ClaimRemoveEffect
    <2>2. tick[t].at = PhaseOf(m) /\ RemovedFrom(i, m) = stage[i] \ {"revisada"}
      BY <1>3, <2>1 DEF ClaimRemove, Working, PhaseOf, RemovedFrom
    <2> QED BY <1>3, <2>1, <2>2 DEF ClaimRemove, Working, env
  <1> QED BY <1>1, <1>2, <1>3

LEMMA LandedList ==
  ASSUME TypeOK, NEW t \in Ticks, tick' = Landed(t)
  PROVE  tick'[t].list = tick[t].list
  <1>1. tick'[t] = [tick[t] EXCEPT !.move = "none", !.on = 0, !.next = 0]
    BY DEF Landed, TypeOK
  <1> QED BY <1>1, TickTypes DEF TickStates

\* Where the label move that t is in the middle of ends.
AddedTo(t) ==
    LET i == tick[t].on
    IN  CASE tick[t].move = "reap" -> stage[i] \cup {"revisada"}
          [] tick[t].move \in {"reconcile", "park"} -> stage[i] \cup {"em_pr"}
          [] tick[t].move = "claim" -> stage[i] \cup {"em_implementacao"}
          [] OTHER -> stage[i]

LEMMA FinishFrame ==
  ASSUME TypeOK, ~ForgeFaults, NEW t \in Ticks,
         FinishReap(t) \/ FinishReconcile(t) \/ FinishPark(t) \/ FinishClaim(t)
  PROVE  /\ tick[t].move # "none" /\ tick'[t].move = "none" /\ tick'[t].on = 0
         /\ tick'[t].at = tick[t].at /\ tick'[t].list = tick[t].list
         /\ tick[t].on \in Issues
         /\ Restaged(tick[t].on, AddedTo(t))
         /\ UNCHANGED <<reaps, own>>
         /\ \A i \in Issues : blocked[i] => blocked'[i]
         /\ tick[t].move \notin {"reap", "exhaust"} => UNCHANGED <<attempt, blocked>>
  <1>1. tick[t].move # "none" /\ tick[t].on \in Issues
    BY MoveTypes DEF FinishReap, FinishReconcile, FinishPark, FinishClaim
  <1>2. CASE FinishReap(t)
    <2>1. /\ Restaged(tick[t].on, AddedTo(t)) /\ tick' = Landed(t)
          /\ \A i \in Issues : blocked[i] => blocked'[i]
      BY <1>1, <1>2, FinishReapEffect DEF AddedTo
    <2> QED BY <1>1, <1>2, <2>1, LandedEffect, LandedList DEF FinishReap, env
  <1>3. CASE FinishReconcile(t)
    <2>1. Restaged(tick[t].on, AddedTo(t)) /\ tick' = Landed(t)
      BY <1>3, ReconcileEffect DEF AddedTo, FinishReconcile
    <2> QED BY <1>1, <1>3, <2>1, LandedEffect, LandedList DEF FinishReconcile, env
  <1>4. CASE FinishPark(t)
    <2>1. tick' = Landed(t)
      BY <1>4 DEF FinishPark, Abort
    <2>2. Restaged(tick[t].on, AddedTo(t))
      <3>1. CASE tick[t].move = "park"
        BY <1>4, <3>1, FinishParkEffect DEF AddedTo
      <3>2. CASE tick[t].move # "park"
        <4>1. PICK ok \in ForgeOk : AddStage(tick[t].on, "em_pr", ok /\ tick[t].move = "park")
          BY <1>4 DEF FinishPark
        <4>2. tick[t].move = "unpark"
          BY <1>4, <3>2 DEF FinishPark
        <4> QED BY <1>1, <3>2, <4>1, <4>2 DEF AddStage, Restaged, AddedTo, TypeOK
      <3> QED BY <3>1, <3>2
    <2> QED BY <1>1, <1>4, <2>1, <2>2, LandedEffect, LandedList DEF FinishPark, env
  <1>5. CASE FinishClaim(t)
    BY <1>1, <1>5, FinishClaimEffect DEF FinishClaim, AddedTo, env
  <1> QED BY <1>2, <1>3, <1>4, <1>5

LEMMA QuietFrame ==
  ASSUME TypeOK, LaneInv, NEW t \in Ticks,
         Quiet(t)
  PROVE  /\ UNCHANGED forge /\ UNCHANGED <<kills, unblocks, reaps>>
         /\ tick[t].move = "none" /\ tick'[t].move = "none" /\ tick'[t].on = 0
         /\ Listed(t)' \subseteq Listed(t)
         /\ \/ Count(t) /\ tick[t].at = "count" /\ tick'[t].at = "claim"
            \/ tick'[t].at \in {"ask", "spawn", "post", "idle"}
  <1>1. tick[t].move = "none" /\ tick[t].on = 0
    BY DEF Quiet, ResumeSelect, ResumeNotify, ResumeAsked, Count, ClaimDone, Post, EndTick,
           StageDone, LaneInv, LaneOf, PhaseOf
  <1>2. CASE tick'[t] = IdleTick
    BY <1>1, <1>2, QuietEffect DEF IdleTick, Listed, Empty
  <1>3. CASE tick'[t] # IdleTick
    BY <1>1, <1>3, QuietEffect DEF Count
  <1> QED BY <1>2, <1>3

LEMMA TickStepLane ==
  ASSUME TypeOK, LaneInv, ForcedTicks = {}, ~ForgeFaults, NEW t \in Ticks, TickStep(t)
  PROVE  LaneInv'
  <1>0. Listed(t) \subseteq Issues
    BY TickTypes
  <1>1. CASE Entering(t)
    <2>1. stage' = stage
      BY <1>1, EnterFrame
    <2>2. LaneOf(t)'
      BY <1>1, EnterFrame DEF LaneInv, LaneOf
    <2> QED BY <2>1, <2>2, LaneLoop DEF LaneInv
  <1>2. CASE ReapSkip(t) \/ ReconcileSkip(t) \/ ClaimPaused(t) \/ ClaimMerged(t)
    <2>1. stage' = stage
      BY <1>2, SkipFrame
    <2>2. LaneOf(t)'
      BY <1>2, SkipFrame DEF LaneInv, LaneOf
    <2> QED BY <2>1, <2>2, LaneLoop DEF LaneInv
  <1>3. CASE ReapRemove(t) \/ ReconcileRemove(t) \/ ClaimRemove(t)
    <2>1. PICK i \in Listed(t), m \in {"reap", "exhaust", "reconcile", "claim", "park"} :
            Leave(t, i, m) /\ tick[t].at = PhaseOf(m) /\ Restaged(i, RemovedFrom(i, m))
      BY <1>3, RemoveFrame
    <2>2. /\ tick'[t].at = tick[t].at /\ Listed(t)' = Listed(t) \ {i}
          /\ tick'[t].move = m /\ tick'[t].on = i
      BY <2>1, LeaveEffect
    <2>3. /\ i \in Issues /\ stage'[i] = RemovedFrom(i, m)
          /\ \A j \in Issues \ {i} : stage'[j] = stage[j]
      BY <2>1 DEF Restaged
    <2>4. m \in {"reap", "exhaust", "claim"} => Exclusive(i)'
      BY <2>1, <2>3 DEF LaneInv, LaneOf, Exclusive, PhaseOf, RemovedFrom
    <2>5. LaneOf(t)'
      BY <1>0, <2>1, <2>2, <2>3, <2>4 DEF LaneInv, LaneOf
    <2>6. \A j \in Issues : ~({"revisada", "em_implementacao"} \subseteq stage'[j])
      BY <2>3 DEF LaneInv, RemovedFrom
    <2> QED BY <2>5, <2>6, LaneLoop
  <1>4. CASE FinishReap(t) \/ FinishReconcile(t) \/ FinishPark(t) \/ FinishClaim(t)
    <2>1. PICK i : i = tick[t].on
      OBVIOUS
    <2>2. /\ tick[t].move # "none" /\ tick'[t].move = "none" /\ tick'[t].on = 0
          /\ tick'[t].at = tick[t].at /\ Listed(t)' = Listed(t)
          /\ i \in Issues /\ stage'[i] = AddedTo(t)
          /\ \A j \in Issues \ {i} : stage'[j] = stage[j]
      BY <1>4, <2>1, FinishFrame DEF Restaged, Listed
    <2>3. LaneOf(t)'
      BY <1>0, <2>1, <2>2 DEF LaneInv, LaneOf
    <2>4. stage'[i] = stage[i] \/ stage'[i] = stage[i] \cup {"em_pr"}
            \/ (Exclusive(i) /\ stage'[i] \in {stage[i] \cup {"revisada"},
                                               stage[i] \cup {"em_implementacao"}})
      BY <2>1, <2>2 DEF LaneInv, LaneOf, AddedTo
    <2>5. \A j \in Issues : ~({"revisada", "em_implementacao"} \subseteq stage'[j])
      BY <2>2, <2>4 DEF LaneInv, Exclusive
    <2> QED BY <2>3, <2>5, LaneLoop
  <1>5. CASE Quiet(t)
    <2>1. stage' = stage
      BY <1>5, QuietFrame DEF forge
    <2>2. LaneOf(t)'
      BY <1>5, <2>1, QuietFrame DEF LaneInv, LaneOf
    <2> QED BY <2>1, <2>2, LaneLoop DEF LaneInv
  <1> QED BY <1>1, <1>2, <1>3, <1>4, <1>5 DEF TickStep, Entering, Quiet

\* A resume task adds em_pr, removes em_implementacao and blocks, nothing else.
LEMMA BgStage ==
  ASSUME TypeOK, NEW i \in Issues, NEW t \in Ticks, BgStep(i, t)
  PROVE  /\ UNCHANGED <<own, attempt, reaps, tick>>
         /\ bg[i][t] # "none"
         /\ \A j \in Issues : /\ blocked[j] => blocked'[j]
                              /\ stage'[j] \in {stage[j], stage[j] \cup {"em_pr"},
                                                stage[j] \ {"em_implementacao"}}
  <1>1. CASE BgConcluded(i, t) \/ BgConclude(i, t)
    <2>1. /\ \E ok : AddStage(i, "em_pr", ok) \/ RemoveStage(i, "em_implementacao", ok)
          /\ UNCHANGED <<own, attempt, reaps, tick, blocked>> /\ bg[i][t] # "none"
      BY <1>1 DEF BgConcluded, BgConclude, Answered, env
    <2> QED BY <2>1 DEF AddStage, RemoveStage, TypeOK
  <1>2. CASE BgBlocks(i, t) \/ BgFailedTwice(i, t)
    <2>1. /\ \E ok : Block(i, ok)
          /\ UNCHANGED <<own, attempt, reaps, tick, stage>> /\ bg[i][t] # "none"
      BY <1>2 DEF BgBlocks, BgFailedTwice, Answered, Unanswered, env
    <2> QED BY <2>1 DEF Block, TypeOK
  <1>3. CASE \/ BgAccepted(i, t) \/ BgStillRunning(i, t) \/ BgLeaseRefused(i, t)
             \/ BgIncomplete(i, t) \/ BgNotOpen(i, t) \/ BgFailed(i, t)
             \/ BgAuthExpired(i, t)
    BY <1>3 DEF BgAccepted, BgStillRunning, BgLeaseRefused, BgIncomplete, BgNotOpen,
                BgFailed, BgAuthExpired, Answered, Unanswered, forge, env
  <1> QED BY <1>1, <1>2, <1>3 DEF BgStep

LEMMA NextLane ==
  ASSUME TypeOK, LaneInv, ForcedTicks = {}, ~ForgeFaults, [Next]_vars
  PROVE  LaneInv'
  <1>1. ASSUME NEW i \in Issues, NEW u \in Ticks, BgStep(i, u) PROVE LaneInv'
    <2>1. /\ UNCHANGED tick
          /\ \A j \in Issues : stage'[j] \in {stage[j], stage[j] \cup {"em_pr"},
                                              stage[j] \ {"em_implementacao"}}
      BY <1>1, BgStage
    <2>2. ASSUME NEW t \in Ticks PROVE LaneOf(t)'
      <3>1. Listed(t)' = Listed(t) /\ Listed(t) \subseteq Issues
        BY <2>1, TickTypes DEF Listed
      <3>2. tick[t].move # "none" => tick[t].on \in Issues
        BY MoveTypes
      <3>3. ASSUME tick[t].move \in {"reap", "exhaust", "claim"} PROVE Exclusive(tick[t].on)'
        BY <2>1, <3>2, <3>3 DEF LaneInv, LaneOf, Exclusive
      <3> QED BY <2>1, <3>1, <3>3 DEF LaneInv, LaneOf
    <2> QED BY <2>1, <2>2 DEF LaneInv
  <1>2. ASSUME NEW i \in Issues, \/ WorkerOpensPr(i) \/ SessionEnds(i) \/ GrowsStale(i)
                                 \/ PauseEnds(i) \/ PrMerged(i) \/ Unblock(i)
        PROVE  LaneInv'
    <2>1. UNCHANGED <<stage, tick>>
      BY <1>2 DEF WorkerOpensPr, SessionEnds, GrowsStale, PauseEnds, PrMerged, Unblock,
                  forge, memory
    <2> QED BY <2>1 DEF LaneInv, LaneOf, Exclusive, Listed
  <1>3. ASSUME Kill PROVE LaneInv'
    BY <1>3 DEF Kill, forge, LaneInv, LaneOf, IdleTick, Listed, Empty
  <1>4. CASE UNCHANGED vars
    BY <1>4 DEF vars, forge, memory, LaneInv, LaneOf, Exclusive, Listed
  <1> QED BY <1>1, <1>2, <1>3, <1>4, TickStepLane DEF Next, ForceTick

LEMMA InitLane == Init => LaneInv
  BY DEF Init, LaneInv, LaneOf, IdleTick, Listed, Empty

-----------------------------------------------------------------------------
(* The reaper's count *)

\* i is between the two halves of a release or of the final block.
Reaping(i) == \E t \in Ticks : tick[t].move \in {"reap", "exhaust"} /\ tick[t].on = i

\* The label counts the releases, and an issue released MaxReaps times is out of
\* both stages for good (it is blocked, and stays out when a human unblocks it).
IssueCount(i) ==
    /\ Reaping(i) \/ attempt[i] = reaps[i]
    /\ reaps[i] <= MaxReaps
    /\ reaps[i] = MaxReaps => Exclusive(i)

\* The listing knows the exact count, and the two halves of a release agree.
TickCount(t) ==
    /\ tick[t].at = "reap" =>
          \A i \in Listed(t) : tick[t].list[i] = reaps[i] /\ reaps[i] < MaxReaps
    /\ tick[t].move \in {"reap", "exhaust"} =>
          /\ attempt[tick[t].on] = 0
          /\ tick[t].next = reaps[tick[t].on]
          /\ tick[t].move = "reap" <=> reaps[tick[t].on] < MaxReaps
    /\ tick[t].move = "claim" => reaps[tick[t].on] < MaxReaps

CountInv == /\ \A i \in Issues : IssueCount(i)
            /\ \A t \in Ticks : TickCount(t)

LEMMA CountTypes ==
  ASSUME TypeOK, NEW i \in Issues
  PROVE  /\ attempt[i] \in Nat /\ reaps[i] \in Nat /\ MaxReaps \in Nat \ {0}
         /\ attempt[i] <= MaxReaps
  BY BoundsAssumption DEF TypeOK

\* Where neither count changes and no release is going on.
LEMMA CountFrame ==
  ASSUME LaneInv, CountInv, ForcedTicks = {}, NEW t \in Ticks,
         tick[t].move \notin {"reap", "exhaust"},
         UNCHANGED <<attempt, reaps>>,
         \A i \in Issues : reaps[i] = MaxReaps => Exclusive(i)',
         TickCount(t)'
  PROVE  CountInv'
  <1>1. \A i \in Issues : attempt[i] = reaps[i] /\ reaps[i] <= MaxReaps
    BY OneTick DEF CountInv, IssueCount, Reaping
  <1>2. \A i \in Issues : IssueCount(i)'
    BY <1>1 DEF IssueCount
  <1> QED BY <1>2, OneTick DEF CountInv

LEMMA ReapRemoveCount ==
  ASSUME TypeOK, LaneInv, CountInv, ForcedTicks = {}, ~ForgeFaults, NEW t \in Ticks,
         ReapRemove(t)
  PROVE  CountInv'
  <1>1. tick[t].at = "reap" /\ tick[t].move = "none"
    BY DEF ReapRemove, Working
  <1>2. PICK i \in Listed(t) :
           LET n == tick[t].list[i]
               m == IF Exhausted(n) THEN "exhaust" ELSE "reap"
           IN  /\ Restaged(i, stage[i] \ {"em_implementacao"})
               /\ attempt' = [attempt EXCEPT ![i] = IF attempt[i] = n THEN 0 ELSE attempt[i]]
               /\ reaps' = [reaps EXCEPT ![i] =
                                 IF reaps[i] > MaxReaps THEN reaps[i] ELSE reaps[i] + 1]
               /\ Leave(t, i, m)
    BY ReapRemoveEffect
  <1> DEFINE n == tick[t].list[i]
             m == IF Exhausted(n) THEN "exhaust" ELSE "reap"
  <1>3. /\ i \in Issues /\ n = reaps[i] /\ reaps[i] < MaxReaps
        /\ Listed(t) \subseteq Issues
    BY <1>1, TickTypes DEF CountInv, TickCount
  <1>4. \A j \in Issues : attempt[j] = reaps[j] /\ reaps[j] <= MaxReaps
    BY <1>1, OneTick DEF CountInv, IssueCount, Reaping
  <1>5. /\ attempt'[i] = 0 /\ reaps'[i] = reaps[i] + 1
        /\ \A j \in Issues \ {i} : attempt'[j] = attempt[j] /\ reaps'[j] = reaps[j]
    BY <1>2, <1>3, <1>4, CountTypes DEF TypeOK
  <1>6. /\ tick'[t].at = "reap" /\ Listed(t)' = Listed(t) \ {i}
        /\ tick'[t].move = m /\ tick'[t].on = i /\ m \in {"reap", "exhaust"}
        /\ tick'[t].next = NextCount(n)
        /\ \A j \in Listed(t)' : tick'[t].list[j] = tick[t].list[j]
    BY <1>1, <1>2, LeaveEffect, LeaveList
  <1>7. NextCount(n) = reaps[i] + 1 /\ (m = "reap" <=> reaps[i] + 1 < MaxReaps)
    BY <1>3, CountTypes DEF NextCount, Exhausted
  <1>8. Exclusive(i)'
    BY <1>1, <1>2, <1>3 DEF LaneInv, LaneOf, Exclusive, Restaged
  <1>9. ASSUME NEW j \in Issues PROVE IssueCount(j)'
    <2>1. CASE j = i
      BY <1>3, <1>5, <1>6, <1>8, <2>1, CountTypes DEF IssueCount, Reaping
    <2>2. CASE j # i
      <3>1. stage'[j] = stage[j]
        BY <1>2, <2>2 DEF Restaged
      <3> QED BY <1>4, <1>5, <2>2, <3>1 DEF CountInv, IssueCount, Exclusive
    <2> QED BY <2>1, <2>2
  <1>10. TickCount(t)'
    <2>1. \A j \in Listed(t)' : tick'[t].list[j] = reaps'[j] /\ reaps'[j] < MaxReaps
      BY <1>1, <1>3, <1>5, <1>6 DEF CountInv, TickCount
    <2>2. m # "claim"
      BY <1>6
    <2> HIDE DEF m, n
    <2> QED BY <1>5, <1>6, <1>7, <2>1, <2>2 DEF TickCount
  <1> QED BY <1>9, <1>10, OneTick DEF CountInv

LEMMA FinishReapCount ==
  ASSUME TypeOK, LaneInv, CountInv, ForcedTicks = {}, ~ForgeFaults, NEW t \in Ticks,
         FinishReap(t)
  PROVE  CountInv'
  <1>1. PICK i : i = tick[t].on
    OBVIOUS
  <1>2. /\ tick[t].move \in {"reap", "exhaust"} /\ i \in Issues
        /\ Listed(t) \subseteq Issues
    BY <1>1, MoveTypes, TickTypes DEF FinishReap
  <1>3. /\ attempt[i] = 0 /\ tick[t].next = reaps[i]
        /\ tick[t].move = "reap" <=> reaps[i] < MaxReaps
        /\ \A j \in Issues \ {i} : attempt[j] = reaps[j]
        /\ \A j \in Issues : reaps[j] <= MaxReaps
    BY <1>1, <1>2, OneTick DEF CountInv, TickCount, IssueCount, Reaping
  <1>4. attempt' = [attempt EXCEPT ![i] = IF tick[t].next > attempt[i] THEN tick[t].next
                                          ELSE attempt[i]]
    BY <1>1, FinishReapEffect
  <1>5. /\ attempt'[i] = reaps[i] /\ UNCHANGED reaps
        /\ \A j \in Issues \ {i} : attempt'[j] = attempt[j]
    BY <1>2, <1>3, <1>4, CountTypes, FinishFrame DEF TypeOK
  <1>6. /\ tick'[t].move = "none" /\ tick'[t].at = tick[t].at
        /\ tick'[t].list = tick[t].list /\ Listed(t)' = Listed(t)
    BY FinishFrame DEF Listed
  <1>7. /\ \A j \in Issues \ {i} : stage'[j] = stage[j]
        /\ stage'[i] = stage[i] \/ reaps[i] < MaxReaps
    BY <1>1, <1>3, FinishReapEffect DEF Restaged
  <1>8. ASSUME NEW j \in Issues PROVE IssueCount(j)'
    <2>1. reaps'[j] = MaxReaps => stage'[j] = stage[j]
      BY <1>2, <1>5, <1>7, <1>8, CountTypes
    <2>2. attempt'[j] = reaps'[j] /\ reaps'[j] <= MaxReaps
      BY <1>3, <1>5
    <2> QED BY <1>5, <2>1, <2>2 DEF CountInv, IssueCount, Exclusive
  <1>9. TickCount(t)'
    BY <1>5, <1>6 DEF CountInv, TickCount
  <1> QED BY <1>8, <1>9, OneTick DEF CountInv

LEMMA TickStepCount ==
  ASSUME TypeOK, LaneInv, CountInv, ForcedTicks = {}, ~ForgeFaults, NEW t \in Ticks,
         TickStep(t)
  PROVE  CountInv'
  <1>0. Listed(t) \subseteq Issues
    BY TickTypes
  <1>1. CASE Entering(t)
    <2>1. /\ tick[t].move = "none" /\ tick'[t].move = "none"
          /\ UNCHANGED <<stage, attempt, reaps>>
      BY <1>1, EnterFrame
    <2>2. \A i \in Issues : reaps[i] = MaxReaps => Exclusive(i)'
      BY <2>1 DEF CountInv, IssueCount, Exclusive
    <2>3. ASSUME tick'[t].at = "reap", NEW i \in Listed(t)'
          PROVE  tick'[t].list[i] = reaps'[i] /\ reaps'[i] < MaxReaps
      <3>1. i \in Issues /\ "em_implementacao" \in stage[i] /\ tick'[t].list[i] = attempt[i]
        BY <1>1, <2>3, EnterFrame
      <3>2. attempt[i] = reaps[i] /\ reaps[i] # MaxReaps /\ reaps[i] <= MaxReaps
        BY <2>1, <3>1, OneTick DEF CountInv, IssueCount, Reaping, Exclusive
      <3> QED BY <2>1, <3>1, <3>2, CountTypes
    <2>4. TickCount(t)'
      BY <2>1, <2>3 DEF TickCount
    <2> QED BY <2>1, <2>2, <2>4, CountFrame
  <1>2. CASE ReapSkip(t) \/ ReconcileSkip(t) \/ ClaimPaused(t) \/ ClaimMerged(t)
    <2>1. /\ tick[t].move = "none" /\ tick'[t].move = "none"
          /\ UNCHANGED <<stage, attempt, reaps>>
      BY <1>2, SkipFrame
    <2>2. \A i \in Issues : reaps[i] = MaxReaps => Exclusive(i)'
      BY <2>1 DEF CountInv, IssueCount, Exclusive
    <2>3. TickCount(t)'
      BY <1>2, <2>1, SkipFrame DEF CountInv, TickCount
    <2> QED BY <2>1, <2>2, <2>3, CountFrame
  <1>3. CASE ReconcileRemove(t) \/ ClaimRemove(t)
    <2>1. ~ReapRemove(t)
      BY <1>3 DEF ReapRemove, ReconcileRemove, ClaimRemove, Working
    <2>2. PICK i \in Listed(t), m \in {"reap", "exhaust", "reconcile", "claim", "park"} :
            Leave(t, i, m) /\ tick[t].at = PhaseOf(m) /\ Restaged(i, RemovedFrom(i, m))
      BY <1>3, RemoveFrame
    <2>3. tick[t].move = "none" /\ UNCHANGED <<attempt, reaps>>
      BY <1>3, <2>1, RemoveFrame
    <2>4. /\ tick'[t].move = m /\ tick'[t].on = i /\ tick'[t].at = tick[t].at
          /\ tick[t].at \in {"reconcile", "claim"}
      BY <1>3, <2>2, LeaveEffect DEF ReconcileRemove, ClaimRemove, Working
    <2>5. /\ i \in Issues /\ stage'[i] \subseteq stage[i]
          /\ \A j \in Issues \ {i} : stage'[j] = stage[j]
      BY <2>2 DEF Restaged, RemovedFrom
    <2>6. \A j \in Issues : reaps[j] = MaxReaps => Exclusive(j)'
      BY <2>5 DEF CountInv, IssueCount, Exclusive
    <2>7. m = "claim" => reaps[i] < MaxReaps
      <3> SUFFICES ASSUME m = "claim" PROVE reaps[i] < MaxReaps
        OBVIOUS
      <3>1. "revisada" \in stage[i]
        BY <2>2 DEF LaneInv, LaneOf, PhaseOf
      <3>2. reaps[i] # MaxReaps /\ reaps[i] <= MaxReaps
        BY <2>5, <3>1 DEF CountInv, IssueCount, Exclusive
      <3> QED BY <2>5, <3>2, CountTypes
    <2>8. m \notin {"reap", "exhaust"}
      BY <2>2, <2>4 DEF PhaseOf
    <2>9. TickCount(t)'
      BY <2>3, <2>4, <2>7, <2>8 DEF TickCount
    <2> QED BY <2>3, <2>6, <2>9, CountFrame
  <1>4. CASE FinishReconcile(t) \/ FinishPark(t) \/ FinishClaim(t)
    <2>1. /\ tick[t].move \notin {"reap", "exhaust"} /\ tick'[t].move = "none"
          /\ tick'[t].at = tick[t].at /\ tick'[t].list = tick[t].list
          /\ Listed(t)' = Listed(t)
      BY <1>4, FinishFrame DEF FinishReconcile, FinishPark, FinishClaim, Listed
    <2>2. UNCHANGED <<attempt, reaps>>
      BY <1>4, <2>1, FinishFrame
    <2>3. ASSUME NEW j \in Issues, reaps[j] = MaxReaps PROVE Exclusive(j)'
      <3>1. Exclusive(j)
        BY <2>3 DEF CountInv, IssueCount
      <3>2. stage'[j] \in {stage[j], stage[j] \cup {"em_pr"}}
        <4>1. tick[t].move = "claim" => j # tick[t].on
          BY <2>3, CountTypes DEF CountInv, TickCount
        <4> QED BY <1>4, <2>1, <4>1, FinishFrame DEF Restaged, AddedTo
      <3> QED BY <3>1, <3>2 DEF Exclusive
    <2>4. TickCount(t)'
      BY <2>1, <2>2 DEF CountInv, TickCount
    <2> QED BY <2>1, <2>2, <2>3, <2>4, CountFrame
  <1>5. CASE Quiet(t)
    <2>1. /\ UNCHANGED <<stage, attempt, reaps>>
          /\ tick[t].move = "none" /\ tick'[t].move = "none"
          /\ tick'[t].at # "reap"
      BY <1>5, QuietFrame DEF forge
    <2>2. \A i \in Issues : reaps[i] = MaxReaps => Exclusive(i)'
      BY <2>1 DEF CountInv, IssueCount, Exclusive
    <2>3. TickCount(t)'
      BY <2>1 DEF TickCount
    <2> QED BY <2>1, <2>2, <2>3, CountFrame
  <1> QED BY <1>1, <1>2, <1>3, <1>4, <1>5, ReapRemoveCount, FinishReapCount
          DEF TickStep, Entering, Quiet

LEMMA NextCounts ==
  ASSUME TypeOK, LaneInv, CountInv, ForcedTicks = {}, ~ForgeFaults, MaxKills = 0,
         [Next]_vars
  PROVE  CountInv'
  <1>1. ASSUME NEW i \in Issues, NEW u \in Ticks, BgStep(i, u) PROVE CountInv'
    <2>1. /\ UNCHANGED <<attempt, reaps, tick>>
          /\ \A j \in Issues : stage'[j] \in {stage[j], stage[j] \cup {"em_pr"},
                                              stage[j] \ {"em_implementacao"}}
      BY <1>1, BgStage
    <2>2. \A j \in Issues : Exclusive(j) => Exclusive(j)'
      BY <2>1 DEF Exclusive
    <2>3. \A j \in Issues : IssueCount(j)'
      BY <2>1, <2>2 DEF CountInv, IssueCount, Reaping
    <2> QED BY <2>1, <2>3 DEF CountInv, TickCount, Listed
  <1>2. ASSUME NEW i \in Issues, \/ WorkerOpensPr(i) \/ SessionEnds(i) \/ GrowsStale(i)
                                 \/ PauseEnds(i) \/ PrMerged(i) \/ Unblock(i)
        PROVE  CountInv'
    <2>1. UNCHANGED <<stage, attempt, reaps, tick>>
      BY <1>2 DEF WorkerOpensPr, SessionEnds, GrowsStale, PauseEnds, PrMerged, Unblock,
                  forge, memory, env
    <2> QED BY <2>1 DEF CountInv, IssueCount, Reaping, TickCount, Exclusive, Listed
  <1>3. ~Kill
    BY DEF Kill, TypeOK
  <1>4. CASE UNCHANGED vars
    BY <1>4 DEF vars, forge, memory, env, CountInv, IssueCount, Reaping, TickCount,
                Exclusive, Listed
  <1> QED BY <1>1, <1>2, <1>3, <1>4, TickStepCount DEF Next, ForceTick

LEMMA CountsHold ==
  ASSUME ForcedTicks = {}, ~ForgeFaults, MaxKills = 0
  PROVE  Spec => []CountInv
  <1>1. Init => CountInv
    <2> SUFFICES ASSUME Init PROVE CountInv
      OBVIOUS
    <2>1. \A t \in Ticks : tick[t].at = "idle" /\ tick[t].move = "none"
      BY DEF Init, IdleTick
    <2>2. \A i \in Issues : attempt[i] = 0 /\ reaps[i] = 0
      BY DEF Init
    <2> QED BY <2>1, <2>2, Bounds DEF CountInv, IssueCount, TickCount
  <1>2. TypeOK /\ LaneInv /\ [Next]_vars => LaneInv'
    BY NextLane
  <1>3. TypeOK /\ LaneInv /\ CountInv /\ [Next]_vars => CountInv'
    BY NextCounts
  <1> QED BY <1>1, <1>2, <1>3, InitLane, TypeCorrect, PTL DEF Spec

\* ~attempt:N is exactly the number of times the reaper released the issue,
\* with any number of human unblocks and with the automatic resume running next
\* to it.  It needs one tick coroutine, a pod that stays up (a restart between
\* the two halves of a release forgets the count) and a forge that answers.
THEOREM AttemptIsExact ==
  ASSUME ForcedTicks = {}, ~ForgeFaults, MaxKills = 0
  PROVE  Spec => []AttemptCountsReaps
  <1>1. CountInv => AttemptCountsReaps
    BY DEF CountInv, IssueCount, AttemptCountsReaps, Moving, Reaping
  <1> QED BY <1>1, CountsHold, PTL

\* So the reaper releases an issue reaper_max_attempts times at most, also when
\* a human unblocks it afterwards.
THEOREM ReaperGivesUp ==
  ASSUME ForcedTicks = {}, ~ForgeFaults, MaxKills = 0
  PROVE  Spec => []ReapsBounded
  <1>1. CountInv => ReapsBounded
    BY DEF CountInv, IssueCount, ReapsBounded
  <1> QED BY <1>1, CountsHold, PTL

-----------------------------------------------------------------------------
(* Capacity *)

\* The first n of a finite set of numbers are at most n.
LEMMA FirstN ==
  ASSUME NEW S \in SUBSET Nat, IsFiniteSet(S), NEW n \in Nat
  PROVE  Cardinality({i \in S : Cardinality({j \in S : j < i}) < n}) <= n
  <1> DEFINE below(i) == {j \in S : j < i}
             B == {i \in S : Cardinality(below(i)) < n}
             f == [i \in B |-> Cardinality(below(i)) + 1]
  <1>1. \A i \in S : IsFiniteSet(below(i)) /\ Cardinality(below(i)) \in Nat
    <2> SUFFICES ASSUME NEW i \in S
                 PROVE  IsFiniteSet(below(i)) /\ Cardinality(below(i)) \in Nat
      OBVIOUS
    <2>1. below(i) \in SUBSET S
      OBVIOUS
    <2> HIDE DEF below
    <2> QED BY <2>1, FS_Subset, FS_CardinalityType
  <1>2. IsFiniteSet(B) /\ Cardinality(B) \in Nat
    <2>1. B \in SUBSET S
      OBVIOUS
    <2> HIDE DEF B
    <2> QED BY <2>1, FS_Subset, FS_CardinalityType
  <1>3. ASSUME NEW i \in S, NEW k \in S, i < k
        PROVE  Cardinality(below(i)) < Cardinality(below(k))
    <2>0. ~(i < i) /\ \A j \in S : j < i => j < k
      <3>1. \A j \in S : j \in Nat
        OBVIOUS
      <3> QED BY <1>3, <3>1
    <2>1. below(i) \cup {i} \in SUBSET below(k) /\ i \notin below(i)
      BY <1>3, <2>0, Zenon
    <2> HIDE DEF below
    <2>2. Cardinality(below(i) \cup {i}) = Cardinality(below(i)) + 1
      BY <1>1, <2>1, FS_AddElement
    <2>3. Cardinality(below(i) \cup {i}) <= Cardinality(below(k))
      BY <1>1, <2>1, FS_Subset
    <2> QED BY <1>1, <2>2, <2>3
  <1>4. f \in [B -> 1..n]
    <2>1. \A i \in B : Cardinality(below(i)) \in Nat /\ Cardinality(below(i)) < n
      BY <1>1
    <2> HIDE DEF below, B
    <2> QED BY <2>1
  <1>5. \A i, k \in B : i # k => f[i] # f[k]
    <2> SUFFICES ASSUME NEW i \in B, NEW k \in B, i # k PROVE f[i] # f[k]
      OBVIOUS
    <2>1. i \in S /\ k \in S /\ i \in Nat /\ k \in Nat
      OBVIOUS
    <2>2. Cardinality(below(i)) # Cardinality(below(k))
      <3>1. i < k \/ k < i
        BY <2>1
      <3> HIDE DEF below, B
      <3> QED BY <1>1, <1>3, <2>1, <3>1
    <2> HIDE DEF below
    <2> QED BY <1>1, <2>1, <2>2
  <1>6. IsFiniteSet(1..n) /\ Cardinality(1..n) = n
    <2>1. IsFiniteSet(1..n) /\ Cardinality(1..n) = IF 1 > n THEN 0 ELSE n - 1 + 1
      BY FS_Interval
    <2> QED BY <2>1
  <1> HIDE DEF f, B
  <1>7. ~(n < Cardinality(B))
    BY <1>2, <1>4, <1>5, <1>6, FS_PigeonHole
  <1>8. Cardinality(B) <= n
    BY <1>2, <1>7
  <1> QED BY <1>8 DEF B

\* The issues of the batch that a tick has not yet claimed.
Heading == {i \in Issues : \E t \in Ticks : /\ tick[t].at = "claim"
                                            /\ i \in Listed(t) \/ tick[t].on = i}

\* The batch has its slots from the moment it is counted.  A human unblock does
\* not bring an issue back in flight: without the automatic resume, what is
\* blocked is out of em_implementacao.
CapacityInv ==
    /\ Cardinality(InFlightIssues \cup Heading) <= MaxParallel
    /\ MaxUnblocks = 0 \/ \A i \in Issues : blocked[i] => "em_implementacao" \notin stage[i]

LEMMA FiniteIssues ==
  ASSUME NEW S \in SUBSET Issues
  PROVE  IsFiniteSet(S) /\ Cardinality(S) \in Nat
  BY IssuesAssumption, FS_Subset, FS_CardinalityType

\* Every step but Count keeps the set the bound is about, or shrinks it.
LEMMA Shrinks ==
  ASSUME CapacityInv, (InFlightIssues \cup Heading)' \subseteq InFlightIssues \cup Heading
  PROVE  (Cardinality(InFlightIssues \cup Heading) <= MaxParallel)'
  <1> DEFINE A == InFlightIssues \cup Heading
             B == (InFlightIssues \cup Heading)'
  <1>1. A \in SUBSET Issues /\ B \in SUBSET A
    BY DEF InFlightIssues, Heading
  <1>2. Cardinality(A) <= MaxParallel
    BY DEF CapacityInv
  <1> HIDE DEF A, B
  <1>3. Cardinality(B) <= Cardinality(A) /\ Cardinality(A) \in Nat /\ Cardinality(B) \in Nat
    BY <1>1, FS_Subset, FiniteIssues
  <1>4. Cardinality(B) <= MaxParallel
    BY <1>2, <1>3, BoundsAssumption
  <1> QED BY <1>4 DEF B

LEMMA CountCapacity ==
  ASSUME TypeOK, LaneInv, CapacityInv, ForcedTicks = {}, ~ForgeFaults, NEW t \in Ticks,
         Count(t)
  PROVE  (Cardinality(InFlightIssues \cup Heading) <= MaxParallel)'
  <1> DEFINE n == Slots(TRUE)
             batch == {i \in Listed(t) : Cardinality({j \in Listed(t) : j < i}) < n}
  <1>1. Listed(t) \in SUBSET Issues /\ Listed(t) \in SUBSET Nat /\ IsFiniteSet(Listed(t))
    BY TickTypes, IssuesAssumption, FiniteIssues
  <1>2. /\ Cardinality(InFlightIssues) \in Nat /\ MaxParallel \in Nat /\ n \in Nat
        /\ InFlightIssues \in SUBSET Issues /\ batch \in SUBSET Issues
        /\ n > 0 => n + Cardinality(InFlightIssues) = MaxParallel
    <2>1. InFlightIssues \in SUBSET Issues
      BY DEF InFlightIssues
    <2> QED BY <1>1, <2>1, FiniteIssues, BoundsAssumption DEF Slots
  <1>3. Cardinality(batch) <= n
    <2> HIDE DEF n
    <2> QED BY <1>1, <1>2, FirstN
  <1>4. Listed(t)' = batch /\ tick'[t].on = tick[t].on
    <2>1. tick' = [tick EXCEPT ![t].at = "claim",
                               ![t].list = [i \in batch |-> tick[t].list[i]]]
      <3>1. PICK ok \in ForgeOk :
              LET b == {i \in Listed(t) :
                          Cardinality({j \in Listed(t) : j < i}) < Slots(ok)}
              IN  tick' = [tick EXCEPT ![t].at = "claim",
                                       ![t].list = [i \in b |-> tick[t].list[i]]]
        BY DEF Count
      <3>2. ok = TRUE
        BY Faultless
      <3> QED BY <3>1, <3>2
    <2> DEFINE l == [i \in batch |-> tick[t].list[i]]
    <2>2. DOMAIN l = batch
      OBVIOUS
    <2> HIDE DEF l, batch
    <2>3. tick'[t] = [tick[t] EXCEPT !.at = "claim", !.list = l]
      BY <2>1 DEF TypeOK, l
    <2> QED BY <2>2, <2>3, TickTypes DEF Listed, TickStates
  <1>5. tick[t].on = 0
    BY DEF Count, LaneInv, LaneOf, PhaseOf
  <1> HIDE DEF batch, n
  <1>6. Heading' \subseteq batch
    BY <1>4, <1>5, OneTick, IssuesAssumption DEF Heading
  <1>7. InFlightIssues' = InFlightIssues
    BY DEF Count, forge, InFlightIssues
  <1>8. Cardinality(InFlightIssues \cup batch) <= MaxParallel
    <2>1. Cardinality(batch) \in Nat /\ IsFiniteSet(batch) /\ IsFiniteSet(InFlightIssues)
      BY <1>2, FiniteIssues
    <2>2. CASE n > 0
      <3>1. InFlightIssues \cap batch \in SUBSET Issues
        BY <1>2
      <3>2. /\ Cardinality(InFlightIssues \cap batch) \in Nat
            /\ Cardinality(InFlightIssues \cup batch)
                 = Cardinality(InFlightIssues) + Cardinality(batch)
                     - Cardinality(InFlightIssues \cap batch)
        BY <2>1, <3>1, FiniteIssues, FS_Union
      <3> QED BY <1>2, <1>3, <2>1, <2>2, <3>2
    <2>3. CASE ~(n > 0)
      <3>1. batch = {}
        BY <1>2, <1>3, <2>1, <2>3, FS_EmptySet
      <3>2. InFlightIssues \cup batch \in SUBSET (InFlightIssues \cup Heading)
        BY <3>1
      <3>3. InFlightIssues \cup Heading \in SUBSET Issues
        BY DEF InFlightIssues, Heading
      <3> QED BY <1>2, <3>2, <3>3, FS_Subset, FiniteIssues DEF CapacityInv
    <2> QED BY <2>2, <2>3
  <1>9. (InFlightIssues \cup Heading)' \in SUBSET (InFlightIssues \cup batch)
    BY <1>6, <1>7
  <1>10. InFlightIssues \cup batch \in SUBSET Issues
    BY <1>2
  <1>11. Cardinality((InFlightIssues \cup Heading)') <= Cardinality(InFlightIssues \cup batch)
    BY <1>9, <1>10, FS_Subset, FiniteIssues
  <1>12. /\ Cardinality((InFlightIssues \cup Heading)') \in Nat
         /\ Cardinality(InFlightIssues \cup batch) \in Nat
    BY <1>9, <1>10, FiniteIssues
  <1>13. Cardinality((InFlightIssues \cup Heading)') <= MaxParallel
    BY <1>2, <1>8, <1>11, <1>12
  <1> QED BY <1>13

\* What an issue in flight needs in order to have been in flight, or of the
\* batch, before the step.
LEMMA TickStepShrinks ==
  ASSUME TypeOK, LaneInv, ForcedTicks = {}, ~ForgeFaults, NEW t \in Ticks,
         TickStep(t), ~Count(t)
  PROVE  (InFlightIssues \cup Heading)' \subseteq InFlightIssues \cup Heading
  <1>0. Listed(t) \subseteq Issues /\ 0 \notin Issues
    BY TickTypes, IssuesAssumption
  <1>1. CASE Entering(t)
    <2>1. Heading' = {}
      BY <1>1, EnterFrame, OneTick DEF Heading
    <2>2. InFlightIssues' \subseteq InFlightIssues
      BY <1>1, EnterFrame DEF InFlightIssues, LaneInv
    <2> QED BY <2>1, <2>2
  <1>2. CASE ReapSkip(t) \/ ReconcileSkip(t) \/ ClaimPaused(t) \/ ClaimMerged(t)
    <2>1. Heading' \subseteq Heading
      BY <1>0, <1>2, SkipFrame, OneTick DEF Heading
    <2>2. InFlightIssues' \subseteq InFlightIssues
      BY <1>2, SkipFrame DEF InFlightIssues
    <2> QED BY <2>1, <2>2
  <1>3. CASE ReapRemove(t) \/ ReconcileRemove(t) \/ ClaimRemove(t)
    <2>1. PICK i \in Listed(t), m \in {"reap", "exhaust", "reconcile", "claim", "park"} :
            Leave(t, i, m) /\ tick[t].at = PhaseOf(m) /\ Restaged(i, RemovedFrom(i, m))
      BY <1>3, RemoveFrame
    <2>2. /\ tick'[t].at = tick[t].at /\ Listed(t)' = Listed(t) \ {i} /\ tick'[t].on = i
      BY <2>1, LeaveEffect
    <2>3. Heading' \subseteq Heading
      BY <2>1, <2>2, OneTick DEF Heading
    <2>4. \A j \in Issues : /\ stage'[j] \subseteq stage[j]
                            /\ "em_pr" \in stage[j] => "em_pr" \in stage'[j]
                            /\ own'[j] => own[j]
                            /\ blocked'[j] = blocked[j]
      BY <1>3, <2>1, RemoveFrame DEF Restaged, RemovedFrom
    <2>5. InFlightIssues' \subseteq InFlightIssues
      BY <2>4 DEF InFlightIssues
    <2> QED BY <2>3, <2>5
  <1>4. CASE FinishReap(t) \/ FinishReconcile(t) \/ FinishPark(t) \/ FinishClaim(t)
    <2>1. PICK i : i = tick[t].on
      OBVIOUS
    <2>2. /\ tick'[t].at = tick[t].at /\ Listed(t)' = Listed(t) /\ tick'[t].on = 0
          /\ i \in Issues /\ stage'[i] = AddedTo(t)
          /\ \A j \in Issues \ {i} : stage'[j] = stage[j]
          /\ own' = own
          /\ \A j \in Issues : blocked[j] => blocked'[j]
      BY <1>4, <2>1, FinishFrame DEF Restaged, Listed
    <2>3. Heading' \subseteq Heading
      BY <1>0, <2>2, OneTick DEF Heading
    <2>4. tick[t].move = "claim" => i \in Heading
      BY <2>1, <2>2 DEF LaneInv, LaneOf, PhaseOf, Heading
    <2>5. tick[t].move # "claim" =>
            ("em_implementacao" \in stage'[i] => "em_implementacao" \in stage[i])
      BY <2>1, <2>2 DEF AddedTo
    <2>6. "em_pr" \in stage[i] => "em_pr" \in stage'[i]
      BY <2>1, <2>2 DEF AddedTo
    <2>7. InFlightIssues' \subseteq InFlightIssues \cup Heading
      BY <2>2, <2>4, <2>5, <2>6 DEF InFlightIssues
    <2> QED BY <2>3, <2>7
  <1>5. CASE Quiet(t)
    <2>1. Heading' = {}
      <3>1. tick'[t].at \in {"ask", "spawn", "post", "idle"}
        BY <1>5, QuietFrame
      <3> QED BY <3>1, OneTick DEF Heading
    <2>2. InFlightIssues' = InFlightIssues
      BY <1>5, QuietFrame DEF InFlightIssues, forge
    <2> QED BY <2>1, <2>2
  <1> QED BY <1>1, <1>2, <1>3, <1>4, <1>5 DEF TickStep, Entering, Quiet

\* Without the automatic resume, no step leaves an issue blocked in
\* em_implementacao.
LEMMA TickStepBlocks ==
  ASSUME TypeOK, LaneInv, ClaimDiscipline, ForcedTicks = {}, ~ForgeFaults, ~EnableResume,
         \A i \in Issues : blocked[i] => "em_implementacao" \notin stage[i],
         NEW t \in Ticks, TickStep(t)
  PROVE  \A i \in Issues : blocked'[i] => "em_implementacao" \notin stage'[i]
  <1>1. CASE FinishReap(t)
    <2>1. PICK i : i = tick[t].on
      OBVIOUS
    <2>2. i \in Issues /\ Exclusive(i)
      BY <1>1, <2>1, MoveTypes DEF FinishReap, LaneInv, LaneOf
    <2>3. /\ stage'[i] \in {stage[i], stage[i] \cup {"revisada"}}
          /\ \A j \in Issues \ {i} : stage'[j] = stage[j] /\ blocked'[j] = blocked[j]
      BY <1>1, <2>1, FinishReapEffect DEF Restaged
    <2> QED BY <2>2, <2>3 DEF Exclusive
  <1>2. CASE FinishReconcile(t) \/ FinishPark(t) \/ FinishClaim(t)
    <2>1. PICK i : i = tick[t].on
      OBVIOUS
    <2>2. /\ tick[t].move \notin {"reap", "exhaust"} /\ tick[t].move # "none"
          /\ i \in Issues
      BY <1>2, <2>1, MoveTypes DEF FinishReconcile, FinishPark, FinishClaim
    <2>3. /\ stage'[i] = AddedTo(t) /\ blocked' = blocked
          /\ \A j \in Issues \ {i} : stage'[j] = stage[j]
      BY <1>2, <2>1, <2>2, FinishFrame DEF Restaged
    <2>4. tick[t].move = "claim" => ~blocked[i]
      BY <2>1 DEF ClaimDiscipline, TickDiscipline, MoveIsAlone, Undisturbed
    <2> QED BY <2>1, <2>2, <2>3, <2>4 DEF AddedTo
  <1>3. CASE ReapRemove(t) \/ ReconcileRemove(t) \/ ClaimRemove(t)
    <2>1. PICK i \in Listed(t), m \in {"reap", "exhaust", "reconcile", "claim", "park"} :
            Restaged(i, RemovedFrom(i, m))
      BY <1>3, RemoveFrame
    <2>2. UNCHANGED blocked /\ \A j \in Issues : stage'[j] \subseteq stage[j]
      BY <1>3, <2>1, RemoveFrame DEF Restaged, RemovedFrom
    <2> QED BY <2>2
  <1>4. CASE ClaimMerged(t)
    <2>1. PICK i \in Listed(t), ok \in ForgeOk : Block(i, ok)
      BY <1>4 DEF ClaimMerged, Foremost
    <2>2. i \in Issues /\ "em_implementacao" \notin stage[i]
      BY <1>4, <2>1, TickTypes DEF ClaimMerged, Working, LaneInv, LaneOf
    <2>3. stage' = stage /\ \A j \in Issues \ {i} : blocked'[j] = blocked[j]
      BY <1>4, <2>1 DEF ClaimMerged, Block, TypeOK
    <2> QED BY <2>2, <2>3
  <1>5. ~ResumeCeiling(t)
    BY DEF ResumeCeiling, ResumeAsked, ClaimDiscipline, TickDiscipline, ListedStays
  <1>6. CASE \/ Entering(t) /\ ~ResumeCeiling(t)
             \/ ReapSkip(t) \/ ReconcileSkip(t) \/ ClaimPaused(t) \/ Quiet(t)
    <2>1. UNCHANGED <<stage, blocked>>
      BY <1>6, QuietEffect
         DEF Entering, StartTick, ReapDone, ReconcileDone, ResumeNone, ResumePrOpen,
             ResumeSpawn, Fetch, ReapSkip, ReconcileSkip, ClaimPaused, forge
    <2> QED BY <2>1
  <1> QED BY <1>1, <1>2, <1>3, <1>4, <1>5, <1>6 DEF TickStep, Entering, Quiet

LEMMA NextCapacity ==
  ASSUME TypeOK, LaneInv, CapacityInv, EnableResume \/ ClaimDiscipline,
         ForcedTicks = {}, ~ForgeFaults, ~EnableResume \/ MaxUnblocks = 0, [Next]_vars
  PROVE  CapacityInv'
  <1>1. ASSUME NEW t \in Ticks, TickStep(t) PROVE CapacityInv'
    <2>1. (Cardinality(InFlightIssues \cup Heading) <= MaxParallel)'
      BY <1>1, CountCapacity, TickStepShrinks, Shrinks
    <2>2. MaxUnblocks = 0 \/ \A i \in Issues : blocked'[i] => "em_implementacao" \notin stage'[i]
      BY <1>1, TickStepBlocks DEF CapacityInv
    <2> QED BY <2>1, <2>2 DEF CapacityInv
  <1>2. ASSUME NEW i \in Issues, NEW u \in Ticks, BgStep(i, u) PROVE CapacityInv'
    <2>1. /\ UNCHANGED <<own, tick>> /\ bg[i][u] # "none"
          /\ \A j \in Issues : /\ blocked[j] => blocked'[j]
                               /\ stage'[j] \in {stage[j], stage[j] \cup {"em_pr"},
                                                 stage[j] \ {"em_implementacao"}}
      BY <1>2, BgStage
    <2>2. (InFlightIssues \cup Heading)' \subseteq InFlightIssues \cup Heading
      BY <2>1 DEF InFlightIssues, Heading, Listed
    <2>3. EnableResume
      BY <2>1 DEF ClaimDiscipline, IssueDiscipline
    <2> QED BY <2>2, <2>3, Shrinks DEF CapacityInv
  <1>3. ASSUME NEW i \in Issues, \/ WorkerOpensPr(i) \/ SessionEnds(i) \/ GrowsStale(i)
                                 \/ PauseEnds(i) \/ PrMerged(i)
        PROVE  CapacityInv'
    <2>1. UNCHANGED <<stage, blocked, own, tick>>
      BY <1>3 DEF WorkerOpensPr, SessionEnds, GrowsStale, PauseEnds, PrMerged, forge, memory
    <2> QED BY <2>1 DEF CapacityInv, InFlightIssues, Heading, Listed
  <1>4. ASSUME NEW i \in Issues, Unblock(i) PROVE CapacityInv'
    <2>1. /\ UNCHANGED <<stage, own, tick>> /\ blocked[i] /\ MaxUnblocks # 0
          /\ ~blocked'[i] /\ \A j \in Issues \ {i} : blocked'[j] = blocked[j]
      BY <1>4, BoundsAssumption DEF Unblock, memory, TypeOK
    <2>2. "em_implementacao" \notin stage[i]
      BY <2>1 DEF CapacityInv
    <2>3. (InFlightIssues \cup Heading)' \subseteq InFlightIssues \cup Heading
      BY <2>1, <2>2 DEF InFlightIssues, Heading, Listed
    <2> QED BY <2>1, <2>3, Shrinks DEF CapacityInv
  <1>5. ASSUME Kill PROVE CapacityInv'
    <2>1. UNCHANGED <<stage, blocked, own>> /\ \A t \in Ticks : tick'[t].at = "idle"
      BY <1>5 DEF Kill, forge, IdleTick
    <2>2. (InFlightIssues \cup Heading)' \subseteq InFlightIssues \cup Heading
      BY <2>1 DEF InFlightIssues, Heading
    <2> QED BY <2>1, <2>2, Shrinks DEF CapacityInv
  <1>6. CASE UNCHANGED vars
    BY <1>6 DEF vars, forge, memory, CapacityInv, InFlightIssues, Heading, Listed
  <1> QED BY <1>1, <1>2, <1>3, <1>4, <1>5, <1>6 DEF Next, ForceTick

\* However many issues are reviewed, and whatever is released, resumed or killed
\* between the count and the claims, max_parallel bounds the issues in flight.
\* It needs one tick coroutine and a forge that answers (a listing that fails
\* counts none); with the automatic resume, also that nobody unblocks an issue,
\* which then comes back in flight without being counted.
THEOREM CapacityIsKept ==
  ASSUME ForcedTicks = {}, ~ForgeFaults, ~EnableResume \/ MaxUnblocks = 0
  PROVE  Spec => []WithinCapacity
  <1>1. Init => CapacityInv
    <2> SUFFICES ASSUME Init PROVE CapacityInv
      OBVIOUS
    <2>1. InFlightIssues = {} /\ Heading = {}
      BY DEF Init, InFlightIssues, Heading, IdleTick
    <2>2. \A i \in Issues : ~blocked[i]
      BY DEF Init
    <2>3. Cardinality(InFlightIssues \cup Heading) = 0
      BY <2>1, FS_EmptySet
    <2> QED BY <2>2, <2>3, BoundsAssumption DEF CapacityInv
  <1>2. Spec => [](EnableResume \/ ClaimDiscipline)
    <2>1. CASE EnableResume
      BY <2>1, PTL
    <2>2. CASE ~EnableResume
      <3>1. Spec => []ClaimDiscipline
        BY <2>2, ClaimsHold
      <3> QED BY <3>1, PTL
    <2> QED BY <2>1, <2>2
  <1>3. TypeOK /\ LaneInv /\ [Next]_vars => LaneInv'
    BY NextLane
  <1>4. /\ TypeOK /\ LaneInv /\ CapacityInv /\ (EnableResume \/ ClaimDiscipline)
        /\ [Next]_vars
        => CapacityInv'
    BY NextCapacity
  <1>5. TypeOK /\ CapacityInv => WithinCapacity
    <2> SUFFICES ASSUME TypeOK, CapacityInv PROVE WithinCapacity
      OBVIOUS
    <2>1. /\ InFlightIssues \cup Heading \in SUBSET Issues
          /\ InFlightIssues \in SUBSET (InFlightIssues \cup Heading)
      BY DEF InFlightIssues, Heading
    <2>2. Cardinality(InFlightIssues) <= Cardinality(InFlightIssues \cup Heading)
      BY <2>1, FS_Subset, FiniteIssues
    <2>3. /\ Cardinality(InFlightIssues) \in Nat
          /\ Cardinality(InFlightIssues \cup Heading) \in Nat
      BY <2>1, FiniteIssues DEF InFlightIssues
    <2>4. unblocks \in Nat /\ MaxParallel \in Nat
      BY BoundsAssumption DEF TypeOK
    <2>5. Cardinality(InFlightIssues) <= MaxParallel + unblocks
      BY <2>2, <2>3, <2>4 DEF CapacityInv
    <2> QED BY <2>5 DEF WithinCapacity
  <1> QED BY <1>1, <1>2, <1>3, <1>4, <1>5, InitLane, TypeCorrect, PTL DEF Spec

=============================================================================
