------------------------ MODULE WorkspaceLease_proofs ------------------------
(***************************************************************************)
(* What the leases promise, for any pods and requests, with overlapping    *)
(* acquisitions and cleanups, kills, failing reads and late renewals: the  *)
(* promise holds until one of the steps that Recall counts breaks it, and  *)
(* again when the workspace was empty.                                     *)
(***************************************************************************)
EXTENDS WorkspaceLease, TLAPS

USE NoneAssumption

LEMMA PodOfType == \A d \in Dispatches : PodOf(d) \in Pods
BY DEF Dispatches, PodOf

LEMMA TypeInit == Init => TypeOK
<1> SUFFICES ASSUME Init PROVE TypeOK
  OBVIOUS
<1>1. sweep \in BOOLEAN /\ raced \in BOOLEAN /\ broken \in BOOLEAN /\ ghostly \in BOOLEAN
  BY Zenon DEF Init
<1>2. faults \in 0..MaxFaults
  BY BoundsAssumption DEF Init
<1>3. pc \in [Dispatches -> Phases] /\ staged \in [Pods -> Dispatches \cup {None}]
  BY DEF Init, Phases
<1>4. seen \in [Dispatches -> Leases \cup {None}] /\ mark \in [Dispatches -> Leases \cup {None}]
  BY DEF Init
<1>5. lease \in Leases \cup {None} /\ passed \subseteq Dispatches
  BY DEF Init
<1> QED BY <1>1, <1>2, <1>3, <1>4, <1>5 DEF TypeOK

\* The files' and the phases' part of the type invariant.
Typed ==
    /\ lease \in Leases \cup {None}
    /\ staged \in [Pods -> Dispatches \cup {None}]
    /\ pc \in [Dispatches -> Phases]
    /\ seen \in [Dispatches -> Leases \cup {None}]
    /\ mark \in [Dispatches -> Leases \cup {None}]

LEMMA AskedPhase ==
    ASSUME NEW d \in Dispatches, Asked(d)
    PROVE  pc[d] \in {"idle", "dead"} /\ pc' = [pc EXCEPT ![d] = "checked"]
BY Zenon DEF Asked

LEMMA TypedStep ==
    ASSUME Typed, faults \in 0..MaxFaults, Next
    PROVE  Typed' /\ faults' \in 0..MaxFaults
<1> USE PodOfType DEF Typed, Leases, Phases, Acquiring, Working
<1>1. ASSUME NEW d \in Dispatches, Check(d) \/ CheckUnread(d)
      PROVE  Typed' /\ faults' \in 0..MaxFaults
  <2>1. pc' = [pc EXCEPT ![d] = "checked"]
    BY <1>1, AskedPhase DEF Check, CheckUnread
  <2>2. UNCHANGED <<lease, staged, seen, mark>> /\ (faults' = faults \/ Fault)
    BY <1>1 DEF Check, CheckUnread
  <2> QED BY <2>1, <2>2, BoundsAssumption DEF Fault
<1>2. ASSUME NEW d \in Dispatches, WriteFails(d) \/ ConfirmFails(d)
      PROVE  Typed' /\ faults' \in 0..MaxFaults
  <2>1. pc' = [pc EXCEPT ![d] = "idle"] /\ staged' = [staged EXCEPT ![PodOf(d)] = None] /\ Fault
    BY <1>2, Zenon DEF WriteFails, ConfirmFails, Goto
  <2>2. UNCHANGED <<lease, seen, mark>>
    BY <1>2 DEF WriteFails, ConfirmFails
  <2> QED BY <2>1, <2>2, BoundsAssumption DEF Fault
<1>3. ASSUME NEW d \in Dispatches, Write(d) \/ Confirm(d)
      PROVE  Typed' /\ faults' \in 0..MaxFaults
  <2>1. PICK to \in {"written", "setup", "idle"} : pc' = [pc EXCEPT ![d] = to]
    BY <1>3, Zenon DEF Write, Confirm, Goto
  <2>2. PICK by \in Dispatches \cup {None} :
          staged' = [staged EXCEPT ![PodOf(d)] = by] \/ staged' = staged
    BY <1>3 DEF Write, Confirm
  <2>3. UNCHANGED <<lease, seen, mark, faults>>
    BY <1>3 DEF Write, Confirm
  <2> QED BY <2>1, <2>2, <2>3
<1>4. ASSUME NEW d \in Dispatches, Rename(d)
      PROVE  Typed' /\ faults' \in 0..MaxFaults
  <2>1. staged[PodOf(d)] \in Dispatches \cup {None}
    OBVIOUS
  <2>2. lease' \in Leases \cup {None}
    BY <1>4, <2>1 DEF Rename
  <2> QED BY <1>4, <2>2 DEF Rename, Goto
<1>5. ASSUME NEW d \in Dispatches,
             SetupFails(d) \/ SpawnFails(d) \/ Spawn(d) \/ CliEnds(d) \/ Release(d) \/ BeatRead(d)
      PROVE  Typed' /\ faults' \in 0..MaxFaults
  BY <1>5 DEF SetupFails, SpawnFails, Spawn, CliEnds, Release, BeatRead, Goto
<1>6. ASSUME NEW d \in Dispatches, MarkSpawned(d) \/ MarkEnded(d)
      PROVE  Typed' /\ faults' \in 0..MaxFaults
  BY <1>6 DEF MarkSpawned, MarkEnded, MarkWritten, Goto
<1>7. ASSUME NEW d \in Dispatches, BeatWrite(d)
      PROVE  Typed' /\ faults' \in 0..MaxFaults
  BY <1>7 DEF BeatWrite
<1>8. CASE SweepJudge \/ SweepMisjudge \/ SweepUnlink
  <2>1. lease' \in {lease, None} /\ UNCHANGED <<staged, pc, seen, mark>> /\ (faults' = faults \/ Fault)
    BY <1>8 DEF SweepJudge, SweepMisjudge, SweepUnlink
  <2> QED BY <2>1, BoundsAssumption DEF Fault
<1>9. CASE Expire \/ ExpireLate
  <2>1. lease # None /\ lease' = [by |-> lease.by, fresh |-> FALSE]
    BY <1>9, Zenon DEF Expire, ExpireLate, Fresh
  <2>2. UNCHANGED <<staged, pc, seen, mark>> /\ (faults' = faults \/ Fault)
    BY <1>9 DEF Expire, ExpireLate
  <2>3. lease' \in Leases
    BY <2>1
  <2> QED BY <2>2, <2>3, BoundsAssumption DEF Fault
<1>10. ASSUME NEW p \in Pods, Crash(p)
       PROVE  Typed' /\ faults' \in 0..MaxFaults
  BY <1>10, BoundsAssumption DEF Crash, Fault
<1> QED
  BY <1>1, <1>2, <1>3, <1>4, <1>5, <1>6, <1>7, <1>8, <1>9, <1>10 DEF Next, Proceed

LEMMA RecallsPassed ==
    ASSUME NEW b, NEW l, Recall(b, l) PROVE passed' \subseteq Dispatches
BY DEF Recall

LEMMA RecallsFlags ==
    ASSUME NEW b, NEW l, Recall(b, l)
    PROVE  raced' \in BOOLEAN /\ broken' \in BOOLEAN /\ ghostly' \in BOOLEAN
BY Zenon DEF Recall

\* Every step recalls something.
LEMMA StepRecalls == ASSUME Next PROVE \E b, l : Recall(b, l)
BY Zenon DEF Next, Proceed, Check, CheckUnread, Write, Rename, Confirm, WriteFails, ConfirmFails,
       SetupFails, SpawnFails, Spawn, MarkSpawned, MarkEnded, MarkWritten, CliEnds, BeatRead,
       BeatWrite, Release, SweepJudge, SweepMisjudge, SweepUnlink, Crash, Expire, ExpireLate, Nothing

LEMMA StepSweeps == ASSUME Next, sweep \in BOOLEAN PROVE sweep' \in BOOLEAN
<1>1. UNCHANGED sweep \/ sweep' = TRUE \/ sweep' = FALSE
  BY Zenon DEF Next, Proceed, Check, CheckUnread, Write, Rename, Confirm, WriteFails, ConfirmFails,
       SetupFails, SpawnFails, Spawn, MarkSpawned, MarkEnded, MarkWritten, CliEnds, BeatRead,
       BeatWrite, Release, SweepJudge, SweepMisjudge, SweepUnlink, Crash, Expire, ExpireLate
<1> QED BY <1>1, Zenon

\* Lease, temporary files, reads and the history keep their types.
THEOREM LeaseTypeOK == Spec => []TypeOK
<1>1. Init => TypeOK
  BY TypeInit
<1>2. TypeOK /\ [Next]_vars => TypeOK'
  <2> SUFFICES ASSUME TypeOK, [Next]_vars PROVE TypeOK'
    OBVIOUS
  <2>1. CASE Next
    <3>1. Typed' /\ faults' \in 0..MaxFaults
      <4>1. Typed /\ faults \in 0..MaxFaults
        BY DEF TypeOK, Typed
      <4> QED BY <2>1, <4>1, TypedStep
    <3>2. PICK b, l : Recall(b, l)
      BY <2>1, StepRecalls
    <3>3. passed' \subseteq Dispatches
      BY <3>2, RecallsPassed
    <3>5. raced' \in BOOLEAN /\ broken' \in BOOLEAN /\ ghostly' \in BOOLEAN
      BY <3>2, RecallsFlags
    <3>4. sweep' \in BOOLEAN
      BY <2>1, StepSweeps, Zenon DEF TypeOK
    <3> QED BY <3>1, <3>3, <3>4, <3>5, Zenon DEF TypeOK, Typed
  <2>2. CASE UNCHANGED vars
    BY <2>2 DEF vars, history, TypeOK
  <2> QED BY <2>1, <2>2
<1> QED BY <1>1, <1>2, PTL DEF Spec

-----------------------------------------------------------------------------
(* What the history remembers. *)

Empty == \A d \in Dispatches : pc[d] \in {"idle", "dead"}

LEMMA Unbroken ==
    ASSUME NEW b, NEW l, Recall(b, l), ~broken', ~Empty'
    PROVE  ~broken /\ ~b
BY Zenon DEF Recall, Empty

LEMMA RecallsJudged ==
    ASSUME NEW b, NEW l, Recall(b, l), Judged', sweep
    PROVE  Judged /\ \A d \in Dispatches : ~(pc[d] = "written" /\ pc'[d] = "renamed")
BY Zenon DEF Recall, Judged

LEMMA RecallsPassing ==
    ASSUME NEW b, NEW l, Recall(b, l), NEW d \in Dispatches,
           pc'[d] \in {"checked", "written"}, d \notin passed'
    PROVE  d \notin passed /\ \A e \in Dispatches : ~(pc[e] = "renamed" /\ pc'[e] = "setup")
BY Zenon DEF Recall

LEMMA RecallsGhosts ==
    ASSUME NEW b, NEW l, Recall(b, l), Fresh', pc'[lease'.by] = "idle", ~ghostly'
    PROVE  ~ghostly /\ ~broken /\ ~b /\ ~l
BY Zenon DEF Recall, Fresh

-----------------------------------------------------------------------------
(* What is read is read at work. *)

LEMMA ReadAtWorkStep ==
    ASSUME Typed, ReadAtWork, Next
    PROVE  ReadAtWork'
<1> USE DEF Typed, ReadAtWork, Phases, Acquiring, Working
<1>1. ASSUME NEW d \in Dispatches, Check(d) \/ CheckUnread(d) PROVE ReadAtWork'
  <2>1. pc[d] \in {"idle", "dead"} /\ pc' = [pc EXCEPT ![d] = "checked"]
    BY <1>1, AskedPhase DEF Check, CheckUnread
  <2>2. UNCHANGED <<seen, mark>>
    BY <1>1 DEF Check, CheckUnread
  <2> QED BY <2>1, <2>2
<1>2. ASSUME NEW d \in Dispatches,
             Write(d) \/ Rename(d) \/ Confirm(d) \/ WriteFails(d) \/ ConfirmFails(d)
      PROVE  ReadAtWork'
  <2>1. PICK to : pc' = [pc EXCEPT ![d] = to]
    BY <1>2, Zenon DEF Write, Rename, Confirm, WriteFails, ConfirmFails, Goto
  <2>3. pc[d] \in Acquiring
    BY <1>2 DEF Write, Rename, Confirm, WriteFails, ConfirmFails, Goto
  <2>2. UNCHANGED <<seen, mark>>
    BY <1>2 DEF Write, Rename, Confirm, WriteFails, ConfirmFails
  <2> QED BY <2>1, <2>2, <2>3
<1>3. ASSUME NEW d \in Dispatches, SetupFails(d) \/ SpawnFails(d) PROVE ReadAtWork'
  BY <1>3 DEF SetupFails, SpawnFails, Goto
<1>4. ASSUME NEW d \in Dispatches, Spawn(d) \/ CliEnds(d) PROVE ReadAtWork'
  BY <1>4 DEF Spawn, CliEnds, Goto
<1>5. ASSUME NEW d \in Dispatches, MarkSpawned(d) \/ MarkEnded(d) PROVE ReadAtWork'
  BY <1>5 DEF MarkSpawned, MarkEnded, MarkWritten, Goto
<1>6. ASSUME NEW d \in Dispatches, BeatRead(d) \/ BeatWrite(d) PROVE ReadAtWork'
  BY <1>6 DEF BeatRead, BeatWrite
<1>7. ASSUME NEW d \in Dispatches, Release(d) PROVE ReadAtWork'
  BY <1>7 DEF Release, Goto
<1>8. CASE SweepJudge \/ SweepMisjudge \/ SweepUnlink \/ Expire \/ ExpireLate
  <2>1. UNCHANGED <<pc, seen, mark>>
    BY <1>8 DEF SweepJudge, SweepMisjudge, SweepUnlink, Expire, ExpireLate
  <2> QED BY <2>1
<1>9. ASSUME NEW p \in Pods, Crash(p) PROVE ReadAtWork'
  BY <1>9 DEF Crash
<1> QED
  BY <1>1, <1>2, <1>3, <1>4, <1>5, <1>6, <1>7, <1>8, <1>9 DEF Next, Proceed

-----------------------------------------------------------------------------
(* The promise. *)

AllKept == \A d \in Dispatches : Kept(d)

\* Nothing is promised to nobody.
LEMMA EmptyKeeps == ASSUME Typed, ReadAtWork, Empty PROVE AllKept
<1> SUFFICES ASSUME NEW d \in Dispatches PROVE Kept(d)
  BY DEF AllKept
<1>1. pc[d] \in {"idle", "dead"} /\ seen[d] = None /\ mark[d] = None
  BY DEF Empty, ReadAtWork, Working
<1> QED BY <1>1 DEF Kept, Working

LEMMA FreshIsOwn ==
    ASSUME Typed, Fresh
    PROVE  lease.by \in Dispatches /\ lease = Own(lease.by)
<1>1. PICK by \in Dispatches, f \in BOOLEAN : lease = [by |-> by, fresh |-> f]
  BY DEF Typed, Fresh, Leases
<1>2. lease.fresh = f
  BY <1>1
<1>3. f = TRUE
  BY <1>2, Zenon DEF Fresh
<1> QED BY <1>1, <1>3 DEF Own

LEMMA OwnIsFresh ==
    ASSUME Typed, NEW d \in Dispatches, lease = Own(d)
    PROVE  Fresh /\ lease.by = d
<1>1. lease \in Leases /\ lease.by = d /\ lease.fresh = TRUE
  BY DEF Own, Leases
<1>2. lease # None
  BY <1>1
<1> QED BY <1>1, <1>2, Zenon DEF Fresh

LEMMA OwnIsLease == \A d \in Dispatches : Own(d) \in Leases /\ Own(d) # None
<1> TAKE d \in Dispatches
<1>1. Own(d) \in Leases
  BY DEF Own, Leases
<1> QED BY <1>1

LEMMA OwnersAgree ==
    ASSUME NEW d, NEW e, Own(d) = Own(e)
    PROVE  d = e
BY DEF Own

\* Where somebody works nobody else does.
LEMMA OneAtWork ==
    ASSUME AllKept, NEW d \in Dispatches, pc[d] \in Working
    PROVE  lease = Own(d) /\ \A e \in Dispatches \ {d} : pc[e] \notin Working
BY OwnersAgree DEF AllKept, Kept

\* The steps of one dispatch that leave the files alone, or its read is kept.
LEMMA WorkKeeps ==
    ASSUME Typed, Typed', ReadAtWork', AllKept, NEW b, NEW l, Recall(b, l),
           NEW d \in Dispatches, pc[d] \in Working,
           pc' = [pc EXCEPT ![d] = pc'[d]], pc'[d] \in Working \cup {"idle"},
           lease' = lease \/ (lease' = None /\ pc'[d] = "idle"),
           UNCHANGED <<staged, sweep>>,
           \A e \in Dispatches : seen'[e] \in {None, seen[e], lease} /\ mark'[e] \in {None, mark[e], lease},
           \A e \in Dispatches \ {d} : seen'[e] = seen[e] /\ mark'[e] = mark[e]
    PROVE  AllKept'
<1>1. lease = Own(d) /\ \A e \in Dispatches \ {d} : pc[e] \notin Working
  BY OneAtWork
<1> SUFFICES ASSUME NEW e \in Dispatches PROVE Kept(e)'
  BY DEF AllKept
<1>2. Kept(e) /\ Kept(d)
  BY DEF AllKept
<1>3. ~Judged'
  <2>1. ~Judged
    BY <1>2 DEF Kept
  <2>2. Judged' => sweep
    BY Zenon DEF Judged
  <2> QED BY <2>1, <2>2, RecallsJudged
<1>4. pc'[e] \in Working => e = d /\ lease' = lease
  BY <1>1 DEF Working, Typed
<1>5. \A f \in Dispatches \ {d} : pc'[f] = pc[f]
  BY DEF Typed
<1>6. seen'[e] \in {None, Own(e)} /\ mark'[e] \in {None, Own(e)}
  BY <1>1, <1>2 DEF Kept
<1>7. ASSUME pc'[e] \in {"checked", "written", "renamed"} PROVE e # d /\ pc'[e] = pc[e]
  BY <1>7, <1>5 DEF Working
<1>8. pc'[e] = "written" => staged'[PodOf(e)] \in {e, None}
  BY <1>2, <1>7 DEF Kept
<1>9. pc'[e] = "renamed" => lease' = None \/ lease' = Own(e) \/ PodOf(lease'.by) # PodOf(e)
  BY <1>2, <1>7 DEF Kept
<1>10. pc'[e] \in {"written", "renamed"} => ~Twin(e)'
  BY <1>2, <1>5, <1>7 DEF Kept, Twin, Working
<1>11. ASSUME pc'[e] \in {"checked", "written"}
       PROVE  lease' # Own(e) /\ (e \notin passed' => \A f \in Dispatches : pc'[f] \notin Working)
  <2>1. Own(e) # None
    BY OwnIsLease
  <2>2. lease' # Own(e)
    BY <1>1, <1>7, <1>11, <2>1, OwnersAgree
  <2>3. e \notin passed' => e \notin passed
    BY <1>11, RecallsPassing
  <2>4. e \in passed
    BY <1>2, <1>7, <1>11 DEF Kept
  <2> QED BY <2>2, <2>3, <2>4
<1> QED BY <1>1, <1>3, <1>4, <1>6, <1>8, <1>9, <1>10, <1>11 DEF Kept

\* No step of a worker moves the cleanup, and only a rename races with it.
LEMMA StillJudged ==
    ASSUME NEW b, NEW l, Recall(b, l), Judged', UNCHANGED sweep
    PROVE  Judged /\ \A d \in Dispatches : ~(pc[d] = "written" /\ pc'[d] = "renamed")
<1>1. sweep
  BY Zenon DEF Judged
<1> QED BY <1>1, RecallsJudged

LEMMA CheckKeeps ==
    ASSUME Typed, Typed', ReadAtWork, AllKept, NEW d \in Dispatches, Check(d)
    PROVE  AllKept'
<1> SUFFICES ASSUME NEW e \in Dispatches PROVE Kept(e)'
  BY DEF AllKept
<1>1. Recall(FALSE, FALSE)
  BY DEF Check, Nothing
<1>2. pc[d] \in {"idle", "dead"} /\ pc' = [pc EXCEPT ![d] = "checked"]
  BY AskedPhase DEF Check
<1>3. UNCHANGED <<lease, staged, seen, mark>>
  BY DEF Check
<1>4. Judged' => Judged
  BY <1>1, StillJudged DEF Check
<1>5. \A f \in Dispatches : pc[f] \notin Working /\ pc'[f] \notin Working
  <2>1. \A f \in Dispatches : pc[f] \notin Working
    BY OneAtWork, OwnIsFresh DEF Check
  <2> QED BY <1>2, <2>1 DEF Typed, Working
<1>6. lease # Own(d)
  BY OwnIsFresh DEF Check
<1>7. Kept(e)
  BY DEF AllKept
<1>8. \A f \in Dispatches : pc'[f] \in {"written", "renamed"} => pc'[f] = pc[f]
  BY <1>2 DEF Typed
<1>9. pc'[e] = "checked" => e = d \/ pc[e] = "checked"
  BY <1>2 DEF Typed
<1>10. pc'[e] \in {"written", "renamed"} => ~Twin(e)'
  BY <1>2, <1>7, <1>8 DEF Kept, Twin
<1> QED BY <1>3, <1>4, <1>5, <1>6, <1>7, <1>8, <1>9, <1>10 DEF Kept

LEMMA WriteKeeps ==
    ASSUME Typed, Typed', ReadAtWork, AllKept, NEW d \in Dispatches, Write(d), ~broken', ~Empty'
    PROVE  AllKept'
<1> SUFFICES ASSUME NEW e \in Dispatches PROVE Kept(e)'
  BY DEF AllKept
<1>1. Recall(Twin(d), FALSE)
  BY DEF Write
<1>2. ~Twin(d)
  BY <1>1, Unbroken
<1>3. pc[d] = "checked" /\ pc' = [pc EXCEPT ![d] = "written"]
  BY DEF Write, Goto
<1>4. staged' = [staged EXCEPT ![PodOf(d)] = d] /\ UNCHANGED <<lease, seen, mark>>
  BY DEF Write
<1>5. Judged' => Judged
  BY <1>1, StillJudged DEF Write
<1>6. Kept(e) /\ Kept(d)
  BY DEF AllKept
<1>7. \A f \in Dispatches \ {d} : pc'[f] = pc[f]
  BY <1>3 DEF Typed
<1>8. pc'[d] = "written"
  BY <1>3 DEF Typed
<1>9. \A f \in Dispatches : pc'[f] \in Working => pc[f] \in Working
  BY <1>7, <1>8 DEF Working
<1>10. \A f \in Dispatches \ {d} : PodOf(f) = PodOf(d) => pc[f] \notin {"written", "renamed"}
  BY <1>2 DEF Twin
<1>11. pc'[e] = "written" => staged'[PodOf(e)] \in {e, None}
  BY <1>4, <1>6, <1>7, <1>10, PodOfType DEF Kept, Typed
<1>12. pc'[e] \in {"written", "renamed"} => ~Twin(e)'
  BY <1>6, <1>7, <1>8, <1>10 DEF Kept, Twin
<1>13. ASSUME pc'[e] \in {"checked", "written"}
       PROVE  lease' # Own(e) /\ (e \notin passed' => \A f \in Dispatches : pc'[f] \notin Working)
  <2>1. pc[e] \in {"checked", "written"}
    BY <1>3, <1>7, <1>13
  <2>2. e \notin passed' => e \notin passed
    BY <1>1, <1>13, RecallsPassing
  <2> QED BY <1>4, <1>6, <1>9, <2>1, <2>2 DEF Kept
<1>14. pc'[e] = "renamed" => pc[e] = "renamed"
  BY <1>7, <1>8
<1> QED BY <1>4, <1>5, <1>6, <1>9, <1>11, <1>12, <1>13, <1>14 DEF Kept

\* A dispatch whose acquisition fails.
LEMMA GivingUpKeeps ==
    ASSUME Typed, Typed', ReadAtWork, AllKept, NEW b, NEW l, Recall(b, l),
           NEW d \in Dispatches, pc[d] \in Acquiring, pc' = [pc EXCEPT ![d] = "idle"],
           staged' = staged \/ staged' = [staged EXCEPT ![PodOf(d)] = None],
           UNCHANGED <<lease, seen, mark, sweep>>
    PROVE  AllKept'
<1> SUFFICES ASSUME NEW e \in Dispatches PROVE Kept(e)'
  BY DEF AllKept
<1>1. Judged' => Judged
  BY StillJudged
<1>2. Kept(e)
  BY DEF AllKept
<1>3. \A f \in Dispatches : pc'[f] # "idle" => pc'[f] = pc[f]
  BY DEF Typed
<1>4. \A f \in Dispatches : pc'[f] \in Working => pc[f] \in Working
  BY <1>3 DEF Working
<1>5. pc'[e] = "written" => staged'[PodOf(e)] \in {e, None}
  BY <1>2, <1>3, PodOfType DEF Kept, Typed
<1>6. pc'[e] \in {"written", "renamed"} => ~Twin(e)'
  BY <1>2, <1>3 DEF Kept, Twin
<1>7. ASSUME pc'[e] \in {"checked", "written"}
      PROVE  lease' # Own(e) /\ (e \notin passed' => \A f \in Dispatches : pc'[f] \notin Working)
  <2>1. e \notin passed' => e \notin passed
    BY <1>7, RecallsPassing
  <2> QED BY <1>2, <1>3, <1>4, <1>7, <2>1 DEF Kept
<1> QED BY <1>1, <1>2, <1>3, <1>4, <1>5, <1>6, <1>7 DEF Kept

LEMMA RenameKeeps ==
    ASSUME Typed, Typed', ReadAtWork, AllKept, NEW d \in Dispatches, Rename(d), ~broken', ~Empty'
    PROVE  AllKept'
<1>1. Recall(Overtakes(d), FALSE)
  BY DEF Rename
<1>2. pc[d] = "written" /\ UNCHANGED <<seen, mark, sweep>>
  BY DEF Rename, Goto
<1>3. staged' = [staged EXCEPT ![PodOf(d)] = None]
  BY DEF Rename
<1>4. Kept(d)
  BY DEF AllKept
<1>5. CASE staged[PodOf(d)] = None
  <2>1. pc' = [pc EXCEPT ![d] = "idle"] /\ lease' = lease
    BY <1>5 DEF Rename, Goto
  <2> QED BY <1>1, <1>2, <1>3, <2>1, GivingUpKeeps DEF Acquiring
<1>6. CASE staged[PodOf(d)] # None
  <2>1. staged[PodOf(d)] = d
    BY <1>2, <1>4, <1>6 DEF Kept
  <2>2. pc' = [pc EXCEPT ![d] = "renamed"] /\ lease' = Own(d)
    BY <1>6, <2>1, Zenon DEF Rename, Goto, Own
  <2>3. pc'[d] = "renamed" /\ \A f \in Dispatches \ {d} : pc'[f] = pc[f]
    BY <2>2 DEF Typed
  <2>4. ~Judged'
    BY <1>1, <1>2, <2>3, StillJudged
  <2>5. \A f \in Dispatches : pc[f] \notin Working
    <3>1. ~Overtakes(d)
      BY <1>1, Unbroken
    <3> QED BY <1>2, <1>4, <3>1 DEF Kept, Overtakes
  <2>6. \A f \in Dispatches : pc'[f] \notin Working
    BY <2>3, <2>5 DEF Working
  <2>7. \A f \in Dispatches \ {d} : PodOf(f) = PodOf(d) => pc[f] \notin {"written", "renamed"}
    BY <1>2, <1>4 DEF Kept, Twin
  <2> SUFFICES ASSUME NEW e \in Dispatches PROVE Kept(e)'
    BY DEF AllKept
  <2>8. Kept(e)
    BY DEF AllKept
  <2>9. seen'[e] \in {None, Own(e)} /\ mark'[e] \in {None, Own(e)}
    BY <1>2, <2>8 DEF Kept
  <2>10. pc'[e] = "written" => staged'[PodOf(e)] \in {e, None}
    BY <1>3, <2>3, <2>8, PodOfType DEF Kept, Typed
  <2>11. ASSUME pc'[e] = "renamed" PROVE lease' = Own(e) \/ PodOf(lease'.by) # PodOf(e)
    <3>1. CASE e = d
      BY <2>2, <3>1
    <3>2. CASE e # d
      <4>1. PodOf(e) # PodOf(d)
        BY <2>3, <2>7, <2>11, <3>2
      <4>2. lease'.by = d
        BY <2>2 DEF Own
      <4> QED BY <4>1, <4>2
    <3> QED BY <3>1, <3>2
  <2>12. pc'[e] \in {"written", "renamed"} => ~Twin(e)'
    BY <1>2, <2>3, <2>7, <2>8 DEF Kept, Twin
  <2>13. ASSUME pc'[e] \in {"checked", "written"} PROVE lease' # Own(e)
    <3>1. e # d
      BY <2>3, <2>13
    <3> QED BY <2>2, <3>1, OwnersAgree
  <2> QED BY <2>4, <2>6, <2>9, <2>10, <2>11, <2>12, <2>13 DEF Kept
<1> QED BY <1>5, <1>6

LEMMA ConfirmKeeps ==
    ASSUME Typed, Typed', ReadAtWork, AllKept, NEW d \in Dispatches, Confirm(d)
    PROVE  AllKept'
<1>1. Recall(FALSE, FALSE)
  BY DEF Confirm, Nothing
<1>2. pc[d] = "renamed" /\ UNCHANGED <<lease, seen, mark, sweep>>
  BY DEF Confirm, Goto
<1>3. staged' = staged \/ staged' = [staged EXCEPT ![PodOf(d)] = None]
  BY Zenon DEF Confirm
<1>4. CASE ~(lease # None /\ PodOf(lease.by) = PodOf(d))
  <2>1. pc' = [pc EXCEPT ![d] = "idle"]
    BY <1>4 DEF Confirm, Goto
  <2> QED BY <1>1, <1>2, <1>3, <2>1, GivingUpKeeps DEF Acquiring
<1>5. CASE lease # None /\ PodOf(lease.by) = PodOf(d)
  <2>1. pc' = [pc EXCEPT ![d] = "setup"] /\ staged' = staged
    BY <1>5, Zenon DEF Confirm, Goto
  <2>2. lease = Own(d) /\ ~Judged
    <3>1. Kept(d)
      BY DEF AllKept
    <3> QED BY <1>2, <1>5, <3>1 DEF Kept
  <2>3. ~Judged'
    BY <1>1, <1>2, <2>2, StillJudged
  <2>4. pc'[d] = "setup" /\ \A f \in Dispatches \ {d} : pc'[f] = pc[f]
    BY <2>1 DEF Typed
  <2>5. \A f \in Dispatches \ {d} : pc[f] \notin Working
    BY <2>2, OneAtWork, OwnersAgree
  <2> SUFFICES ASSUME NEW e \in Dispatches PROVE Kept(e)'
    BY DEF AllKept
  <2>6. Kept(e)
    BY DEF AllKept
  <2>7. pc'[e] \in Working => lease' = Own(e)
    BY <1>2, <2>2, <2>4, <2>5
  <2>8. pc'[e] \in {"checked", "written", "renamed"} => pc'[e] = pc[e]
    BY <2>4
  <2>9. pc'[e] \in {"written", "renamed"} => ~Twin(e)'
    BY <2>4, <2>6, <2>8 DEF Kept, Twin
  <2>10. ASSUME pc'[e] \in {"checked", "written"} PROVE lease' # Own(e) /\ e \in passed'
    BY <1>1, <1>2, <2>4, <2>6, <2>8, <2>10, RecallsPassing DEF Kept
  <2> QED BY <1>2, <2>1, <2>3, <2>6, <2>7, <2>8, <2>9, <2>10 DEF Kept
<1> QED BY <1>4, <1>5

LEMMA JudgeKeeps ==
    ASSUME Typed, ReadAtWork, AllKept, SweepJudge
    PROVE  AllKept'
<1> SUFFICES ASSUME NEW e \in Dispatches PROVE Kept(e)'
  BY DEF AllKept
<1>1. Recall(FALSE, FALSE)
  BY DEF SweepJudge, Nothing
<1>2. UNCHANGED <<lease, staged, pc, seen, mark>>
  BY DEF SweepJudge
<1>3. Kept(e)
  BY DEF AllKept
<1>4. \A f \in Dispatches : lease = Own(f) => pc[f] = "dead"
  BY OwnIsFresh DEF SweepJudge, Fresh
<1>5. pc'[e] \notin Working /\ (pc'[e] = "renamed" => lease' # Own(e))
  BY <1>2, <1>3, <1>4 DEF Kept, Working
<1>6. pc'[e] \in {"written", "renamed"} => ~Twin(e)'
  BY <1>2, <1>3 DEF Kept, Twin
<1>7. ASSUME pc'[e] \in {"checked", "written"}
      PROVE  lease' # Own(e) /\ (e \notin passed' => \A f \in Dispatches : pc'[f] \notin Working)
  BY <1>1, <1>2, <1>3, <1>7, RecallsPassing DEF Kept
<1> QED BY <1>2, <1>3, <1>5, <1>6, <1>7 DEF Kept

LEMMA UnlinkKeeps ==
    ASSUME Typed, ReadAtWork, AllKept, SweepUnlink, ~broken', ~Empty'
    PROVE  AllKept'
<1> SUFFICES ASSUME NEW e \in Dispatches PROVE Kept(e)'
  BY DEF AllKept
<1>1. Recall(raced, FALSE)
  BY DEF SweepUnlink
<1>2. lease' = None /\ UNCHANGED <<staged, pc, seen, mark>>
  BY DEF SweepUnlink
<1>3. Judged
  BY <1>1, Unbroken, Zenon DEF SweepUnlink, Judged
<1>4. Kept(e)
  BY DEF AllKept
<1>5. \A f \in Dispatches : pc'[f] \notin Working
  BY <1>2, <1>3 DEF AllKept, Kept
<1>6. ~Judged'
  BY Zenon DEF SweepUnlink, Judged
<1>7. pc'[e] \in {"written", "renamed"} => ~Twin(e)'
  BY <1>2, <1>4 DEF Kept, Twin
<1>8. lease' # Own(e)
  BY <1>2, OwnIsLease
<1> QED BY <1>2, <1>4, <1>5, <1>6, <1>7, <1>8 DEF Kept

LEMMA ExpireKeeps ==
    ASSUME Typed, ReadAtWork, AllKept, Expire
    PROVE  AllKept'
<1> SUFFICES ASSUME NEW e \in Dispatches PROVE Kept(e)'
  BY DEF AllKept
<1>1. Recall(FALSE, FALSE)
  BY DEF Expire, Nothing
<1>2. lease' = [by |-> lease.by, fresh |-> FALSE] /\ lease = Own(lease.by)
  BY FreshIsOwn DEF Expire
<1>3. UNCHANGED <<staged, pc, seen, mark, sweep>>
  BY DEF Expire
<1>4. Judged' => Judged
  BY <1>1, <1>3, StillJudged
<1>5. Kept(e)
  BY DEF AllKept
<1>6. ASSUME NEW f \in Dispatches, lease = Own(f)
      PROVE  pc[f] \notin Working \cup {"renamed"}
  <2>1. lease.by = f
    BY <1>6, OwnIsFresh
  <2>2. ~Young
    BY DEF Expire
  <2> QED BY <2>1, <2>2 DEF Young
<1>7. \A f \in Dispatches : pc'[f] \notin Working
  BY <1>3, <1>6 DEF AllKept, Kept
<1>8. \A f \in Dispatches : lease' # Own(f)
  <2>1. lease'.fresh = FALSE
    BY <1>2
  <2>2. \A f \in Dispatches : Own(f).fresh = TRUE
    BY DEF Own
  <2>3. FALSE # TRUE
    BY Zenon
  <2> QED BY <2>1, <2>2, <2>3, Zenon
<1>9. pc'[e] = "renamed" => PodOf(lease'.by) # PodOf(e)
  <2>1. lease # None
    BY Zenon DEF Expire, Fresh
  <2>2. lease'.by = lease.by
    BY <1>2
  <2> QED BY <1>3, <1>5, <1>6, <2>1, <2>2 DEF Kept
<1>10. pc'[e] \in {"written", "renamed"} => ~Twin(e)'
  BY <1>3, <1>5 DEF Kept, Twin
<1> QED BY <1>3, <1>4, <1>5, <1>7, <1>8, <1>9, <1>10 DEF Kept

LEMMA CrashKeeps ==
    ASSUME Typed, Typed', ReadAtWork, AllKept, NEW p \in Pods, Crash(p)
    PROVE  AllKept'
<1> SUFFICES ASSUME NEW e \in Dispatches PROVE Kept(e)'
  BY DEF AllKept
<1>1. Recall(FALSE, FALSE)
  BY DEF Crash, Nothing
<1>2. UNCHANGED <<lease, staged, sweep>>
  BY DEF Crash
<1>3. Judged' => Judged
  BY <1>1, <1>2, StillJudged
<1>4. Kept(e)
  BY DEF AllKept
<1>5. \A f \in Dispatches : pc'[f] # "dead" => pc'[f] = pc[f]
  BY DEF Crash
<1>6. seen'[e] \in {None, Own(e)} /\ mark'[e] \in {None, Own(e)}
  BY <1>4 DEF Crash, Kept
<1>7. \A f \in Dispatches : pc'[f] \in Working => pc[f] \in Working
  BY <1>5 DEF Working
<1>8. pc'[e] \in {"written", "renamed"} => ~Twin(e)'
  BY <1>4, <1>5 DEF Kept, Twin
<1>9. ASSUME pc'[e] \in {"checked", "written"}
      PROVE  lease' # Own(e) /\ (e \notin passed' => \A f \in Dispatches : pc'[f] \notin Working)
  <2>1. pc[e] = pc'[e]
    BY <1>5, <1>9
  <2>2. e \notin passed' => e \notin passed
    BY <1>1, <1>9, RecallsPassing
  <2> QED BY <1>2, <1>4, <1>7, <1>9, <2>1, <2>2 DEF Kept
<1> QED BY <1>2, <1>3, <1>4, <1>5, <1>6, <1>7, <1>8, <1>9 DEF Kept

\* A step after which the promise stands, and somebody is there, kept it.
LEMMA KeptStep ==
    ASSUME Typed, Typed', ReadAtWork, ReadAtWork', AllKept, Next, ~broken', ~Empty'
    PROVE  AllKept'
<1>1. ASSUME NEW d \in Dispatches, Check(d) PROVE AllKept'
  BY <1>1, CheckKeeps
<1>2. ASSUME NEW d \in Dispatches, CheckUnread(d) PROVE FALSE
  <2>1. Recall(TRUE, FALSE)
    BY <1>2 DEF CheckUnread
  <2>2. ~TRUE
    BY <2>1, Unbroken
  <2> QED BY <2>2, Zenon
<1>3. ASSUME NEW d \in Dispatches, Write(d) PROVE AllKept'
  BY <1>3, WriteKeeps
<1>4. ASSUME NEW d \in Dispatches, Rename(d) PROVE AllKept'
  BY <1>4, RenameKeeps
<1>5. ASSUME NEW d \in Dispatches, Confirm(d) PROVE AllKept'
  BY <1>5, ConfirmKeeps
<1>6. ASSUME NEW d \in Dispatches, WriteFails(d) PROVE AllKept'
  <2>1. Recall(FALSE, FALSE) /\ pc[d] \in Acquiring
    BY <1>6 DEF WriteFails, Nothing, Acquiring
  <2>2. pc' = [pc EXCEPT ![d] = "idle"] /\ staged' = [staged EXCEPT ![PodOf(d)] = None]
    BY <1>6, Zenon DEF WriteFails
  <2>3. UNCHANGED <<lease, seen, mark, sweep>>
    BY <1>6 DEF WriteFails
  <2> QED BY <2>1, <2>2, <2>3, GivingUpKeeps
<1>7. ASSUME NEW d \in Dispatches, ConfirmFails(d) PROVE AllKept'
  <2>1. Recall(FALSE, TRUE)
    BY <1>7 DEF ConfirmFails
  <2>2. pc[d] = "renamed" /\ pc' = [pc EXCEPT ![d] = "idle"]
    BY <1>7, Zenon DEF ConfirmFails, Goto
  <2>3. UNCHANGED <<lease, seen, mark, sweep>> /\ staged' = [staged EXCEPT ![PodOf(d)] = None]
    BY <1>7 DEF ConfirmFails
  <2> QED BY <2>1, <2>2, <2>3, GivingUpKeeps DEF Acquiring
<1>8. ASSUME NEW d \in Dispatches,
             SetupFails(d) \/ SpawnFails(d) \/ Spawn(d) \/ MarkSpawned(d) \/ CliEnds(d)
               \/ MarkEnded(d) \/ BeatRead(d) \/ BeatWrite(d) \/ Release(d)
      PROVE  AllKept'
  <2>1. Recall(FALSE, FALSE)
    BY <1>8, Zenon DEF SetupFails, SpawnFails, Spawn, MarkSpawned, MarkWritten, CliEnds,
                       MarkEnded, BeatRead, BeatWrite, Release, Nothing
  <2>2. Kept(d)
    BY DEF AllKept
  <2>3. pc[d] \in Working
    BY <1>8 DEF SetupFails, SpawnFails, Spawn, MarkSpawned, MarkWritten, CliEnds,
                MarkEnded, BeatRead, BeatWrite, Release, Goto, Working, ReadAtWork
  <2>4. lease = Own(d)
    BY <2>3, OneAtWork
  <2>5. CASE SetupFails(d) \/ SpawnFails(d) \/ Release(d)
    BY <2>1, <2>3, <2>5, WorkKeeps DEF SetupFails, SpawnFails, Release, Goto, Typed, Working
  <2>6. CASE Spawn(d) \/ CliEnds(d)
    BY <2>1, <2>3, <2>6, WorkKeeps DEF Spawn, CliEnds, Goto, Typed, Working
  <2>7. CASE MarkSpawned(d) \/ MarkEnded(d)
    <3>1. lease' = lease
      BY <2>2, <2>4, <2>7 DEF MarkSpawned, MarkEnded, MarkWritten, Kept
    <3> QED BY <2>1, <2>3, <2>7, <3>1, WorkKeeps DEF MarkSpawned, MarkEnded, MarkWritten, Goto, Typed, Working
  <2>8. CASE BeatRead(d)
    BY <2>1, <2>3, <2>8, WorkKeeps DEF BeatRead, Typed
  <2>9. CASE BeatWrite(d)
    <3>1. lease' = lease
      BY <2>2, <2>4, <2>9 DEF BeatWrite, Kept, Own
    <3> QED BY <2>1, <2>3, <2>9, <3>1, WorkKeeps DEF BeatWrite, Typed
  <2> QED BY <1>8, <2>5, <2>6, <2>7, <2>8, <2>9
<1>9. CASE SweepJudge
  BY <1>9, JudgeKeeps
<1>10. CASE SweepMisjudge \/ ExpireLate
  <2>1. Recall(TRUE, FALSE)
    BY <1>10 DEF SweepMisjudge, ExpireLate
  <2>2. ~TRUE
    BY <2>1, Unbroken
  <2> QED BY <2>2, Zenon
<1>11. CASE SweepUnlink
  BY <1>11, UnlinkKeeps
<1>12. CASE Expire
  BY <1>12, ExpireKeeps
<1>13. ASSUME NEW p \in Pods, Crash(p) PROVE AllKept'
  BY <1>13, CrashKeeps
<1> QED
  BY <1>1, <1>2, <1>3, <1>4, <1>5, <1>6, <1>7, <1>8, <1>9, <1>10, <1>11, <1>12, <1>13
     DEF Next, Proceed

LEMMA HolderStep ==
    ASSUME TypeOK, TypeOK', HolderOwnsLease, [Next]_vars
    PROVE  HolderOwnsLease'
<1>1. Typed /\ Typed'
  BY DEF TypeOK, Typed
<1>2. ReadAtWork /\ (~broken => AllKept)
  BY Zenon DEF HolderOwnsLease, AllKept
<1>3. CASE UNCHANGED vars
  <2>1. UNCHANGED <<lease, staged, pc, seen, mark, passed>> /\ (broken' <=> broken) /\ (Judged' <=> Judged)
    BY <1>3, Zenon DEF vars, history, Judged
  <2>2. ReadAtWork'
    BY <1>2, <2>1 DEF ReadAtWork
  <2>3. ~broken' => AllKept'
    <3> SUFFICES ASSUME ~broken', NEW d \in Dispatches PROVE Kept(d)'
      BY DEF AllKept
    <3>1. Kept(d)
      BY <1>2, <2>1 DEF AllKept
    <3> QED BY <2>1, <3>1 DEF Kept, Twin
  <2> QED BY <2>2, <2>3, Zenon DEF HolderOwnsLease, AllKept
<1>4. CASE Next
  <2>1. ReadAtWork'
    BY <1>1, <1>2, <1>4, ReadAtWorkStep
  <2>2. ASSUME ~broken', ~Empty' PROVE AllKept'
    <3>1. PICK b, l : Recall(b, l)
      BY <1>4, StepRecalls
    <3>2. ~broken
      BY <2>2, <3>1, Unbroken
    <3> QED BY <1>1, <1>2, <1>4, <2>1, <2>2, <3>2, KeptStep
  <2>3. ASSUME Empty' PROVE AllKept'
    <3>2. ASSUME NEW d \in Dispatches PROVE Kept(d)'
      <4>1. pc'[d] \in {"idle", "dead"} /\ seen'[d] = None /\ mark'[d] = None
        BY <2>1, <2>3 DEF Empty, ReadAtWork, Working
      <4> QED BY <4>1 DEF Kept, Working
    <3> QED BY <3>2 DEF AllKept
  <2> QED BY <2>1, <2>2, <2>3, Zenon DEF HolderOwnsLease, AllKept
<1> QED BY <1>3, <1>4

LEMMA GhostStep ==
    ASSUME TypeOK, HolderOwnsLease, NoGhost, Next
    PROVE  NoGhost'
<1> SUFFICES ASSUME Fresh', pc'[lease'.by] = "idle", ~ghostly' PROVE FALSE
  BY Zenon DEF NoGhost, Fresh
<1>1. Typed
  BY DEF TypeOK, Typed
<1>2. PICK b, l : Recall(b, l)
  BY StepRecalls
<1>3. ~ghostly /\ ~broken
  BY <1>2, RecallsGhosts
<1>4. AllKept /\ ReadAtWork
  BY <1>3, Zenon DEF HolderOwnsLease, AllKept
<1>5. Fresh => pc[lease.by] # "idle"
  BY <1>3, Zenon DEF NoGhost, Fresh
<1>6. \A d \in Dispatches : Fresh /\ lease.by = d => lease = Own(d)
  BY <1>1, FreshIsOwn
<1>7. lease' = lease => Fresh
  BY Zenon DEF Fresh
<1>8. ASSUME lease' = lease, NEW d \in Dispatches, \A e \in Dispatches \ {d} : pc'[e] = pc[e]
      PROVE  lease = Own(d) /\ pc'[d] = "idle"
  <2>1. Fresh /\ pc'[lease.by] = "idle"
    BY <1>7, <1>8
  <2>2. lease.by \in Dispatches
    BY <1>1, <2>1, FreshIsOwn
  <2>3. lease.by = d
    BY <1>5, <1>8, <2>1, <2>2
  <2> QED BY <1>6, <2>1, <2>3
<1>9. lease' # None
  BY Zenon DEF Fresh
<1>10. ASSUME NEW d \in Dispatches, Check(d) \/ CheckUnread(d) PROVE FALSE
  <2>1. pc' = [pc EXCEPT ![d] = "checked"] /\ lease' = lease
    BY <1>10, AskedPhase DEF Check, CheckUnread
  <2> QED BY <1>1, <1>8, <2>1 DEF Typed
<1>11. ASSUME NEW d \in Dispatches, Write(d) \/ WriteFails(d) PROVE FALSE
  <2>1. pc[d] \in {"checked", "written"} /\ lease' = lease
    BY <1>11 DEF Write, WriteFails, Goto
  <2>2. \A e \in Dispatches \ {d} : pc'[e] = pc[e]
    BY <1>1, <1>11 DEF Write, WriteFails, Goto, Typed
  <2>3. lease # Own(d)
    BY <1>4, <2>1 DEF AllKept, Kept
  <2> QED BY <1>8, <2>1, <2>2, <2>3
<1>12. ASSUME NEW d \in Dispatches, Rename(d) PROVE FALSE
  <2>1. Kept(d) /\ pc[d] = "written"
    BY <1>4, <1>12 DEF AllKept, Rename, Goto
  <2>2. CASE staged[PodOf(d)] = None
    <3>1. lease' = lease /\ \A e \in Dispatches \ {d} : pc'[e] = pc[e]
      BY <1>1, <1>12, <2>2 DEF Rename, Goto, Typed
    <3> QED BY <1>8, <2>1, <3>1 DEF Kept
  <2>3. CASE staged[PodOf(d)] # None
    <3>1. staged[PodOf(d)] = d
      BY <2>1, <2>3 DEF Kept
    <3>2. lease'.by = d /\ pc'[d] = "renamed"
      BY <1>1, <1>12, <2>3, <3>1 DEF Rename, Goto, Typed
    <3> QED BY <3>2
  <2> QED BY <2>2, <2>3
<1>13. ASSUME NEW d \in Dispatches, Confirm(d) PROVE FALSE
  <2>1. lease' = lease /\ \A e \in Dispatches \ {d} : pc'[e] = pc[e]
    BY <1>1, <1>13 DEF Confirm, Goto, Typed
  <2>2. lease = Own(d) /\ pc'[d] = "idle"
    BY <1>8, <2>1
  <2>3. lease # None /\ lease.by = d
    BY <1>9, <2>1, <2>2 DEF Own
  <2>4. pc'[d] = "setup"
    BY <1>1, <1>13, <2>3 DEF Confirm, Goto, Typed
  <2> QED BY <2>2, <2>4
<1>14. ASSUME NEW d \in Dispatches, ConfirmFails(d) PROVE FALSE
  <2>1. Recall(FALSE, TRUE)
    BY <1>14 DEF ConfirmFails
  <2>2. ~TRUE
    BY <2>1, RecallsGhosts
  <2> QED BY <2>2, Zenon
<1>15. ASSUME NEW d \in Dispatches, SetupFails(d) \/ Release(d) PROVE FALSE
  BY <1>9, <1>15 DEF SetupFails, Release
<1>16. ASSUME NEW d \in Dispatches,
              SpawnFails(d) \/ Spawn(d) \/ MarkSpawned(d) \/ CliEnds(d) \/ MarkEnded(d)
                \/ BeatRead(d) \/ BeatWrite(d)
       PROVE  FALSE
  <2>1. Kept(d)
    BY <1>4 DEF AllKept
  <2>2. pc[d] \in Working
    BY <1>4, <1>16 DEF SpawnFails, Spawn, MarkSpawned, MarkWritten, CliEnds, MarkEnded,
                       BeatRead, BeatWrite, Goto, Working, ReadAtWork
  <2>3. lease = Own(d)
    BY <2>1, <2>2 DEF Kept
  <2>4. lease' = lease
    BY <1>16, <2>1, <2>3 DEF SpawnFails, Spawn, MarkSpawned, MarkWritten, CliEnds, MarkEnded,
                             BeatRead, BeatWrite, Kept, Own
  <2>5. \A e \in Dispatches \ {d} : pc'[e] = pc[e]
    BY <1>1, <1>16 DEF SpawnFails, Spawn, MarkSpawned, MarkWritten, CliEnds, MarkEnded,
                       BeatRead, BeatWrite, Goto, Typed
  <2>6. pc'[d] # "idle"
    BY <1>1, <1>16, <2>2 DEF SpawnFails, Spawn, MarkSpawned, MarkWritten, CliEnds, MarkEnded,
                       BeatRead, BeatWrite, Goto, Typed, Working
  <2> QED BY <1>8, <2>4, <2>5, <2>6
<1>17. CASE SweepJudge \/ SweepMisjudge
  <2>1. UNCHANGED <<lease, pc>>
    BY <1>17 DEF SweepJudge, SweepMisjudge
  <2> QED BY <1>5, <1>7, <2>1
<1>18. CASE SweepUnlink
  BY <1>9, <1>18 DEF SweepUnlink
<1>19. CASE Expire \/ ExpireLate
  <2>1. lease' = [by |-> lease.by, fresh |-> FALSE]
    BY <1>19 DEF Expire, ExpireLate
  <2>2. lease'.fresh = FALSE
    BY <2>1
  <2> QED BY <2>2, Zenon DEF Fresh
<1>20. ASSUME NEW p \in Pods, Crash(p) PROVE FALSE
  <2>1. lease' = lease /\ \A d \in Dispatches : pc'[d] = "idle" => pc[d] = "idle"
    BY <1>1, <1>20 DEF Crash, Typed
  <2>2. lease.by \in Dispatches
    BY <1>1, <1>7, <2>1, FreshIsOwn
  <2> QED BY <1>5, <1>7, <2>1, <2>2
<1> QED
  BY <1>10, <1>11, <1>12, <1>13, <1>14, <1>15, <1>16, <1>17, <1>18, <1>19, <1>20
     DEF Next, Proceed

LEMMA HolderInit == Init => HolderOwnsLease /\ NoGhost
<1> SUFFICES ASSUME Init PROVE HolderOwnsLease /\ NoGhost
  OBVIOUS
<1>1. Typed /\ ReadAtWork /\ Empty
  BY TypeInit DEF TypeOK, Typed, Init, ReadAtWork, Empty
<1>2. AllKept
  BY <1>1, EmptyKeeps
<1>3. HolderOwnsLease
  BY <1>1, <1>2, Zenon DEF HolderOwnsLease, AllKept
<1>4. NoGhost
  BY Zenon DEF Init, NoGhost
<1> QED BY <1>3, <1>4

\* Whatever overlaps, is killed, fails or comes late: until the promise is
\* broken the lease is its worker's own and fresh, nothing stale is written
\* back over it, and neither a checked acquisition nor a judged cleanup meets
\* somebody at work (acquire_lease, heartbeat_loop, startup_cleanup).
THEOREM LeaseStaysOwn == Spec => []HolderOwnsLease
<1>1. Spec => []TypeOK
  BY LeaseTypeOK
<1>2. Init => HolderOwnsLease
  BY HolderInit
<1>3. TypeOK /\ TypeOK' /\ HolderOwnsLease /\ [Next]_vars => HolderOwnsLease'
  BY HolderStep
<1> QED BY <1>1, <1>2, <1>3, PTL DEF Spec

\* Two dispatches work in one workspace only after one of the steps that break
\* the promise: in particular two pods that found it free at the same time and
\* renamed before either read again never both do (acquire_lease, step 4).
THEOREM LeaseExclusion == Spec => []OneWorker
<1>1. HolderOwnsLease => OneWorker
  <2> SUFFICES ASSUME HolderOwnsLease, NEW d \in Dispatches, NEW e \in Dispatches,
                      pc[d] \in Working, pc[e] \in Working, ~broken
               PROVE  d = e
    BY Zenon DEF OneWorker
  <2>1. AllKept
    BY Zenon DEF HolderOwnsLease, AllKept
  <2> QED BY <2>1, OneAtWork
<1> QED BY <1>1, LeaseStaysOwn, PTL

\* No fresh lease of an ended dispatch, but for those a broken promise or an
\* unread confirmation leaves (_run_and_finalize, release_lease).
THEOREM NoGhostLease == Spec => []NoGhost
<1>1. Spec => [](TypeOK /\ HolderOwnsLease)
  BY LeaseTypeOK, LeaseStaysOwn, PTL
<1>2. Init => NoGhost
  BY HolderInit
<1>3. TypeOK /\ HolderOwnsLease /\ NoGhost /\ [Next]_vars => NoGhost'
  <2> SUFFICES ASSUME TypeOK, HolderOwnsLease, NoGhost, [Next]_vars PROVE NoGhost'
    OBVIOUS
  <2>1. CASE UNCHANGED vars
    BY <2>1, Zenon DEF vars, history, NoGhost
  <2> QED BY <2>1, GhostStep
<1> QED BY <1>1, <1>2, <1>3, PTL DEF Spec
=============================================================================
