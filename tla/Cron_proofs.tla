----------------------------- MODULE Cron_proofs ------------------------------
(***************************************************************************)
(* Proofs about the scheduled prompts: type correctness, that only a mark  *)
(* in progress can undo what the user says, and, when nobody starts a      *)
(* runner next to a running one, that only an interruption makes an        *)
(* occurrence fire again.                                                  *)
(***************************************************************************)
EXTENDS Cron, TLAPS

-----------------------------------------------------------------------------
(* Type correctness. *)

\* Marking keeps the table well typed.
LEMMA MarkedType ==
  ASSUME TypeOK, NEW e \in Entries, NEW enabled \in BOOLEAN
  PROVE  Marked(e, enabled) \in Rows
<1>1. row[e] \in Rows BY DEF TypeOK
<1> QED BY <1>1 DEF Marked, Rows

\* A row of which one field changes is a row.
LEMMA RowType ==
  ASSUME TypeOK, NEW e \in Entries, NEW new \in Rows, row' = [row EXCEPT ![e] = new]
  PROVE  row' \in [Entries -> Rows]
  BY DEF TypeOK

\* Every step keeps the types.
LEMMA TypeStep == TypeOK /\ [Next]_vars => TypeOK'
<1> SUFFICES ASSUME TypeOK, [Next]_vars PROVE TypeOK' OBVIOUS
<1>1. ASSUME NEW e \in Entries, Create(e) PROVE TypeOK'
  <2>1. row' \in [Entries -> Rows]
    BY <1>1 DEF Create, TypeOK, Rows
  <2> QED BY <1>1, <2>1 DEF Create, TypeOK, history
<1>2. ASSUME NEW e \in Entries, Disable(e) \/ Delete(e) \/ Come(e) PROVE TypeOK'
  <2>1. row' \in [Entries -> Rows]
    <3>1. row[e] \in Rows BY DEF TypeOK
    <3>2. CASE Disable(e) BY <3>1, <3>2 DEF Disable, TypeOK, Rows
    <3>3. CASE Delete(e) BY <3>1, <3>3 DEF Delete, TypeOK, Rows
    <3>4. CASE Come(e) BY <3>1, <3>4 DEF Come, TypeOK, Rows
    <3> QED BY <1>2, <3>2, <3>3, <3>4
  <2>2. fired' \in [Entries -> Nat]
    BY <1>2 DEF Disable, Delete, Come, TypeOK
  <2> QED BY <1>2, <2>1, <2>2 DEF Disable, Delete, Come, TypeOK, history
<1>3. ASSUME NEW r \in Runners, List(r) PROVE TypeOK'
  BY <1>3 DEF List, Due, TypeOK, history
<1>4. ASSUME NEW r \in Runners, NEW e \in Entries, Fire(r, e) PROVE TypeOK'
  <2>1. loop[r] \notin {"off", "died"}
    BY <1>4 DEF Fire, TypeOK
  <2>2. fired' \in [Entries -> Nat]
    BY <1>4 DEF Fire, TypeOK
  <2>3. firing[r] = None /\ seen[r] = "nothing"
    BY <1>4 DEF Fire, LoopFree
  <2> QED BY <1>4, <2>1, <2>2, <2>3 DEF Fire, TypeOK, history, LoopFree
<1>5. ASSUME NEW r \in Runners, Return(r) PROVE TypeOK'
  <2>1. CASE row[firing[r]].at = "gone"
    BY <1>5, <2>1 DEF Return, TypeOK, history, LoopFree
  <2>2. CASE row[firing[r]].at # "gone"
    BY <1>5, <2>2 DEF Return, TypeOK, history, LoopFree
  <2> QED BY <2>1, <2>2
<1>6. ASSUME NEW r \in Runners, Raise(r) PROVE TypeOK'
  BY <1>5, <1>6 DEF Raise
<1>11. ASSUME NEW r \in Runners, Mark(r) PROVE TypeOK'
  <2>1. PICK e \in Entries : e = firing[r]
    BY <1>11 DEF Mark, TypeOK
  <2>2. row' = [row EXCEPT ![e] = Marked(e, seen[r] = "enabled")]
    BY <1>11, <2>1, Zenon DEF Mark
  <2>3. row' \in [Entries -> Rows]
    BY <2>2, MarkedType, RowType
  <2> QED BY <1>11, <2>3 DEF Mark, TypeOK, history
<1>12. ASSUME NEW r \in Runners, MarkFails(r) PROVE TypeOK'
  BY <1>12, CronAssumption DEF MarkFails, Break, TypeOK, history
<1>7. ASSUME NEW r \in Runners, Die(r) \/ Leave(r) \/ Cancel(r) \/ Start(r) PROVE TypeOK'
  <2>1. CASE Die(r) BY <2>1, CronAssumption DEF Die, Break, TypeOK, Loops, history
  <2>2. CASE Leave(r) BY <2>2 DEF Leave, TypeOK, Loops, history
  <2>3. CASE Cancel(r) BY <2>3 DEF Cancel, TypeOK, Loops, history, LoopFree
  <2>4. CASE Start(r) BY <2>4 DEF Start, TypeOK, Loops, history
  <2> QED BY <1>7, <2>1, <2>2, <2>3, <2>4
<1>8. CASE Stop
  BY <1>8, CronAssumption DEF Stop, Break, TypeOK, Loops, history
<1>9. CASE Kill
  BY <1>9, CronAssumption DEF Kill, Break, TypeOK, Loops, history
<1>10. CASE UNCHANGED vars
  BY <1>10 DEF vars, history, TypeOK
<1> QED
  BY <1>1, <1>2, <1>3, <1>4, <1>5, <1>6, <1>7, <1>8, <1>9, <1>10, <1>11, <1>12
     DEF Next, RunnerStep

\* Type correctness, for any entries and runners, however often one is started.
THEOREM CronTypeOK == Spec => []TypeOK
<1>1. Init => TypeOK
  BY CronAssumption DEF Init, TypeOK, Rows, Loops
<1> QED BY <1>1, TypeStep, PTL DEF Spec

-----------------------------------------------------------------------------
(* The user's word. *)

\* A mark that will enable an entry the user has disabled has been overtaken.
MarkRaced(r) ==
  seen[r] = "enabled" /\ firing[r] \in off /\ row[firing[r]].at = "there" => firing[r] \in raced

\* An entry that does not exist yet has not been disabled, nor is it listed or fired.
OffIsThere == \A e \in off : row[e].at # "new"

WorkIsThere ==
  \A r \in Runners, e \in Entries : e \in due[r] \/ firing[r] = e => row[e].at # "new"

UserInv == UserWins /\ OffIsThere /\ WorkIsThere /\ \A r \in Runners : MarkRaced(r)

\* The user comes.
LEMMA UserInvUser ==
  ASSUME TypeOK, UserInv, NEW e \in Entries, Create(e) \/ Disable(e) \/ Delete(e) \/ Come(e)
  PROVE  UserInv'
<1> USE DEF TypeOK, Rows, UserInv, UserWins, OffIsThere, WorkIsThere, MarkRaced
<1>1. CASE Create(e)
  BY <1>1, CronAssumption DEF Create, history
<1>2. CASE Disable(e) BY <1>2 DEF Disable
<1>3. CASE Delete(e) BY <1>3 DEF Delete
<1>4. CASE Come(e) BY <1>4 DEF Come, history
<1> QED BY <1>1, <1>2, <1>3, <1>4

\* A mark is read, and written.
LEMMA UserInvRead ==
  ASSUME TypeOK, UserInv, NEW r \in Runners, Return(r)
  PROVE  UserInv'
<1> USE DEF TypeOK, Rows, UserInv, UserWins, OffIsThere, WorkIsThere, MarkRaced
<1>1. row' = row /\ due' = due /\ off' = off /\ raced' = raced
  BY DEF Return, history
<1>2. CASE row[firing[r]].at = "gone"
  BY <1>1, <1>2, CronAssumption DEF Return, LoopFree
<1>3. CASE row[firing[r]].at # "gone"
  <2>1. firing' = firing /\ firing[r] \in Entries
    BY <1>3 DEF Return
  <2>2. MarkRaced(r)'
    <3>1. seen'[r] = "enabled" => row[firing[r]].enabled
      BY <1>3 DEF Return
    <3> QED BY <1>1, <2>1, <3>1
  <2>3. \A s \in Runners : s # r => seen'[s] = seen[s]
    BY <1>3 DEF Return
  <2>4. \A s \in Runners : MarkRaced(s)'
    BY <1>1, <2>1, <2>2, <2>3
  <2> QED BY <1>1, <2>1, <2>4
<1> QED BY <1>2, <1>3

LEMMA UserInvMark ==
  ASSUME TypeOK, UserInv, NEW r \in Runners, Mark(r)
  PROVE  UserInv'
<1> USE DEF TypeOK, Rows, UserInv, UserWins, OffIsThere, WorkIsThere, MarkRaced
<1>1. PICK e \in Entries : e = firing[r]
  BY DEF Mark
<1>2. row' = [row EXCEPT ![e] = Marked(e, seen[r] = "enabled")]
  BY <1>1, Zenon DEF Mark
<1>3. /\ Marked(e, seen[r] = "enabled") \in Rows
      /\ Marked(e, seen[r] = "enabled").at = row[e].at
      /\ Marked(e, seen[r] = "enabled").enabled =>
            row[e].at = "gone" \/ seen[r] = "enabled"
  BY MarkedType DEF Marked
<1>4. off' = off /\ raced' = raced /\ due' = due
  BY DEF Mark, history
<1>5. \A k \in Entries : row'[k].at = row[k].at
  BY <1>2, <1>3
<1>6. UserWins'
  <2> SUFFICES ASSUME NEW k \in off, row'[k].at = "there", row'[k].enabled PROVE k \in raced
    BY <1>4
  <2>1. CASE k = e
    <3>1. row[e].at = "there" /\ seen[r] = "enabled"
      BY <1>2, <1>3, <1>5, <2>1
    <3> QED BY <1>1, <2>1, <3>1
  <2>2. CASE k # e
    BY <1>2, <2>2
  <2> QED BY <2>1, <2>2
<1>7. \A s \in Runners :
         /\ seen'[s] # "nothing" => seen'[s] = seen[s] /\ firing'[s] = firing[s]
         /\ firing'[s] \in Entries => firing'[s] = firing[s]
  BY CronAssumption DEF Mark
<1>8. WorkIsThere' /\ \A s \in Runners : MarkRaced(s)'
  BY <1>4, <1>5, <1>7
<1> QED BY <1>4, <1>5, <1>6, <1>8

\* Whatever the user disables or deletes stays so, for any entries and runners,
\* several at a time too, unless the user came between the read and the write of
\* the entry's own mark.
THEOREM UserHasTheLastWord == Spec => []UserWins
<1> USE DEF UserInv, UserWins, OffIsThere, WorkIsThere, MarkRaced
<1>1. Init => UserInv
  BY CronAssumption DEF Init
<1>2. TypeOK /\ UserInv /\ [Next]_vars => UserInv'
  <2> SUFFICES ASSUME TypeOK, UserInv, [Next]_vars PROVE UserInv' OBVIOUS
  <2>1. ASSUME NEW r \in Runners,
               \/ List(r) \/ Leave(r) \/ MarkFails(r) \/ Die(r) \/ Cancel(r) \/ Start(r)
               \/ \E e \in Entries : Fire(r, e)
        PROVE  UserInv'
    <3>1. row' = row /\ off' = off /\ raced' = raced
      BY <2>1 DEF List, Leave, MarkFails, Die, Cancel, Start, Fire, history
    <3>2. \A s \in Runners : seen'[s] # "nothing" => seen'[s] = seen[s] /\ firing'[s] = firing[s]
      BY <2>1 DEF TypeOK, List, Leave, MarkFails, Die, Cancel, Start, Fire, LoopFree
    <3>3. \A s \in Runners, e \in Entries :
             e \in due'[s] \/ firing'[s] = e =>
                e \in due[s] \/ firing[s] = e \/ row[e].at = "there"
      BY <2>1, CronAssumption
         DEF TypeOK, List, Due, Leave, MarkFails, Die, Cancel, Start, Fire
    <3> QED BY <3>1, <3>2, <3>3
  <2>2. CASE Stop \/ Kill
    BY <2>2, CronAssumption DEF Stop, Kill, history
  <2>3. CASE UNCHANGED vars
    BY <2>3 DEF vars, history
  <2> QED BY <2>1, <2>2, <2>3, UserInvUser, UserInvRead, UserInvMark DEF Next, RunnerStep, Raise
<1> QED BY <1>1, <1>2, CronTypeOK, PTL DEF Spec

-----------------------------------------------------------------------------
(* One fire per occurrence.  A fire that has not been marked is paid for   *)
(* by the interruption that came between; a runner that is being stopped   *)
(* has already counted its own.                                            *)

Solo == \A r, s \in Runners : Running(r) /\ Running(s) => r = s

\* No more fires than interruptions and one.
Bounded(e) == fired[e] <= breaks + 1

\* An entry that nobody has created yet has no history.
NoHistory(e) ==
  row[e].at = "new" => fired[e] = 0 /\ \A r \in Runners : e \notin due[r] /\ firing[r] # e

\* An occurrence that waits has used up no more than the interruptions.
Waits(e) ==
  row[e].at = "there" /\ row[e].next = "come" /\ (\A r \in Runners : firing[r] # e)
     => fired[e] <= breaks

\* Nor has one that is listed; if the runner is being stopped, one less.
Listed(e, r) ==
  e \in due[r] => /\ firing[r] # e
                  /\ fired[e] <= breaks
                  /\ loop[r] = "stopping" => fired[e] < breaks

\* The fire that is under way when a runner is stopped may be lost.
Last(e, r) == firing[r] = e /\ loop[r] = "stopping" => fired[e] <= breaks

StopCounts(r) == loop[r] = "stopping" => breaks >= 1

Counted ==
  /\ TypeOK
  /\ Solo
  /\ \A e \in Entries : Bounded(e) /\ NoHistory(e) /\ Waits(e)
  /\ \A e \in Entries, r \in Runners : Listed(e, r) /\ Last(e, r)
  /\ \A r \in Runners : StopCounts(r)

\* The rest of the invariant for one entry.
Fine(e) ==
  Bounded(e) /\ NoHistory(e) /\ Waits(e) /\ \A r \in Runners : Listed(e, r) /\ Last(e, r)

\* Nobody but a running runner has anything listed or under way.
LEMMA IdleIsEmpty ==
  ASSUME TypeOK, NEW r \in Runners, ~Running(r)
  PROVE  due[r] = {} /\ firing[r] = None
  BY DEF TypeOK, Loops, Running

\* Only start makes a runner run, and it does so alone.
LEMMA SoloStep == ASSUME ~Again, TypeOK, Solo, [Next]_vars PROVE Solo'
<1> USE DEF Solo, Running, TypeOK
<1>1. ASSUME NEW r \in Runners, Start(r) PROVE Solo'
  BY <1>1 DEF Start
<1>2. ASSUME NEW r \in Runners, RunnerStep(r) \/ MarkFails(r) \/ Die(r) \/ Cancel(r) PROVE Solo'
  BY <1>2 DEF RunnerStep, List, Fire, Return, Raise, Mark, MarkFails, Leave, Die, Cancel
<1>3. ASSUME NEW e \in Entries, Create(e) \/ Disable(e) \/ Delete(e) \/ Come(e) PROVE Solo'
  BY <1>3 DEF Create, Disable, Delete, Come
<1>4. CASE Stop \/ Kill
  BY <1>4 DEF Stop, Kill
<1>5. CASE UNCHANGED vars
  BY <1>5 DEF vars
<1> QED BY <1>1, <1>2, <1>3, <1>4, <1>5 DEF Next

\* A stop is counted.
LEMMA StopCountsStep ==
  ASSUME TypeOK, \A r \in Runners : StopCounts(r), [Next]_vars, NEW r \in Runners
  PROVE  StopCounts(r)'
<1> USE DEF StopCounts, TypeOK
<1>1. ASSUME NEW s \in Runners,
             RunnerStep(s) \/ MarkFails(s) \/ Die(s) \/ Cancel(s) \/ Start(s)
      PROVE  StopCounts(r)'
  BY <1>1, CronAssumption DEF RunnerStep, List, Fire, Return, Raise, Mark, MarkFails, Leave, Die, Cancel, Start, Break
<1>2. ASSUME NEW e \in Entries, Create(e) \/ Disable(e) \/ Delete(e) \/ Come(e) PROVE StopCounts(r)'
  BY <1>2 DEF Create, Disable, Delete, Come
<1>3. CASE Stop \/ Kill
  BY <1>3, CronAssumption DEF Stop, Kill, Break
<1>4. CASE UNCHANGED vars
  BY <1>4 DEF vars
<1> QED BY <1>1, <1>2, <1>3, <1>4 DEF Next

\* The user and the clock.
LEMMA FineUser ==
  ASSUME Counted, NEW k \in Entries, NEW e \in Entries,
         Create(e) \/ Disable(e) \/ Delete(e) \/ Come(e)
  PROVE  Fine(k)'
<1> USE DEF Fine, Bounded, NoHistory, Waits, Listed, Last
<1>0. Fine(k) /\ \A r \in Runners : StopCounts(r)
  BY DEF Counted
<1>1. fired \in [Entries -> Nat] /\ row \in [Entries -> Rows] /\ breaks \in Nat
  BY CronAssumption DEF Counted, TypeOK
<1>2. CASE Create(e)
  BY <1>0, <1>1, <1>2 DEF Create, Rows
<1>3. CASE Disable(e)
  BY <1>0, <1>1, <1>3 DEF Disable, Rows
<1>4. CASE Delete(e)
  BY <1>0, <1>1, <1>4 DEF Delete, Rows
<1>5. CASE Come(e)
  BY <1>0, <1>1, <1>5 DEF Come, Rows, StopCounts
<1> QED BY <1>2, <1>3, <1>4, <1>5

\* A runner that lists, fires and marks.
LEMMA FineRunner ==
  ASSUME Counted, NEW k \in Entries, NEW r \in Runners, RunnerStep(r)
  PROVE  Fine(k)'
<1> USE DEF Fine, Bounded, NoHistory, Waits, Listed, Last
<1>0. Fine(k)
  BY DEF Counted
<1>1. fired \in [Entries -> Nat] /\ row \in [Entries -> Rows] /\ breaks \in Nat
      /\ due \in [Runners -> SUBSET Entries] /\ firing \in [Runners -> Entries \cup {None}]
      /\ loop \in [Runners -> Loops] /\ None \notin Entries
  BY CronAssumption DEF Counted, TypeOK
<1>2. Running(r) => \A s \in Runners : s # r => due[s] = {} /\ firing[s] = None
  BY IdleIsEmpty DEF Counted, Solo
<1>3. CASE List(r)
  <2>1. \A s \in Runners : firing[s] = None
    BY <1>2, <1>3 DEF List, Running
  <2>2. k \in Due => row[k].at = "there" /\ fired[k] <= breaks
    BY <1>0, <1>1, <2>1 DEF Due
  <2> QED BY <1>0, <1>1, <1>3, <2>1, <2>2 DEF List, Due
<1>4. ASSUME NEW e \in Entries, Fire(r, e) PROVE Fine(k)'
  <2>1. Running(r)
    BY <1>4, IdleIsEmpty DEF Fire, Counted
  <2>2. firing' = [firing EXCEPT ![r] = e] /\ due' = [due EXCEPT ![r] = due[r] \ {e}]
        /\ loop' = loop /\ row' = row /\ breaks' = breaks
    BY <1>4 DEF Fire
  <2>3. CASE k = e
    <3>1. fired'[k] = fired[k] + 1 /\ k \in due[r]
      BY <1>1, <1>4, <2>3 DEF Fire
    <3>2. row[k].at # "new"
      BY <1>0, <3>1
    <3>3. fired[k] <= breaks /\ (loop[r] = "stopping" => fired[k] < breaks)
      BY <1>0, <3>1
    <3>4. \A s \in Runners : s # r => k \notin due'[s] /\ firing'[s] # k
      BY <1>1, <1>2, <2>1, <2>2
    <3>5. k \notin due'[r] /\ firing'[r] = k
      BY <1>1, <2>2, <2>3
    <3> QED BY <1>1, <2>2, <3>1, <3>2, <3>3, <3>4, <3>5
  <2>4. CASE k # e
    <3>1. fired'[k] = fired[k]
      BY <1>1, <1>4, <2>4 DEF Fire
    <3>2. \A s \in Runners : (firing'[s] = k => firing[s] = k) /\ (k \in due'[s] => k \in due[s] /\ firing'[s] # k)
      BY <1>0, <1>1, <2>2, <2>4
    <3>3. \A s \in Runners : firing[s] = k => firing'[s] = k
      BY <1>1, <1>4, <2>2 DEF Fire
    <3> QED BY <1>0, <1>1, <2>2, <3>1, <3>2, <3>3
  <2> QED BY <2>3, <2>4
<1>5. CASE Return(r)
  <2>1. row' = row /\ due' = due /\ loop' = loop /\ fired' = fired /\ breaks' = breaks
    BY <1>5 DEF Return
  <2>2. \A s \in Runners : firing'[s] = k => firing[s] = k
    BY <1>1, <1>5 DEF Return
  <2>3. Waits(k)'
    <3>1. CASE row[k].at = "gone"
      BY <2>1, <3>1
    <3>2. CASE row[k].at # "gone"
      <4>1. \A s \in Runners : firing[s] = k => firing'[s] = k
        BY <1>1, <1>5, <3>2 DEF Return
      <4> QED BY <1>0, <2>1, <4>1
    <3> QED BY <3>1, <3>2
  <2> QED BY <1>0, <2>1, <2>2, <2>3
<1>7. CASE Mark(r)
  <2>1. PICK e \in Entries : e = firing[r]
    BY <1>1, <1>7 DEF Mark, Counted, TypeOK
  <2> DEFINE new == Marked(e, seen[r] = "enabled")
  <2>2. row' = [row EXCEPT ![e] = new]
    BY <1>7, <2>1, Zenon DEF Mark
  <2>3. new \in Rows /\ new.at = row[e].at /\ (new.at = "gone" \/ new.next # "come")
    BY <1>1, MarkedType DEF Marked, Rows, Counted
  <2> HIDE DEF new
  <2>4. row'[k].at = row[k].at
    BY <1>1, <2>2, <2>3
  <2>5. firing' = [firing EXCEPT ![r] = None] /\ due' = due /\ loop' = loop
        /\ fired' = fired /\ breaks' = breaks
    BY <1>7 DEF Mark
  <2>6. \A s \in Runners : firing'[s] = k => firing[s] = k
    BY <1>1, <2>5
  <2>7. Waits(k)'
    <3>1. CASE k = e
      BY <1>1, <2>2, <2>3, <3>1
    <3>2. CASE k # e
      <4>1. \A s \in Runners : firing[s] = k => firing'[s] = k
        BY <1>1, <2>1, <2>5, <3>2
      <4> QED BY <1>0, <1>1, <2>2, <2>5, <3>2, <4>1
    <3> QED BY <3>1, <3>2
  <2> QED BY <1>0, <2>4, <2>5, <2>6, <2>7
<1>6. CASE Leave(r)
  BY <1>0, <1>1, <1>6 DEF Leave
<1> QED BY <1>3, <1>4, <1>5, <1>6, <1>7 DEF RunnerStep, Raise

\* What stops runners.
LEMMA FineBreak ==
  ASSUME Counted, NEW k \in Entries,
         Stop \/ Kill \/ \E r \in Runners : MarkFails(r) \/ Die(r) \/ Cancel(r) \/ Start(r)
  PROVE  Fine(k)'
<1> USE DEF Fine, Bounded, NoHistory, Waits, Listed, Last
<1>0. Fine(k)
  BY DEF Counted
<1>1. fired \in [Entries -> Nat] /\ row \in [Entries -> Rows] /\ breaks \in Nat
      /\ due \in [Runners -> SUBSET Entries] /\ firing \in [Runners -> Entries \cup {None}]
      /\ loop \in [Runners -> Loops] /\ None \notin Entries
  BY CronAssumption DEF Counted, TypeOK
<1>2. CASE Stop
  <2>1. breaks' = breaks + 1 /\ fired' = fired /\ row' = row /\ due' = due /\ firing' = firing
    BY <1>2 DEF Stop, Break
  <2> QED BY <1>0, <1>1, <2>1
<1>3. CASE Kill
  <2>1. breaks' = breaks + 1 /\ fired' = fired /\ row' = row
    BY <1>3 DEF Kill, Break
  <2>2. \A s \in Runners : due'[s] = {} /\ firing'[s] = None
    BY <1>3 DEF Kill
  <2> QED BY <1>0, <1>1, <2>1, <2>2
<1>4. ASSUME NEW r \in Runners, Die(r) PROVE Fine(k)'
  <2>1. breaks' = breaks + 1 /\ fired' = fired /\ row' = row
    BY <1>4 DEF Die, Break
  <2>2. \A s \in Runners : (k \in due'[s] => k \in due[s]) /\ (firing'[s] = k => firing[s] = k)
    BY <1>1, <1>4 DEF Die
  <2> QED BY <1>0, <1>1, <2>1, <2>2
<1>5. ASSUME NEW r \in Runners, Cancel(r) PROVE Fine(k)'
  <2>1. breaks' = breaks /\ fired' = fired /\ row' = row
    BY <1>5 DEF Cancel
  <2>2. \A s \in Runners : /\ k \in due'[s] => k \in due[s]
                           /\ firing'[s] = k => firing[s] = k
                           /\ loop'[s] = "stopping" => loop[s] = "stopping"
    BY <1>1, <1>5 DEF Cancel
  <2>3. \A s \in Runners : firing[s] = k => firing'[s] = k \/ (s = r /\ loop[r] = "stopping")
    BY <1>1, <1>5 DEF Cancel
  <2> QED BY <1>0, <1>1, <2>1, <2>2, <2>3
<1>6. ASSUME NEW r \in Runners, Start(r) PROVE Fine(k)'
  <2>1. breaks' = breaks /\ fired' = fired /\ row' = row /\ due' = due /\ firing' = firing
    BY <1>6 DEF Start
  <2>2. \A s \in Runners : loop'[s] = "stopping" => loop[s] = "stopping"
    BY <1>1, <1>6 DEF Start
  <2> QED BY <1>0, <2>1, <2>2
<1>7. ASSUME NEW r \in Runners, MarkFails(r) PROVE Fine(k)'
  <2>1. breaks' = breaks + 1 /\ fired' = fired /\ row' = row /\ due' = due /\ firing' = firing
        /\ loop' = loop
    BY <1>7 DEF MarkFails, Break
  <2> QED BY <1>0, <1>1, <2>1
<1> QED BY <1>2, <1>3, <1>4, <1>5, <1>6, <1>7

\* The inductive invariant, when nobody starts a runner next to a running one:
\* every fire that was not marked is paid for by an interruption.
THEOREM FiresAreCounted == ASSUME ~Again PROVE Spec => []Counted
<1>1. Init => Counted
  <2> SUFFICES ASSUME Init PROVE Counted OBVIOUS
  <2>1. TypeOK
    BY CronAssumption DEF Init, TypeOK, Rows, Loops
  <2>2. Solo
    BY DEF Init, Solo, Running
  <2> QED BY <2>1, <2>2, CronAssumption
        DEF Init, Counted, Bounded, NoHistory, Waits, Listed, Last, StopCounts
<1>2. Counted /\ [Next]_vars => Counted'
  <2> SUFFICES ASSUME Counted, [Next]_vars PROVE Counted' OBVIOUS
  <2>1. TypeOK' /\ Solo' /\ \A r \in Runners : StopCounts(r)'
    BY TypeStep, SoloStep, StopCountsStep DEF Counted
  <2>2. ASSUME NEW k \in Entries PROVE Fine(k)'
    <3>1. CASE UNCHANGED vars
      BY <3>1 DEF vars, Counted, Fine, Bounded, NoHistory, Waits, Listed, Last
    <3>2. CASE Next
      BY <3>2, FineUser, FineRunner, FineBreak DEF Next
    <3> QED BY <3>1, <3>2
  <2> QED BY <2>1, <2>2 DEF Counted, Fine
<1> QED BY <1>1, <1>2, PTL DEF Spec

\* An occurrence is fired once and once more for each interruption, for any
\* entries, runners and number of interruptions.
THEOREM FiredOnce == ASSUME ~Again PROVE Spec => []OncePerOccurrence
<1>1. Counted => OncePerOccurrence
  BY CronAssumption DEF Counted, Bounded, OncePerOccurrence, TypeOK
<1> QED BY <1>1, FiresAreCounted, PTL

=============================================================================
