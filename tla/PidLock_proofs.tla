---------------------------- MODULE PidLock_proofs ----------------------------
(***************************************************************************)
(* On a host that starts one monitor at a time, the lockfile excludes, for *)
(* any number of processes and with kills at any point.                    *)
(***************************************************************************)
EXTENDS PidLock, TLAPS

\* The state predicate the proof carries from step to step.
Inv == TypeOK /\ HolderOwnsFile

\* The lockfile and the process table keep their types, whoever starts when
\* (PidLock's Spec, serial or not).
THEOREM PidLockTypeOK == Spec => []TypeOK
<1>1. Init => TypeOK
  BY DEF Init, TypeOK, Phases
<1>2. TypeOK /\ [Next]_vars => TypeOK'
  BY DEF TypeOK, Phases, Next, vars, Start, Refuse, PassGuard, OpenTruncate,
         WritePid, BootOk, BootFails, Stop, ReleaseCompare, Unlink, Exit, Spawn
<1>3. QED
  BY <1>1, <1>2, PTL DEF Spec

\* Every step of every process preserves the invariant when starts are serial.
LEMMA SerialStep ==
    ASSUME SerialStart, Inv, [Next]_vars
    PROVE  Inv'
<1> USE NoPidAssumption DEF Inv, TypeOK, HolderOwnsFile, Acquiring, Holding
<1>1. ASSUME NEW p \in Pids, Start(p) PROVE Inv'
  BY <1>1, SerialStart DEF Start, Phases
<1>2. ASSUME NEW p \in Pids, Refuse(p) PROVE Inv'
  BY <1>2 DEF Refuse, Phases
<1>3. ASSUME NEW p \in Pids, PassGuard(p) PROVE Inv'
  <2>1. \A q \in Pids \ {p} : pc[q] \notin Holding \cup {"unlinking"}
    \* A holder would own the file, and it is alive: the guard would refuse.
    BY <1>3 DEF PassGuard, Held, PidAlive
  <2>2. QED
    BY <1>3, <2>1 DEF PassGuard, Phases
<1>4. ASSUME NEW p \in Pids, OpenTruncate(p) PROVE Inv'
  BY <1>4 DEF OpenTruncate, Phases
<1>5. ASSUME NEW p \in Pids, WritePid(p) PROVE Inv'
  BY <1>5 DEF WritePid, Phases
<1>6. ASSUME NEW p \in Pids, BootOk(p) PROVE Inv'
  BY <1>6 DEF BootOk, Phases
<1>7. ASSUME NEW p \in Pids, BootFails(p) PROVE Inv'
  BY <1>7 DEF BootFails, Phases
<1>8. ASSUME NEW p \in Pids, Stop(p) PROVE Inv'
  BY <1>8 DEF Stop, Phases
<1>9. ASSUME NEW p \in Pids, ReleaseCompare(p) PROVE Inv'
  BY <1>9 DEF ReleaseCompare, Phases
<1>10. ASSUME NEW p \in Pids, Unlink(p) PROVE Inv'
  BY <1>10 DEF Unlink, Phases
<1>11. ASSUME NEW p \in Pids, Exit(p) PROVE Inv'
  BY <1>11 DEF Exit, Phases
<1>12. ASSUME NEW p \in Pids, Spawn(p) PROVE Inv'
  BY <1>12 DEF Spawn, Phases
<1>13. CASE UNCHANGED vars
  BY <1>13 DEF vars
<1>14. QED
  BY <1>1, <1>2, <1>3, <1>4, <1>5, <1>6, <1>7, <1>8, <1>9, <1>10, <1>11,
     <1>12, <1>13 DEF Next

\* Serial starts: two monitors with one identity never both hold the lock, and
\* no release takes away a live holder's lock (lockfile.py acquire, release).
THEOREM SerialExclusion ==
    ASSUME SerialStart
    PROVE  Spec => [](MutualExclusion /\ NoForeignUnlink)
<1>1. Init => Inv
  BY DEF Init, Inv, TypeOK, HolderOwnsFile, Phases, Acquiring, Holding
<1>2. Inv /\ [Next]_vars => Inv'
  BY SerialStep
<1>3. Inv => MutualExclusion /\ NoForeignUnlink
  BY NoPidAssumption DEF Inv, TypeOK, HolderOwnsFile, MutualExclusion,
     NoForeignUnlink, Holding
<1>4. QED
  BY <1>1, <1>2, <1>3, PTL DEF Spec

\* Serial starts: the file names whoever holds the lock for as long as it is
\* held, and nobody past acquire()'s guard competes with a holder.
THEOREM FileNamesHolder ==
    ASSUME SerialStart
    PROVE  Spec => []HolderOwnsFile
<1>1. Init => Inv
  BY DEF Init, Inv, TypeOK, HolderOwnsFile, Phases, Acquiring, Holding
<1>2. Inv /\ [Next]_vars => Inv'
  BY SerialStep
<1>3. Inv => HolderOwnsFile
  BY DEF Inv
<1>4. QED
  BY <1>1, <1>2, <1>3, PTL DEF Spec

\* Serial starts: release() never unlinks the file of another live holder.
THEOREM ReleaseIsOwn ==
    ASSUME SerialStart
    PROVE  Spec => []NoForeignUnlink
  BY SerialExclusion, PTL

Holders == {p \in Pids : pc[p] \in Holding}

\* Every step of every process is a step or a stutter of the abstract lock.
LEMMA HostStep ==
    ASSUME Inv, Inv', [Next]_vars
    PROVE  [HostLock!Next]_Holders
<1>1. \A a, b \in Holders : a = b
  BY DEF Inv, HolderOwnsFile, Holders
<1>2. \A a, b \in Holders' : a = b
  BY DEF Inv, HolderOwnsFile, Holders
<1>3. ASSUME NEW b \in Holders', b \notin Holders PROVE Holders = {}
  \* Only WritePid makes a holder, and an acquirer has no competitor left.
  <2>1. b \in Pids /\ pc[b] = "writing"
    BY <1>3 DEF Inv, TypeOK, Holders, Next, vars, Start, Refuse, PassGuard, OpenTruncate,
       WritePid, BootOk, BootFails, Stop, ReleaseCompare, Unlink, Exit, Spawn, Holding, Phases
  <2> QED BY <2>1, <1>3 DEF Inv, HolderOwnsFile, Holders
<1>4. CASE Holders' \subseteq Holders
  <2>1. CASE Holders' # Holders
    <3>1. PICK a \in Holders : a \notin Holders'
      BY <1>4, <2>1
    <3>2. Holders = {a} /\ Holders' = {} /\ a \in Pids
      BY <1>1, <1>4, <3>1 DEF Holders
    <3> QED BY <3>2 DEF HostLock!Next, HostLock!Leave, Holders
  <2> QED BY <2>1
<1>5. CASE ~(Holders' \subseteq Holders)
  <2>1. PICK b \in Holders' : b \notin Holders
    BY <1>5
  <2>2. Holders = {} /\ Holders' = {b} /\ b \in Pids
    BY <1>2, <1>3, <2>1 DEF Holders
  <2> QED BY <2>2 DEF HostLock!Next, HostLock!Enter, Holders
<1> QED BY <1>4, <1>5

\* Serial starts: the lockfile implements the abstract lock.
THEOREM PidLockIsALock ==
    ASSUME SerialStart
    PROVE  Spec => ImplementsExclusion
<1>1. Init => Inv /\ HostLock!Init
  BY DEF Init, Inv, TypeOK, HolderOwnsFile, Phases, Acquiring, Holding, HostLock!Init
<1>2. Inv /\ [Next]_vars => Inv'
  BY SerialStep
<1>3. Inv /\ Inv' /\ [Next]_vars => [HostLock!Next]_Holders
  BY HostStep
<1>4. QED
  BY <1>1, <1>2, <1>3, PTL DEF Spec, ImplementsExclusion, HostLock!Spec, Holders
=============================================================================
