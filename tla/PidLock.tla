------------------------------- MODULE PidLock -------------------------------
(***************************************************************************)
(* The PID lockfile that keeps two pipeline monitors with one identity     *)
(* from running on one host (pipeline/lockfile.py), as PipelineMonitor     *)
(* start() and stop() use it.                                              *)
(*                                                                         *)
(* A process is named by its PID.  acquire() is not atomic: it reads the   *)
(* file, judges the PID it finds, opens the file for writing (which        *)
(* truncates it) and writes its own PID.  release() reads, compares and    *)
(* unlinks.  Each of these system calls is an action of its own, and a     *)
(* process may be killed between any two of them.                          *)
(***************************************************************************)
EXTENDS Naturals, FiniteSets

CONSTANTS
    Pids,         \* PIDs the host may give to a process
    NoPid,        \* content of an absent, empty or unparsable lockfile
    SerialStart   \* TRUE: the operator starts one monitor at a time

ASSUME NoPidAssumption == NoPid \notin Pids
ASSUME SerialStartAssumption == SerialStart \in BOOLEAN

VARIABLES
    file,   \* PID that a reader of the lockfile parses, or NoPid
    pc      \* what the process with each PID is doing

vars == <<file, pc>>

\* "down": no process has this PID.  "foreign": the host gave the PID to a
\* process that is not a monitor.  "idle": a monitor process, not started.
Phases == {"down", "foreign", "idle", "reading", "opening", "writing",
           "booting", "running", "failed", "stopping", "unlinking"}

\* Inside acquire().
Acquiring == {"reading", "opening", "writing"}

\* acquire() has returned and release() has not begun to unlink.
Holding == {"booting", "running", "failed", "stopping"}

TypeOK ==
    /\ file \in Pids \cup {NoPid}
    /\ pc \in [Pids -> Phases]

Init ==
    /\ file = NoPid
    /\ pc = [p \in Pids |-> "down"]

-----------------------------------------------------------------------------

\* _pid_alive: os.kill(pid, 0) finds any process, a monitor or not.
PidAlive(pid) == pid \in Pids /\ pc[pid] # "down"

\* PipelineMonitor.start(): is_running is false, the lock is wanted.  A monitor
\* whose boot failed may be started again; it still owns the file.
Start(p) ==
    /\ pc[p] \in {"idle", "failed"}
    /\ SerialStart => \A q \in Pids : pc[q] \notin Acquiring
    /\ pc' = [pc EXCEPT ![p] = "reading"]
    /\ UNCHANGED file

\* Mutant: a lock is honoured only until its process looks dead.
HeldOnlyIfDead(p) == file \notin {NoPid, p} /\ ~PidAlive(file)

\* acquire(): the recorded holder is alive and is not this process.
Held(p) == file \notin {NoPid, p} /\ PidAlive(file)

\* Mutant: the refused process is left in a state nothing leaves.
RefuseForGood(p) ==
    /\ pc[p] = "reading"
    /\ Held(p)
    /\ pc' = [pc EXCEPT ![p] = "refused"]
    /\ UNCHANGED file

\* acquire() raises LockHeldError.
Refuse(p) ==
    /\ pc[p] = "reading"
    /\ Held(p)
    /\ pc' = [pc EXCEPT ![p] = "idle"]
    /\ UNCHANGED file

\* acquire() found no file, garbage, a dead PID or its own PID.
PassGuard(p) ==
    /\ pc[p] = "reading"
    /\ ~Held(p)
    /\ pc' = [pc EXCEPT ![p] = "opening"]
    /\ UNCHANGED file

\* path.write_text: the open truncates, so a reader now parses "" as 0.
OpenTruncate(p) ==
    /\ pc[p] = "opening"
    /\ file' = NoPid
    /\ pc' = [pc EXCEPT ![p] = "writing"]

\* Mutant: the PID never reaches the file.
WriteNothing(p) ==
    /\ pc[p] = "writing"
    /\ pc' = [pc EXCEPT ![p] = "booting"]
    /\ UNCHANGED file

\* path.write_text: the PID reaches the file and acquire() returns.
WritePid(p) ==
    /\ pc[p] = "writing"
    /\ file' = p
    /\ pc' = [pc EXCEPT ![p] = "booting"]

\* start() gets past ensure_pipeline_labels and creates the polling task.
BootOk(p) ==
    /\ pc[p] = "booting"
    /\ pc' = [pc EXCEPT ![p] = "running"]
    /\ UNCHANGED file

\* ensure_pipeline_labels raises: start() propagates and keeps the lock.
BootFails(p) ==
    /\ pc[p] = "booting"
    /\ pc' = [pc EXCEPT ![p] = "failed"]
    /\ UNCHANGED file

\* stop() ends the loop and calls release().
Stop(p) ==
    /\ pc[p] \in {"running", "failed"}
    /\ pc' = [pc EXCEPT ![p] = "stopping"]
    /\ UNCHANGED file

\* release() reads the file: it unlinks only a file that holds its own PID.
ReleaseCompare(p) ==
    /\ pc[p] = "stopping"
    /\ pc' = [pc EXCEPT ![p] = IF file = p THEN "unlinking" ELSE "idle"]
    /\ UNCHANGED file

\* release() unlinks, whatever the file holds by now.
Unlink(p) ==
    /\ pc[p] = "unlinking"
    /\ file' = NoPid
    /\ pc' = [pc EXCEPT ![p] = "idle"]

\* The process exits or is killed; the lockfile stays as it is.
Exit(p) ==
    /\ pc[p] # "down"
    /\ pc' = [pc EXCEPT ![p] = "down"]
    /\ UNCHANGED file

\* The host gives a free PID to a monitor process or to any other process.
Spawn(p) ==
    /\ pc[p] = "down"
    /\ \E kind \in {"idle", "foreign"} : pc' = [pc EXCEPT ![p] = kind]
    /\ UNCHANGED file

Next ==
    \E p \in Pids :
        \/ Start(p) \/ Refuse(p) \/ PassGuard(p) \/ OpenTruncate(p)
        \/ WritePid(p) \/ BootOk(p) \/ BootFails(p)
        \/ Stop(p) \/ ReleaseCompare(p) \/ Unlink(p)
        \/ Exit(p) \/ Spawn(p)

Spec == Init /\ [][Next]_vars

-----------------------------------------------------------------------------

\* Two monitors never hold the lock at once: the promise of lockfile.py's
\* module docstring, "Prevents two monitors with the same identity running
\* simultaneously on the same host".
MutualExclusion ==
    \A p, q \in Pids : pc[p] \in Holding /\ pc[q] \in Holding => p = q

\* A release never takes away the lock of a live holder: when a process is
\* about to unlink, nobody else is past acquire().
NoForeignUnlink ==
    \A p, q \in Pids : pc[p] = "unlinking" /\ pc[q] \in Holding => p = q

\* The inductive invariant of a host that starts one monitor at a time: one
\* process is inside acquire(), the file names its holder for as long as the
\* lock is held, and an acquirer past the guard competes with no holder.
HolderOwnsFile ==
    \A p \in Pids :
        /\ pc[p] \in Acquiring => \A q \in Pids \ {p} : pc[q] \notin Acquiring
        /\ pc[p] \in Holding \cup {"unlinking"} => file = p
        /\ pc[p] \in {"opening", "writing"} =>
              \A q \in Pids \ {p} : pc[q] \notin Holding \cup {"unlinking"}

\* The lockfile is a lock: monitors come to hold it and let go of it as
\* Exclusion says.
HostLock == INSTANCE Exclusion WITH
    Actors <- Pids,
    inside <- {p \in Pids : pc[p] \in Holding}
ImplementsExclusion == HostLock!Spec

=============================================================================
