---------------------------- MODULE WorkspaceLease ----------------------------
(***************************************************************************)
(* The lease file that keeps two dispatches out of one task's workspace    *)
(* (infra/k8s/_worker_core.py), as the worker servers use it on a volume   *)
(* that the replicas share.  One workspace is modelled: workspaces share   *)
(* nothing.                                                                *)
(*                                                                         *)
(* A dispatch reads the lease, writes a temporary file named for its pod,  *)
(* renames it over the lease and reads the lease again.  A holder sets up  *)
(* the repository, spawns the CLI and waits for it, while its heartbeat    *)
(* task renews the lease.  Heartbeat and PID update read the file, change  *)
(* one field and rename a copy over the lease: each is two steps.          *)
(***************************************************************************)
EXTENDS Naturals, FiniteSets

CONSTANTS
    Pods,         \* replicas of the worker (HOSTNAME): each is the set of the
                  \* requests for this task that it is sent
    None,         \* no lease, nothing read, nothing staged
    MaxServed,    \* bound: requests served at once
    AskBroken,    \* bound: FALSE: no request comes while the promise is broken
    MaxFaults     \* bound: kills, failing reads and writes, late renewals

Dispatches == UNION Pods
PodOf(d) == CHOOSE p \in Pods : d \in p

ASSUME PodsAssumption == \A p, q \in Pods : p # q => p \cap q = {}

ASSUME BoundsAssumption == MaxServed \in Nat /\ AskBroken \in BOOLEAN /\ MaxFaults \in Nat

VARIABLES
    lease,    \* what .lease.json says, or None
    staged,   \* by whom each pod's .lease.tmp.<pod> was written, or None
    pc,       \* what each dispatch is doing
    seen,     \* what each heartbeat has read and not yet written back, or None
    mark,     \* the same for each PID update
    sweep,    \* TRUE: a cleanup has judged the lease stale and will unlink it
    faults,   \* faults so far
    \* History, which guards nothing.
    passed,   \* dispatches past their check when another was confirmed
    raced,    \* somebody renamed a lease since the cleanup judged
    broken,   \* a step broke the lease's promise (see Recall)
    ghostly   \* the lease is of an ended dispatch, and may be (see Recall)

history == <<passed, raced, broken, ghostly>>
vars == <<lease, staged, pc, seen, mark, sweep, faults, history>>

\* by: the dispatch whose session the lease names.  fresh: heartbeat_at is
\* younger than the TTL.
Leases == [by : Dispatches, fresh : BOOLEAN]

ASSUME NoneAssumption == None \notin Dispatches \cup Leases

Acquiring == {"checked", "written", "renamed"}
Working == {"setup", "marking", "running", "unmarking", "stopping"}

\* "idle": no request, or an answered one.  "dead": killed with its pod.
Phases == {"idle", "dead"} \cup Acquiring \cup Working

TypeOK ==
    /\ lease \in Leases \cup {None}
    /\ staged \in [Pods -> Dispatches \cup {None}]
    /\ pc \in [Dispatches -> Phases]
    /\ seen \in [Dispatches -> Leases \cup {None}]
    /\ mark \in [Dispatches -> Leases \cup {None}]
    /\ sweep \in BOOLEAN
    /\ faults \in 0..MaxFaults
    /\ passed \subseteq Dispatches
    /\ raced \in BOOLEAN
    /\ broken \in BOOLEAN
    /\ ghostly \in BOOLEAN

Init ==
    /\ lease = None
    /\ staged = [p \in Pods |-> None]
    /\ pc = [d \in Dispatches |-> "idle"]
    /\ seen = [d \in Dispatches |-> None]
    /\ mark = [d \in Dispatches |-> None]
    /\ sweep = FALSE
    /\ faults = 0
    /\ passed = {}
    /\ raced = FALSE
    /\ broken = FALSE
    /\ ghostly = FALSE

Fresh == lease # None /\ lease.fresh

\* A request for this task arrives at an idle or a restarted worker.
Asked(d) ==
    /\ pc[d] \in {"idle", "dead"}
    /\ broken => AskBroken
    /\ Cardinality({e \in Dispatches : pc[e] \notin {"idle", "dead"}}) < MaxServed
    /\ pc' = [pc EXCEPT ![d] = "checked"]

Goto(d, from, to) == pc[d] = from /\ pc' = [pc EXCEPT ![d] = to]

Fault == faults < MaxFaults /\ faults' = faults + 1

\* What the history keeps of a step.  From a step that breaks the lease's
\* promise, broken lasts until every dispatch is ended or dead.  A fresh lease
\* of an ended dispatch is ghostly when the promise was broken, or when a
\* dispatch left it unread, and as long as it stays.
Recall(breaks, leaves) ==
    /\ passed' = {e \in Dispatches :
                    /\ pc'[e] \in {"checked", "written"}
                    /\ e \in passed \/ \E d \in Dispatches : pc[d] = "renamed" /\ pc'[d] = "setup"}
    /\ raced' = (sweep /\ sweep' /\ (raced \/ \E d \in Dispatches :
                                         pc[d] = "written" /\ pc'[d] = "renamed"))
    /\ broken' = ((broken \/ breaks) /\ \E d \in Dispatches : pc'[d] \notin {"idle", "dead"})
    /\ ghostly' = ((ghostly \/ broken \/ breaks \/ leaves)
                     /\ lease' # None /\ lease'.fresh /\ pc'[lease'.by] = "idle")

Nothing == Recall(FALSE, FALSE)

-----------------------------------------------------------------------------
(* acquire_lease. *)

\* Mutant: an expired lease is honoured like a fresh one.
CheckForGood(d) ==
    /\ Asked(d)
    /\ lease = None
    /\ UNCHANGED <<lease, staged, seen, mark, sweep, faults>>
    /\ Nothing

\* _check_existing finds no live lease; if it does the request gets a 409.
Check(d) ==
    /\ Asked(d)
    /\ ~Fresh
    /\ UNCHANGED <<lease, staged, seen, mark, sweep, faults>>
    /\ Nothing

\* A lease that cannot be read counts as dead: the promise is broken.
CheckUnread(d) ==
    /\ Asked(d)
    /\ Fresh
    /\ Fault
    /\ UNCHANGED <<lease, staged, seen, mark, sweep>>
    /\ Recall(TRUE, FALSE)

\* Another acquisition of this pod has written its file, or renamed it and not
\* read it again.
Twin(d) == \E e \in Dispatches \ {d} :
    PodOf(e) = PodOf(d) /\ pc[e] \in {"written", "renamed"}

\* Mutant: the temporary file says which pod, not which session.
WritePodOnly(d) ==
    /\ Goto(d, "checked", "written")
    /\ staged' = [staged EXCEPT ![PodOf(d)] = PodOf(d)]
    /\ UNCHANGED <<lease, seen, mark, sweep, faults>>
    /\ Recall(Twin(d), FALSE)

\* The temporary file's name has the pod in it, not the request, and what is
\* read again tells pods apart and not requests: twins break the promise.
Write(d) ==
    /\ Goto(d, "checked", "written")
    /\ staged' = [staged EXCEPT ![PodOf(d)] = d]
    /\ UNCHANGED <<lease, seen, mark, sweep, faults>>
    /\ Recall(Twin(d), FALSE)

\* Nothing was confirmed yet when this dispatch looked, and now somebody works
\* who was: the rename takes the lease from under it.
Overtakes(d) ==
    d \in passed /\ \E e \in Dispatches : pc[e] \in Working

Rename(d) ==
    LET from == staged[PodOf(d)] IN
    /\ Goto(d, "written", IF from = None THEN "idle" ELSE "renamed")
    /\ lease' = IF from = None THEN lease ELSE [by |-> from, fresh |-> TRUE]
    /\ staged' = [staged EXCEPT ![PodOf(d)] = None]
    /\ UNCHANGED <<seen, mark, sweep, faults>>
    /\ Recall(Overtakes(d), FALSE)

\* Mutant: whoever renamed has won.
ConfirmAnyway(d) ==
    /\ Goto(d, "renamed", IF lease # None THEN "setup" ELSE "idle")
    /\ staged' = IF lease = None THEN [staged EXCEPT ![PodOf(d)] = None] ELSE staged
    /\ UNCHANGED <<lease, seen, mark, sweep, faults>>
    /\ Nothing

\* _write_and_confirm compares the pod, not the session; a file that is gone
\* is an OSError, which also unlinks the pod's temporary file.
Confirm(d) ==
    /\ Goto(d, "renamed",
            IF lease # None /\ PodOf(lease.by) = PodOf(d) THEN "setup" ELSE "idle")
    /\ staged' = IF lease = None THEN [staged EXCEPT ![PodOf(d)] = None] ELSE staged
    /\ UNCHANGED <<lease, seen, mark, sweep, faults>>
    /\ Nothing

\* The temporary file cannot be written or renamed.
WriteFails(d) ==
    /\ pc[d] \in {"checked", "written"}
    /\ Fault
    /\ pc' = [pc EXCEPT ![d] = "idle"]
    /\ staged' = [staged EXCEPT ![PodOf(d)] = None]
    /\ UNCHANGED <<lease, seen, mark, sweep>>
    /\ Nothing

\* The lease was renamed and cannot be read again: it stays, fresh.
ConfirmFails(d) ==
    /\ Fault
    /\ Goto(d, "renamed", "idle")
    /\ staged' = [staged EXCEPT ![PodOf(d)] = None]
    /\ UNCHANGED <<lease, seen, mark, sweep>>
    /\ Recall(FALSE, TRUE)

-----------------------------------------------------------------------------
(* dispatch_handler, run_subprocess_with_progress. *)

\* The repository or the credentials cannot be set up: release_lease.
SetupFails(d) ==
    /\ Goto(d, "setup", "idle")
    /\ lease' = None
    /\ UNCHANGED <<staged, seen, mark, sweep, faults>>
    /\ Nothing

\* The CLI cannot be spawned: the heartbeat is stopped, the lease released.
SpawnFails(d) ==
    /\ Goto(d, "setup", "stopping")
    /\ UNCHANGED <<lease, staged, seen, mark, sweep, faults>>
    /\ Nothing

\* The CLI is spawned; update_lease_subprocess_pid reads the lease.
Spawn(d) ==
    /\ Goto(d, "setup", "marking")
    /\ mark' = [mark EXCEPT ![d] = lease]
    /\ UNCHANGED <<lease, staged, seen, sweep, faults>>
    /\ Nothing

\* ... and writes what it read, the PID apart.  It writes nothing if there was
\* nothing to read.
MarkWritten(d, from, to) ==
    /\ Goto(d, from, to)
    /\ lease' = IF mark[d] = None THEN lease ELSE mark[d]
    /\ mark' = [mark EXCEPT ![d] = None]
    /\ UNCHANGED <<staged, seen, sweep, faults>>
    /\ Nothing

MarkSpawned(d) == MarkWritten(d, "marking", "running")

\* The CLI ends, or its timeout kills it; the PID is cleared the same way.
CliEnds(d) ==
    /\ Goto(d, "running", "unmarking")
    /\ mark' = [mark EXCEPT ![d] = lease]
    /\ UNCHANGED <<lease, staged, seen, sweep, faults>>
    /\ Nothing

\* The CLI server then commits and pushes the work, with the lease as it is;
\* the result is saved; stop_hb.set().
MarkEnded(d) == MarkWritten(d, "unmarking", "stopping")

\* heartbeat_loop: a lease that is gone is logged and left alone.  The CLI
\* server starts the task with the spawn, the Claude server before its set-up,
\* which is shorter than the TTL or a late renewal (Expire).
BeatRead(d) ==
    /\ pc[d] \in Working \ {"setup", "stopping"}
    /\ seen[d] = None
    /\ lease # None
    /\ seen' = [seen EXCEPT ![d] = lease]
    /\ UNCHANGED <<lease, staged, pc, mark, sweep, faults>>
    /\ Nothing

BeatWrite(d) ==
    /\ seen[d] # None
    /\ lease' = [by |-> seen[d].by, fresh |-> TRUE]
    /\ seen' = [seen EXCEPT ![d] = None]
    /\ UNCHANGED <<staged, pc, mark, sweep, faults>>
    /\ Nothing

\* Mutant: the lease is unlinked while a heartbeat may be writing.
ReleaseAtOnce(d) ==
    /\ Goto(d, "stopping", "idle")
    /\ lease' = None
    /\ UNCHANGED <<staged, seen, mark, sweep, faults>>
    /\ Nothing

\* The heartbeat task is awaited before release_lease unlinks the file,
\* whosever it is.
Release(d) ==
    /\ seen[d] = None
    /\ Goto(d, "stopping", "idle")
    /\ lease' = None
    /\ UNCHANGED <<staged, seen, mark, sweep, faults>>
    /\ Nothing

-----------------------------------------------------------------------------
(* Cleanup, crashes and the clock. *)

\* Mutant: the cleanup forgets to ask for the age.
SweepAny ==
    /\ ~sweep
    /\ lease # None
    /\ sweep' = TRUE
    /\ UNCHANGED <<lease, staged, pc, seen, mark, faults>>
    /\ Nothing

\* startup_cleanup (at boot and from the cron job): lease_is_stale by age, or
\* because the pod is missing from the presence registry ...  The PID it also
\* asks for is of another pod's namespace: the test can only keep a lease, and
\* nobody need run the cleanup anyway.
SweepJudge ==
    /\ ~sweep
    /\ lease # None
    /\ lease.fresh => pc[lease.by] = "dead"
    /\ sweep' = TRUE
    /\ UNCHANGED <<lease, staged, pc, seen, mark, faults>>
    /\ Nothing

\* A live pod is missing from the set when the registry cannot be listed, its
\* file cannot be read or is late: _get_alive_pods omits it.
SweepMisjudge ==
    /\ ~sweep
    /\ Fresh
    /\ pc[lease.by] # "dead"
    /\ Fault
    /\ sweep' = TRUE
    /\ UNCHANGED <<lease, staged, pc, seen, mark>>
    /\ Recall(TRUE, FALSE)

\* ... then unlink, though it be another lease by now.
SweepUnlink ==
    /\ sweep
    /\ sweep' = FALSE
    /\ lease' = None
    /\ UNCHANGED <<staged, pc, seen, mark, faults>>
    /\ Recall(raced, FALSE)

\* A pod is killed with its dispatches and their CLIs; the files stay.
Crash(p) ==
    /\ Fault
    /\ pc' = [d \in Dispatches |-> IF d \in p /\ pc[d] # "idle" THEN "dead" ELSE pc[d]]
    /\ seen' = [d \in Dispatches |-> IF d \in p THEN None ELSE seen[d]]
    /\ mark' = [d \in Dispatches |-> IF d \in p THEN None ELSE mark[d]]
    /\ UNCHANGED <<lease, staged, sweep>>
    /\ Nothing

\* The lease was renamed a moment ago, or its dispatch is there to renew it.
Young ==
    \/ \E d \in Dispatches : pc[d] = "renamed" /\ PodOf(d) = PodOf(lease.by)
    \/ pc[lease.by] \in Working

\* heartbeat_at becomes older than the TTL.
Expire ==
    /\ Fresh
    /\ ~Young
    /\ lease' = [by |-> lease.by, fresh |-> FALSE]
    /\ UNCHANGED <<staged, pc, seen, mark, sweep, faults>>
    /\ Nothing

\* ... though its dispatch is alive: the renewals fail or are late.
ExpireLate ==
    /\ Fresh
    /\ Young
    /\ Fault
    /\ lease' = [by |-> lease.by, fresh |-> FALSE]
    /\ UNCHANGED <<staged, pc, seen, mark, sweep>>
    /\ Recall(TRUE, FALSE)

-----------------------------------------------------------------------------

\* What a dispatch does once its request was let through.
Proceed(d) ==
    \/ Write(d) \/ Rename(d) \/ Confirm(d)
    \/ Spawn(d) \/ MarkSpawned(d) \/ CliEnds(d) \/ MarkEnded(d)
    \/ BeatWrite(d) \/ Release(d)

Next ==
    \/ \E d \in Dispatches :
         \/ Check(d) \/ CheckUnread(d) \/ WriteFails(d) \/ ConfirmFails(d)
         \/ Proceed(d) \/ BeatRead(d) \/ SetupFails(d) \/ SpawnFails(d)
    \/ SweepJudge \/ SweepMisjudge \/ SweepUnlink \/ Expire \/ ExpireLate
    \/ \E p \in Pods : Crash(p)

Spec == Init /\ [][Next]_vars

\* The pipeline asks again at every tick; threads, CLIs (by their timeout) and
\* the clock go on.  Nobody need run the cleanup, or end it.
Fairness ==
    /\ WF_vars(\E d \in Dispatches : Check(d))
    /\ \A d \in Dispatches : WF_vars(Proceed(d))
    /\ WF_vars(Expire)

FairSpec == Spec /\ Fairness

-----------------------------------------------------------------------------

Own(d) == [by |-> d, fresh |-> TRUE]

\* A cleanup is about to unlink the lease it judged.
Judged == sweep /\ ~raced

\* Two dispatches work in the workspace at once only after twins, a rename over
\* somebody confirmed in the meantime, a cleanup that unlinks a younger lease
\* than it judged, an unreadable fresh lease or registry, or a late renewal
\* (_worker_core.py acquire_lease; claude_worker_server.py dispatch_handler).
OneWorker ==
    \A d, e \in Dispatches : pc[d] \in Working /\ pc[e] \in Working => d = e \/ broken

\* What a heartbeat or a PID update will write back was read at work.
ReadAtWork ==
    \A d \in Dispatches :
        /\ seen[d] # None => pc[d] \in Working \ {"setup"}
        /\ mark[d] # None => pc[d] \in {"marking", "unmarking"}

\* Until the promise is broken, for each dispatch.
Kept(d) ==
    /\ pc[d] \in Working => lease = Own(d)
    /\ seen[d] \in {None, Own(d)} /\ mark[d] \in {None, Own(d)}
    /\ pc[d] = "written" => staged[PodOf(d)] \in {d, None}
    /\ pc[d] = "renamed" => lease = None \/ lease = Own(d) \/ PodOf(lease.by) # PodOf(d)
    /\ pc[d] \in {"written", "renamed"} => ~Twin(d)
    /\ pc[d] \in {"checked", "written"} =>
          lease # Own(d) /\ (d \notin passed => \A e \in Dispatches : pc[e] \notin Working)
    /\ Judged => pc[d] \notin Working /\ (pc[d] = "renamed" => lease # Own(d))

\* As long as a dispatch works, the lease is its own and fresh, and so is what
\* its heartbeat and its PID update will write back; a renamed lease is its
\* dispatch's, another pod's or gone; whoever checked, with nobody confirmed
\* since, finds nobody at work, and so does a cleanup with which no rename
\* raced.  The invariant of the proof (acquire_lease, heartbeat_loop,
\* startup_cleanup).
HolderOwnsLease == ReadAtWork /\ (~broken => \A d \in Dispatches : Kept(d))

\* No fresh lease is of a dispatch that ended in an orderly way, not even one
\* that a late heartbeat wrote again, but for those a failed reading leaves
\* behind (_run_and_finalize, _cleanup_lease; acquire_lease, step 4).
NoGhost == lease # None /\ lease.fresh /\ pc[lease.by] = "idle" => ghostly

\* The lease of a killed pod does not keep the workspace shut: somebody works in
\* it again (acquire_lease, steps 1 and 2; "auto-cura" of _count_live_leases).
Recovers ==
    \A d \in Dispatches :
        lease # None /\ lease.by = d /\ pc[d] = "dead"
            ~> \E e \in Dispatches : pc[e] \in Working
=============================================================================
