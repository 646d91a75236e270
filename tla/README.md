# DEILE pipeline: a TLA+ model

DEILE is an autonomous development system: a *pipeline monitor* polls a forge (GitHub or
GitLab), moves issues through a state machine kept as labels, and dispatches the work of
each stage to *workers* that run coding sessions in their own pods. This directory holds
TLA+ modules for the parts of it that are hard to test, the TLC configurations that check
them, and TLAPS proofs.

All paths below are relative to the repository root as it stands under `src/`; `pipeline/`
abbreviates `deile/orchestration/pipeline/`.

## 1. Inventory

| Component | State it keeps | Operations | Interacts with |
|---|---|---|---|
| Implementation stages (`pipeline/stages.py`, `resume_state.py`) | labels `revisada`, `em_implementacao`, `em_pr`, `bloqueada`, `~by:`, `~attempt:N` on the forge; resume tracker and auth pauses in memory | implement, resume, reconcile, finalise, block, reap | forge, workers, ledger, poll loop |
| Critique and refinement gate (`stages.py`) | labels `nova`, `em_revisao`, `em_refinamento` or `em_arquitetura`, `refinar`, `~refine:N` | critique, refine, reconcile, reap, decompose | forge, workers, ledger |
| Pull-request review (`stages.py`, `review_callback.py`, `gc.py`) | labels `~review:pendente`, `em_andamento`, `concluida`; tracker of the reviewed SHA | classify, review, resume, auto-correct, invalidate, reconcile, reap | forge, workers, ledger |
| Mentions (`stages.py`) | a timestamp cursor in a file | poll, dispatch, advance | forge, workers |
| Poll loop and forced ticks (`monitor.py`, `runner.py`) | the in-flight flag, background tasks | start, stop, tick, force-tick | all stages |
| Monitor lock file (`lockfile.py`) | a file with a PID | acquire, release | processes of the host |
| Dispatch (`implementer.py`, `dispatch_ledger.py`) | a JSON ledger of the last dispatch of a target | dispatch, look up, record, drop | worker HTTP API |
| Workspace leases (`infra/k8s/_worker_core.py`) | `.lease.json` in each workspace, with pod, session and heartbeat; pod presence files | acquire, beat, record a PID, release, sweep | worker servers, workspaces |
| Worker servers (`infra/k8s/*_server.py`) | task tables, session files | dispatch, resume, progress, clean up | leases, CLIs, git |
| Worker client, circuit breaker (`deile/infrastructure/`) | failure counts, open/half-open state | dispatch with retries, allow, record | worker servers |
| Cron (`deile/cron/`) | an SQLite table, the runner's loop | create, disable, delete, list due, fire, mark; start, stop | agent, user |
| Pipeline schedules (`scheduler.py`, `cron.py`) | a schedule file | due, run, catch up | poll loop |
| Sub-agents, plans, task lists, agent loop | task tables, budgets | spawn, approve, execute | models, tools |

How they interact: `PipelineMonitor.tick` awaits the stages one after the other: reap,
(schedules), critique and refinement, reconcile implementing, resume, implement,
pull-request stages, mentions. Every forge call and every dispatch is an `await`, so all
coroutines of the process interleave there: the poll loop's tick, ticks forced over HTTP,
and resume tasks that a tick detaches with `spawn_background`. Workers are other pods;
they report through an HTTP answer that may be lost, and through the pull requests they
open. Humans edit labels.

What is hard: labels are read in a listing and acted on several awaits later; moving a
label is a removal and an addition, two calls; the pod restarts at any point and forgets
everything but the labels and the ledger; an HTTP answer says nothing certain about the
session behind it; and the reaper can only guess that a worker is dead, from the age of a
label.

What makes each part correct:

- *Implementation half*: one stage label at a time; nothing dispatched without a claim;
  no more in flight than `max_parallel`; every issue ends in `em_pr` or with a human;
  retries are counted and bounded; no issue drops out of every listing.
- *Lock file*: one live holder; a release never removes another's lock.
- *Gate*: one stage label at a time; passes bounded across restarts; a promotion is not taken
  back; every issue ends decided, parked or with a human.
- *Pull-request review*: one review label; bounded sessions and auto-corrections; every pull
  request ends merged, blocked or reviewed; a bad verdict is never taken for a good one.
- *Leases*: one writer of a workspace; a dead holder is replaced.
- *Worker*: one session per channel; no more leases than its cap.
- *Circuit breaker*: an open circuit closes again.
- *Cron*: an occurrence fires once; what is due is fired; the user's last word holds.

`PROJECT.json` lists every component with its status, and every hazard with its line.

## 2. Modules

### PidLock
`lockfile.py` with `PipelineMonitor.start` and `stop`. A process is its PID; `pc` is its
place in `acquire`, `release` or between. Each system call is an action (the check reads
and judges, `write_text` truncates and then writes, `release` compares and then unlinks),
`Exit` kills a process between any two of them and `Spawn` gives its PID to a new process,
a monitor or not: `_pid_alive` cannot tell them apart. `SerialStart` says that the operator
waits for one start to get through `acquire` before the next.

### IssueImplement
The second half of an issue's life. The forge's labels are `stage`, `blocked`, `own`
(`~by:<monitor>`), `attempt` (`~attempt:N`) and `stale` (the label's age passed
`reaper_stale_seconds`). `tracker`, `paused`, `bg` and `tick` are the memory of the pod, `sess`
and `ledger` belong to the workers. `tick[t]` is one tick coroutine: the stage it is in
(`at`), the issues of that stage's listing it has not yet worked through (`list`, with the
`~attempt:N` each had when it was listed), the issues claimed so far, and the label move it
is in the middle of (`move`, `on`, `next`). An action ends where the code awaits something that
another coroutine can see change:

| Code | Actions |
|---|---|
| `reap_orphan_claims`, `_reap_one` | `StartTick` lists, `ReapSkip`, `ReapRemove`, `FinishReap`, `ReapDone` |
| `reconcile_implementing_issues` | `ReconcileSkip`, `ReconcileRemove`, `FinishReconcile`, `ReconcileDone` |
| `resume_in_progress_issues` | `ResumeSkip`, `ResumeCeiling`, `ResumeSpawn` |
| `fetch_reviewed_and_ensure_ownership`, `implement_one_reviewed_issue` | `Fetch`, `Count`, `ClaimPaused`, `ClaimMerged`, `ClaimRemove`, `FinishPark`, `FinishClaim`, `ClaimDone`, `Post` |
| `_resume_implement_one_issue`, `_finalize_implement_outcome`, `WorkerImplementer._dispatch` | `Bg...` |
| `_force_tick_cb`, end of `tick` | `ForceTick`, `EndTick` |
| workers, clock, humans, restart | `WorkerOpensPr`, `SessionEnds`, `GrowsStale`, `PauseEnds`, `PrMerged`, `Unblock`, `Kill` |

What it abstracts. Only `em_implementacao` claims are reaped here; the gate's and the review's
claims are reaped in `IssueRefine` and `PrReview`. Without priority labels, issues are served in the
order of their numbers. Cadence windows are a nondeterministic choice of the claims that
are due. The outcome kinds of a resume are kept where `_finalize_implement_outcome` tells
them apart; an outcome that spends an attempt without a verdict (unreachable, starting, over
its cost cap) is `BgNotTaken`. `ResumeTracker.attempt` and `~attempt:N` are capped at their
ceilings (`Absorbed`, `OneMore`, `NextCount`): the code only ever asks whether the ceiling is
reached. `EnableGate` is the monitor's `enable_refinement_gate`, which parks an issue whose pull
request is already open and cleans up after a claim; its default is on. `ImplReaper`,
`ReaperFaults` and `ImplForced` check with it, the other configurations without.

### WorkspaceLease
The lease of one workspace (workspaces share nothing), as both worker servers use it. A
*dispatch* is a request that one pod serves; two pods share the volume, and one pod may serve two
requests for a task. `lease` is the file: the dispatch it names and whether its heartbeat is
younger than the TTL. `staged` is each pod's temporary file, `seen` and `mark` are what a heartbeat
or a PID update has read and not yet written back, `pc` is the place of a dispatch.

| Code | Actions |
|---|---|
| `acquire_lease` | `Check`, `Write`, `Rename`, `Confirm` |
| `dispatch_handler`, `run_subprocess_with_progress`, `_run_and_finalize` | `SetupFails`, `SpawnFails`, `Spawn`, `CliEnds`, `Finish`, `Release` |
| `update_lease_subprocess_pid` | `MarkSpawned`, `MarkEnded` (the read is part of `Spawn`, `CliEnds`) |
| `heartbeat_loop` | `BeatRead`, `BeatWrite` |
| `startup_cleanup`, `lease_is_stale` | `SweepJudge`, `SweepUnlink` |
| Kubernetes, the clock | `Crash`, `Expire` |

Three switches name what the code relies on. `Serial`: no acquisition overlaps another
acquisition or a sweep. `Timely`: an event loop that runs renews its leases, and its pod's presence,
within their TTLs. `QuickSetup`: so does the set-up of a repository (the CLI server clones with the
lease but without a heartbeat; the Claude server beats from the start). A read of a half-written
file does not occur, since both writers rename. The PID that `lease_is_stale` asks for belongs to
another pod's namespace and can only keep a lease; `SweepJudge` does without it.

### Exclusion
The abstract specification of both locks: actors enter an empty room and leave it. `PidLock` maps
`inside` to the processes past `acquire`, `WorkspaceLease` to the dispatches between `Confirm` and
`Release`.

### IssueRefine
The first half of an issue's life, with `enable_refinement_gate` on. `label` holds what this half
reads of an issue (`refino` stands for `em_refinamento` or `em_arquitetura`, which differ in the
brief only), `age` what the reaper knows of the stage label, `live` the sessions that run, `ledger`
what resume-info tells of the task in the issue's entry, `mem` the tracker in memory. One tick runs
its phases in the order of `_dispatch_stages`; a judgement applies a verdict and clears the ledger
entry in the next action (`Clear`), with a possible restart in between.

| Code | Actions |
|---|---|
| `reap_orphan_claims` (its two branches for the gate), `_reap_one` | `StartTick`, `ReapSkip`, `Reap`, `ReapDone` |
| `reconcile_critique_issues`, `_apply_critique_verdict` | `VerdictPending`, `VerdictGone`, `JudgeClear`, `JudgePoor`, `JudgeCeiling`, `Clear`, `JudgeDone` |
| `review_one_new_issue`, `_critique_one_issue` | `CritiqueClaim`, `CritiqueAccepted`, `CritiqueNotAccepted`, `CritiqueDone` |
| `reconcile_refine_issues`, `_apply_refine_verdict`, `_promote_refine_to_reviewed` | `Settle...` |
| `refine_one_issue`, `_refine_one_issue_dispatch` | `RefineSkip`, `Rehydrate`, `RefineCeiling`, `RefineBegin`, `RefineAccepted`, `RefineNotAccepted`, `RefineDone` |
| `decompose_one_reviewed_intent` | `Decompose`, `DecomposeFails` |
| workers, clock, humans, restart | `SessionEnds`, `Ages`, `HumanEdits`, `Kill` |

`Outcomes` are the ways in which a move's removal and addition may fail. A move is one action here:
nothing else in the process moves the labels of this half (there is no background task), so what
could come in between is a restart, which acts like a failing addition. The verdict is a choice
of its reader; what makes a text diverge or converge is not modelled. `OtherWork` are the slots
that implementations and reviews may hold.

### PrReview
The review of pull requests, with the reaper or with background resumes (`Modes`). `ledger` is what the
worker will say of the task in the entry; `bg` is the background task of a resume (`_resume_in_flight`)
with the HEAD it was listed with; `live` says which session runs and who will learn of its end, since
a resume continues the session of the entry, and both may be told.

| Code | Actions |
|---|---|
| `reap_orphan_claims` (its branch for reviews), `_reap_one` | `StartTick`, `ReapSkip`, `Reap` |
| `reconcile_review_prs` | `ReconcileList`, `ReconcileSkip`, `ReconcileGone`, `ReconcileJudge`, `ReconcileApply` |
| `review_one_open_pr`, `_handle_review_concluded_invalidation` | `ReviewList`, `Invalidate`, `NoTarget`, `BranchGone`, `CiPending`, `ClaimAborted`, `ResumeCeiling`, `ResumeStart`, `FreshClaim`, `FreshPost` |
| `_resume_review_one_pr`, `_resolve_resume_meta`, `_post_dispatch`, `address_review` | `Bg...` |
| `classify_new_prs` and the end of `tick` | `Classify`, `EndTick` |
| workers, authors, CI, clock, humans, restart | `SessionEnds`, `SessionDies`, `Push`, `CiEnds`, `Ages`, `HumanUnblocks`, `Kill` |

`news` abstracts `_classify_new_commits`: whether the commits since the last review touch code or
documents. The auth pause and the cost caps are among the failures (`BgFails`).

### Dispatch
Both ends of a fresh dispatch. `breaker` is the process-wide `_CIRCUIT_BREAKER`, `call[c]` the dispatch
of a caller (a stage with its channel), `req[r]` a request at the worker, from its arrival to the end
of its session or of its lease. `Serial` says that no request is judged while another one is between
its judgement and its metadata.

| Code | Actions |
|---|---|
| `DeileWorkerClient.dispatch`, `_dispatch_once`, `_post_dispatch` | `Start`, `Retry`, `Resend`, `Lose`, `Abandon` |
| `CircuitBreaker` | operators `Allows`, `Succeeded`, `Failed`; `Elapse` for its timeout |
| `dispatch_handler` of the claude worker | `Refuse`, `Admit`, `TakeLease`, `SaveMeta`, `Spawn`, `End` |
| pods, leases, pipeline restarts | `Kill`, `Expire`, `Restart` |

### Cron
The table (`row`), the runners (`loop`, `due`, `firing`), and which of them the agent knows (`named`).
Every access to the store is a transaction of its own; the callback of a fire lasts from `Fire` to
`Return`, `Raise` or `Cancel`, and everything else goes on meanwhile. `Come` is the passing of
`next_fire_at`. `Again` lets the user start a second runner.

| Code | Actions |
|---|---|
| `CronStore`, `cron_create`, `cron_delete` | `Create`, `Disable`, `Delete`, `Come`; operators `Due`, `Marked` |
| `CronRunner.tick`, `_fire`, `_run_forever`, `stop` | `List`, `Fire`, `Return`, `Raise`, `Die`, `Leave`, `Cancel` |
| `/pipeline start`, `/pipeline stop`, the process | `Start`, `Stop`, `Kill` |

### The `_proofs` modules
One beside each component's module, with the theorems of section 5; `IssueImplement` has a second one,
`IssueCounts_proofs`, which builds on the first.

How the modules fit together. `IssueRefine` ends where `IssueImplement` begins, at `revisada`; a
dispatch that either of them makes is one `Start` of `Dispatch`, and its refusals, losses and double
acceptances are the outcomes their actions choose from; `PidLock` is what makes the single tick
coroutine of each stage module the only one; `WorkspaceLease` is the file that a running session
of `Dispatch` holds. The modules are checked one at a time: what one takes as a free choice of
its environment includes what another shows it to do.

Trivial helpers (record types, field updates) have no entry in the map of `PROJECT.json`; all actions
and operators that stand for code of their own have.

## 3. Runs

| Run | Configuration | Shows |
|---|---|---|
| `pidlock_serial` | 3 PIDs | exclusion as `Exclusion` says, no foreign unlink, the inductive invariant |
| `lease_serial` | 2 pods, 2 requests each, 2 kills, all three switches | `OneWorker`, `NoGhost`, `Exclusion`, the inductive invariant, and `Recovers` under fairness |
| `impl_reaper` | 2 issues, 1 slot, reaper, no faults | `WithinCapacity`, `AttemptCountsReaps`, `ReapsBounded`, and `ReapedIsReclaimed` under fairness |
| `impl_both` | 1 issue, reaper and resume | `Settles`: every issue ends in `em_pr` or `bloqueada` |
| `reaper_faults` | 2 issues, every forge call may fail, 1 restart, 1 human unblock | `SingleStage`, `FreshNeedsClaim`, and the invariant of the proof |
| `impl_forced` | a forced tick next to the loop's | `NeverLost` |
| `refine` | 1 issue, 2 slots, other work none or 2, ceiling 2, 1 restart, 1 failure or human edit | `SingleStage`, `PassesBounded`, `PromotionSticks`; `GateSettles` under fairness |
| `pr_review` | 1 pull request, reaper or resume, 3 attempts, 1 commit, 1 failure, human or restart | `OneLabel`, `RoundsBounded`, `FixesBounded`; `PrSettles` under fairness |
| `dispatch` | 2 callers, 2 tries, threshold 2, cap 2, 3 requests, 3 faults, serial | `OneSession`, `WithinCap`; `Recloses` under fairness |
| `cron` | a one-shot and two recurring entries, 1 runner, 2 interruptions | `OncePerOccurrence`, `UserWins`; `DueIsFired` under fairness |
| `unblock_limbo`, `pr_assumed` | violations, see section 4 | |

Bounds. Two issues and one slot give competition for the slot and a listing with more than
one entry; the stages treat issues independently otherwise, and one tick coroutine serves all
of them. `MaxReaps` 2 has a release that returns to `revisada` and one that blocks; `impl_both`
uses 3. `MaxAttempts` and `MaxIncomplete` 2 make "below", "at" and "reached" distinct;
`reaper_faults` uses 1, its properties do not mention them. One restart suffices because it forgets
all of memory: a second one starts from a state the first could have left. `reaps` is a history
variable; it saturates at `MaxReaps + 1`, one above what `ReapsBounded` allows. The failing forge calls are
every listing, every query of a pull request, every removal (after zero to three labels) and every
addition. `lease_serial` has a competitor in the same pod, which the pod's name cannot tell apart, and
one in another; two kills take down both pods, or one twice.

`refine` has one issue, since issues meet only in the count of slots, where `OtherWork` stands for them
(0: all free, 2: none); its ceiling 2 has a pass below and one at it, `DivergeFrom` 1 lets every pass
diverge. `pr_review` has one pull request: two meet only in that one tick serves the first eligible
one; its resumes allow three attempts so that one may be skipped, one answered without progress and
one at the ceiling. In `dispatch` three requests allow a caller a posted one besides one
that runs unknown to it, while the other competes; three faults lose an answer, kill a pod and abandon a
call, or restart the pipeline; two tries have a retry, a threshold of two has a failure that does not
open the circuit. In `cron` two interruptions allow a kill during a fire and a store that fails on
the repeated one; `CHECK_DEADLOCK FALSE` because a table whose entries are all deleted, and a loop that
died, are at an end.

Fairness. `WF(TickStep)`: asyncio runs every ready coroutine and the poll loop never stops
(`_run_forever` catches exceptions). `WF(BgStep)`: a detached task runs, and its HTTP call has a
timeout. `WF(SessionEnds)`: the worker kills a session at its own timeout. `WF(GrowsStale)`, `WF(Ages)`,
`WF(PauseEnds)`, `WF(CiEnds)`: wall-clock time passes. `SF(ResumeCeiling \/ ResumeSpawn)`, and the same
for `PrReview`: a cadence window is finite, so a claim at rest is due at some tick, again and again. In
`IssueRefine` a worker that can take a critique does so now and then and answers for a finished task now
and then (strong fairness of `CritiqueAccepted` and `VerdictRead`), and other work does not
hold all slots at every listing (`Serves`); nothing is assumed of refinements being taken, nor of
which verdict comes. No fairness is assumed of workers opening pull requests, of merges, pushes or humans.
In `IssueImplement` liveness is checked without forge faults, since a forge that fails for
ever stops everything; elsewhere the number of faults is bounded. In `WorkspaceLease`: somebody
asks for the workspace again (the pipeline does at every tick), threads, CLIs and the clock go on;
nobody need run the cleanup. In `Dispatch`: the pipeline goes on dispatching, handlers and
sessions end. In `Cron`: the loop polls, a turn of the agent ends, and who stopped the
pipeline starts it again.

## 4. What the code does not keep

Two runs are expected to end in a violation; each quotes a statement of the repository in
`PROJECT.json`.

- `unblock_limbo`: an exhausted claim keeps only `bloqueada`; when a human removes it, as the
  comment invites to, no stage lists the issue any more.
- `pr_assumed`: `get_pr` of the GitHub forge returns None when `gh` fails, so the reconciler's
  "na dúvida, trata como aberta" never happens: a pull request whose review asked for changes is
  marked `concluida` as if it had been merged.

Further disagreements can be reproduced by giving a constant another value; the properties and
theorems name the assumption that excludes them:

- `PidLock`, `SerialStart = FALSE`: two monitors started at the same moment both pass `acquire`.
- `WorkspaceLease`, `Serial = FALSE`: `acquire_lease` confirms once, by the name of the pod; a dispatch
  that passed the check before the other's rename and renames after its confirmation is let in too.
- `Dispatch`, `Serial = FALSE`: the check for a live session of the channel looks at leases and
  metadata that the other dispatch writes several awaits after its own check, so that a lost
  answer and a quick retry give a channel two sessions (`OneSession`); the cap, too, is
  checked and then used (`WithinCap`).
- `IssueImplement`, reaper and resume enabled together: a resume task that concludes while the reaper is
  between removal and addition leaves `revisada` and `em_pr`.
- `IssueImplement`, `Sharded = TRUE`: the reaper drops the ownership label that a non-default
  monitor needs to claim the issue again.
- `Cron`, `Again = TRUE` and two runners: a second `/pipeline start` makes a second runner and forgets the
  first one, which no `stop` reaches; both fire every entry (`runner.py:14` says one per host).

Observations without a property:

- Implementation half. The reaper's branch does not look at `bloqueada`. A failed count of the issues
  in flight counts zero, so `WithinCapacity` is claimed without forge faults only. Of the
  refusals of a worker only "still running" is free of charge. Overlapping ticks can both claim an
  issue, and the first to end resets the in-flight flag for both. A restart between the reaper's
  removal and its addition loses `~attempt:N`.
- Gate. Reaping `em_revisao` leaves the ledger entry, and refinement skips an issue with an entry until
  it is read. A CLARO whose label removal fails ends the tick and leaves `revisada` with `refinar`. An issue
  with two stages after a failed move goes back and forth between two phases (`Astray`). Refinements
  at rest take slots. A refused refinement counts as a pass. A refining issue without an
  ownership label is never reaped. Decomposition has no ceiling of attempts. The guard
  against the lag of the index covers promotions by refinement, not by a CLARO critique.
- Pull requests. The reconciler lists open ones only, so a merged pull request is never concluded or
  announced by it, contrary to its docstring. A REQUEST_CHANGES that a resume has recorded in the ledger is
  read by the reconciler as a finished fresh review, and blocks. After an address session the
  reconciler marks the new, unreviewed HEAD `concluida`. A refusal because a session is alive counts as an
  attempt on the resume path. A listing older than the end of a resume allows one resume more.
  `~attempt:N` is never cleared. A first pull request whose CI runs ends the stage for the
  others. `ledger.clear` drops whatever entry is there. A task whose pod died stays "running".
- Client. Refusals (409) by a healthy worker count as failures and open the circuit for all endpoints.
  Half-open lets every caller through, although the docstrings speak of one probe. Retries go on
  into an open circuit. Dispatches given up by the watchdog record nothing, so hanging workers never
  open it. A late success closes it, a late failure restarts its timeout. After a lost 202 the
  retry is refused and the caller reports a failure while the session runs.
- Cron. If marking a failed fire fails too, the loop ends without a word. Entries disabled or deleted after
  the listing still fire once. Occurrences that pass during a long fire are skipped.

## 5. Proofs

`PidLock_proofs`, for any set of PIDs:

- `PidLockTypeOK`: type correctness, serial starts or not.
- `SerialExclusion`: with serial starts, `MutualExclusion` and `NoForeignUnlink`. Neither is
  inductive: that two processes are never both past the check follows only from the file naming
  the holder. `HolderOwnsFile` says so and is carried from step to step; `SerialStart` is used
  in `Start` only.
- `FileNamesHolder`, `ReleaseIsOwn`: that invariant and `NoForeignUnlink`, by themselves.
- `PidLockIsALock`: under the same assumption the file implements `Exclusion`.

`WorkspaceLease_proofs`, for any pods and requests, with kills at any point:

- `LeaseTypeOK`: type correctness, whatever the switches.
- `LeaseExclusion`: with `Serial`, `Timely` and `QuickSetup`, `OneWorker` and `NoGhost`. Neither is
  inductive: a heartbeat may write back anything it has read. `HolderOwnsLease` says that whoever
  works finds its own fresh lease in the file, that what heartbeats and PID updates have read is
  that lease, and that nobody is past the check or about to sweep meanwhile. `Serial` is used where
  an acquisition or a sweep begins, the other two where a lease expires.
- `LeaseStaysOwn`, `NoGhostLease`: the invariant and `NoGhost`, by themselves.
- `LeaseIsALock`: under the same assumptions the leases implement `Exclusion`; a dispatch comes in
  only by `Confirm`, when nobody is inside (`OnlyIntoEmpty`).

`IssueImplement_proofs`, for any finite set of issues, any bounds, with faults and restarts:

- `TypeCorrect`: type correctness, whatever is enabled and however many ticks are forced.
- `ClaimsHold`: `ClaimDiscipline` always, assuming no forced ticks and not both of reaper and
  resume. It is the inductive strengthening of the next two. `SingleStage` alone is not preserved:
  adding a label is safe only because the coroutine that is about to add one left the issue with
  no other (`MoveIsAlone`), which holds because what it listed still carried the label it was listed
  for (`ListedStays`), which holds because resume tasks never work on an issue in `revisada`
  (`IssueDiscipline`) and a single coroutine runs the stages. The case of the reaper needs that no
  task is alive at all, hence the assumption.
- `OneStageAtATime` (`SingleStage`) and `DispatchNeedsClaim` (`FreshNeedsClaim`) follow.

The assumptions are those the modules name: bounds are positive, issue numbers are positive and
finitely many (`IssuesAssumption`), the loop's coroutine is not a forced one.

`IssueCounts_proofs`, what the same pipeline keeps over many steps, for any finite set of issues and any
bounds, when the forge answers:

- `NoIssueIsLost`: `NeverLost`, with reaper, automatic resume and any number of forced ticks together.
  An issue may be between two labels only while a coroutine holds its second half (`NothingLost`); that
  another coroutine may take the label away in between is no harm, because whoever does is in turn
  about to add one. It assumes that the pod stays up, since a restart forgets the second half, and
  that nobody unblocks an issue, since a human who removes `bloqueada` may take the last label:
  `unblock_limbo` in section 4 is that case.
- `AttemptIsExact` (`AttemptCountsReaps`) and `ReaperGivesUp` (`ReapsBounded`), with one tick
  coroutine and a pod that stays up; resume and human unblocks may go on next to the reaper. Neither is
  inductive: between its two halves a release has no count on the issue, only in the coroutine.
  `LaneInv` says what the one coroutine's listing and label move imply for an issue whatever resume
  tasks do; `CountInv` that the listing knows the exact count, that the halves of a release agree on
  it, and that an issue whose count is at the ceiling is in no stage from which it could be claimed
  or reaped again.
- `CapacityIsKept`: `WithinCapacity`, with one tick coroutine, restarts at any point. The invariant is
  about the issues in flight and those the tick has counted and is heading for (`CapacityInv`): the
  listing takes the first free slots' worth of numbers (`FirstN`, by counting), and every later step
  keeps this set or shrinks it. With automatic resume it assumes that nobody unblocks an issue: an
  issue that a human takes out of `bloqueada` while it carries `em_implementacao` is in flight again and
  was never counted. Without resume `ClaimDiscipline` excludes that case.

`IssueRefine_proofs`, for any finite set of issues, any bounds, with faults, restarts and humans:

- `RefineTypeOK`: type correctness; the counts stay within `MaxPasses` though memory and
  label may disagree.
- `GateHolds`: `GateInv`, which strengthens the next two. What the tick has listed still carries the label it
  was listed for (`StageInv`, as long as no call failed), and what a tick has promoted is not in
  the list of its refinement phase (`PromotionInv`).
- `PromotionsStick` (`PromotionSticks`, whatever fails) and `GateSingleStage` (`SingleStage`) follow.
- `PassesAreBounded`: `PassesBounded`, from `PassInv`: the label `~refine:N` counts no less than what was spent,
  and as long as the verdict of a ledger entry is not applied there is room for the one pass it may cost.
  A restart between verdict and clearing lets the same verdict be applied twice, hence the `+ kills`.

`PrReview_proofs`, for any finite set of pull requests and any bounds:

- `PrTypeOK`: type correctness.
- `WhatWasReadHolds`: `ReadInv`. A listing of the poll loop may be older than a background resume's
  move; what saves `OneLabel` is that each phase acts only on labels that a resume cannot have moved
  meanwhile (`ListedStays`, one case per phase), and that a resume that concludes works on
  a merged pull request.
- `ReviewLabelIsUnique`: `OneLabel`.
- `WhatPrsCost`: `CostInv`, for reaper, resume or both. What a pull request has cost in reviews is what
  the reaper's count, the claim at hand, the commits and the memory of its resumes account for
  (`Served`); or the reaper has blocked it and only its resumes go on (`GivenUp`); or it is blocked or
  merged, the memory is cleared, and what is under way still fits (`Over`). The same for address
  sessions, which are counted per HEAD last reviewed (`FixServed`, `FixOver`). A resume that was listed
  before the memory was cleared may still start one session; that is why `Budget` has
  one more than `max_retries`.
- `RoundsAreBounded` (`RoundsBounded`) and `FixesAreBounded` (`FixesBounded`) follow. The reaper and the
  resumes count apart, so with both the budgets add up; every HEAD has `MAX_ADDRESS_ATTEMPTS` sessions of its own.

`Dispatch_proofs`, for any callers, requests, tries, threshold and cap:

- `DispatchTypeOK`: type correctness; who backs off has a try left.
- `ClaimsHold`: with `Serial`, `Claimed`. `OneSession` and `WithinCap` are not inductive: a request
  that passed the checks counts for neither yet. Counting it from its admission on gives claims that are
  apart and within the cap.
- `DedupWorks` (`OneSession`) and `CapHolds` (`WithinCap`) follow.

`Cron_proofs`, for any entries and runners:

- `CronTypeOK`: type correctness.
- `UserHasTheLastWord`: `UserWins`, from the steps alone; with any number of runners.
- `FiresAreCounted`: without a second start, `Counted`: an occurrence that waits has been fired at most
  once for each interruption, one that a stopping runner fires at most that often after this fire.
- `FiredOnce`: `OncePerOccurrence`.

The assumptions are those the modules name; `TLC` evaluates them in every run.

Every invariant and action property of a passing run is stated by one of these theorems. Only
model-checked are the liveness properties (`ReapedIsReclaimed`, `Settles`, `GateSettles`, `PrSettles`,
`Recovers`, `Recloses`, `DueIsFired`): they rest on fairness, hence on `ENABLED`, which is out of reach of
the prover. The theorems about counts and capacity assume a forge that answers, because their
properties say nothing after a failure (`faults > 0`) or do not hold then: a listing that fails counts no
issue in flight, and an addition that fails in a release loses the count, or the issue.
`SingleStage` with faults and resume tasks has no run; the theorem `OneStageAtATime` covers it.

## 6. Not modelled

- *Mentions*: what a poll returns depends on timestamps of the forge's API and on two hosts' clocks,
  which the source does not determine. That the cursor moves past a failed poll is in the hazards.
- *Pipeline schedules*: off by default; which stage runs depends on cron expressions and the clock.
- *GitLab*: the same interface as GitHub's forge, other argument formats.
- *Worker servers beyond admission, lease and session end*: status endpoints, garbage collection of
  workdirs, graceful shutdown, rate limits, git finalisation: subprocesses and file I/O with little
  state that the pipeline's decisions depend on.
- *The path without the gate or without the ledger*: one label move each.
- *Agent loop, sub-agents, plans, task lists, model routing, memory, sessions*: sequential code that
  drives a language model or stores its conversation; what can go wrong is in the model's answers.
- *Panel, deployment, tools, commands, user interface*: I/O around the core.

`PROJECT.json` says why for each component. Most of the source by size is in this list: the panel,
deployment scripts and tools are several times the size of the pipeline.
