---------------------------- MODULE IssueImplement ----------------------------
(***************************************************************************)
(* The implementation half of an issue's life: a reviewed issue is claimed, *)
(* dispatched to a worker, resumed while it is incomplete, reaped when its  *)
(* claim looks dead, and leaves through em_pr or bloqueada                  *)
(* (pipeline/stages.py, driven by PipelineMonitor.tick).                    *)
(*                                                                          *)
(* The forge holds the durable state, as labels.  The pipeline is one       *)
(* asyncio loop: a tick coroutine of the poll loop, ticks forced over HTTP, *)
(* and one detached resume task per issue interleave at every await.  A     *)
(* stage lists issues and then works through the list it saw; moving a      *)
(* label is a removal followed by an addition.  Workers run sessions on     *)
(* their own, and a worker refuses a dispatch for an issue it already runs. *)
(***************************************************************************)
EXTENDS Naturals, FiniteSets

CONSTANTS
    Issues,         \* issue numbers (lower is served first)
    Loop,           \* the poll loop's tick coroutine
    ForcedTicks,    \* tick coroutines the force-tick endpoint may add
    MaxParallel,    \* config.max_parallel
    MaxAttempts,    \* resolve_stage_max_retries("implement")
    MaxIncomplete,  \* config.incomplete_no_pr_max
    MaxReaps,       \* config.reaper_max_attempts
    Sharded,        \* the monitor's identity is not the default one
    EnableReaper,   \* config.reaper_stale_seconds > 0
    EnableResume,   \* config.enable_resume
    EnableGate,     \* config.enable_refinement_gate
    EnableBudget,   \* config.resume_budget > 0
    ForgeFaults,    \* may a forge write fail
    MaxKills,       \* bound on restarts of the pipeline pod
    MaxUnblocks     \* bound on human removals of bloqueada

ASSUME IssuesAssumption == Issues \subseteq Nat \ {0} /\ IsFiniteSet(Issues)
ASSUME TicksAssumption == Loop \notin ForcedTicks
ASSUME BoundsAssumption ==
    /\ {MaxParallel, MaxAttempts, MaxIncomplete, MaxReaps} \subseteq Nat \ {0}
    /\ {MaxKills, MaxUnblocks} \subseteq Nat
    /\ {Sharded, EnableReaper, EnableResume, EnableGate, EnableBudget, ForgeFaults}
           \subseteq BOOLEAN

Ticks == {Loop} \cup ForcedTicks

VARIABLES
    stage,     \* per issue: its ~workflow: labels of this half of the pipeline
    blocked,   \* per issue: ~workflow:bloqueada
    own,       \* per issue: ~by:<monitor>
    attempt,   \* per issue: N of ~attempt:N, 0 without the label
    stale,     \* per issue: em_implementacao is older than reaper_stale_seconds
    pr,        \* per issue: its pull request
    sess,      \* per issue: the worker session that runs for it
    ledger,    \* per issue: the DispatchLedger has an entry for it
    tracker,   \* per issue: the ResumeTracker's memory
    paused,    \* per issue: is_target_auth_paused
    bg,        \* per issue and tick coroutine: the detached resume task it spawned
    resuming,  \* per issue: it is in monitor._resume_in_flight
    tick,      \* per tick coroutine: where it stands
    inFlight,  \* monitor._tick_in_flight
    kills,     \* restarts so far
    unblocks,  \* human unblocks so far
    reaps,     \* history: how often the reaper took each issue (to MaxReaps + 1)
    blind      \* history: the issues in flight could not be counted once

forge == <<stage, blocked, own, attempt, stale, pr>>
memory == <<tracker, paused, bg, resuming, tick, inFlight>>
env == <<kills, unblocks, reaps, blind>>
vars == <<forge, sess, ledger, memory, env>>

-----------------------------------------------------------------------------
(* Types and initial state *)

Stages == {"revisada", "em_implementacao", "em_pr"}

\* _ESCALATE_ON_REPEAT
EscalateOnRepeat == {"TIMEOUT", "BAD_REQUEST"}

\* _classify_outcome_error
Errors == {"none", "OTHER"} \cup EscalateOnRepeat

Tracks == [attempt : 0..MaxAttempts, err : Errors, incomplete : 0..MaxIncomplete]

\* ResumeTracker.clear, and a monitor that just booted.
NoTrack == [attempt |-> 0, err |-> "none", incomplete |-> 0]

TaskStates == {"none", "posting", "waiting", "concluding"}

Phases == {"idle", "scheduled", "reap", "reconcile", "resume", "ask", "spawn",
           "fetch", "count", "claim", "post"}

\* A label move whose removal is done and whose addition is not ("unpark": the
\* removal failed, and there is still something to do).
Moves == {"none", "reap", "exhaust", "reconcile", "claim", "park", "unpark"}

\* A listing: issues, each with the ~attempt:N it had.
Snapshots == UNION {[S -> 0..MaxReaps] : S \in SUBSET Issues}

\* What a tick coroutine keeps across its awaits: the listing a stage works
\* through, the issues it has claimed, and the label move it is in the middle
\* of.
TickStates == {r \in [at : Phases,
                     list : Snapshots,
                     claimed : SUBSET Issues,
                     move : Moves,
                     on : Issues \cup {0},
                     next : 0..MaxReaps] : r.move # "none" => r.on \in Issues}

Empty == [i \in {} |-> 0]
IdleTick == [at |-> "idle", list |-> Empty, claimed |-> {}, move |-> "none",
             on |-> 0, next |-> 0]

TypeOK ==
    /\ stage \in [Issues -> SUBSET Stages]
    /\ blocked \in [Issues -> BOOLEAN]
    /\ own \in [Issues -> BOOLEAN]
    /\ attempt \in [Issues -> 0..MaxReaps]
    /\ stale \in [Issues -> BOOLEAN]
    /\ pr \in [Issues -> {"none", "open", "merged"}]
    /\ sess \in [Issues -> {"none", "fresh", "resume"}]
    /\ ledger \in [Issues -> BOOLEAN]
    /\ tracker \in [Issues -> Tracks]
    /\ paused \in [Issues -> BOOLEAN]
    /\ bg \in [Issues -> [Ticks -> TaskStates]]
    /\ resuming \in [Issues -> BOOLEAN]
    /\ tick \in [Ticks -> TickStates]
    /\ inFlight \in BOOLEAN
    /\ kills \in 0..MaxKills
    /\ unblocks \in 0..MaxUnblocks
    /\ reaps \in [Issues -> 0 .. MaxReaps + 1]
    /\ blind \in BOOLEAN

\* Reviewed issues, some promoted by hand (no ~by: label yet).
Init ==
    /\ stage = [i \in Issues |-> {"revisada"}]
    /\ blocked = [i \in Issues |-> FALSE]
    /\ own \in [Issues -> BOOLEAN]
    /\ attempt = [i \in Issues |-> 0]
    /\ stale = [i \in Issues |-> FALSE]
    /\ pr = [i \in Issues |-> "none"]
    /\ sess = [i \in Issues |-> "none"]
    /\ ledger = [i \in Issues |-> FALSE]
    /\ tracker = [i \in Issues |-> NoTrack]
    /\ paused = [i \in Issues |-> FALSE]
    /\ bg = [i \in Issues |-> [t \in Ticks |-> "none"]]
    /\ resuming = [i \in Issues |-> FALSE]
    /\ tick = [t \in Ticks |-> IdleTick]
    /\ inFlight = FALSE
    /\ kills = 0
    /\ unblocks = 0
    /\ reaps = [i \in Issues |-> 0]
    /\ blind = FALSE

-----------------------------------------------------------------------------
(* Tick bookkeeping *)

\* A forge call succeeds, or fails where failures are allowed.
ForgeOk == IF ForgeFaults THEN BOOLEAN ELSE {TRUE}

\* list_issues_with_label: a stage that cannot list does nothing.
Listings(S) == IF ForgeFaults THEN {S, {}} ELSE {S}

\* What has_open_pr_for_issue and has_merged_pr_for_issue make of the pull
\* request: a query that fails finds none.
Seen(i) == IF ForgeFaults THEN {pr[i], "none"} ELSE {pr[i]}

\* Mutant: even the default monitor looks for its label.
OwnsByLabel(i) == own[i]

\* _this_monitor_owns: the default monitor owns every issue.
Owns(i) == ~Sharded \/ own[i]

\* sort_by_priority without priority labels: the lowest number first.
Foremost(S) == {i \in S : \A j \in S : i <= j}

Listed(t) == DOMAIN tick[t].list

\* t has an issue to work on and no label move to finish.
Working(t, phase) ==
    tick[t].at = phase /\ tick[t].move = "none" /\ Listed(t) # {}

\* Mutant: the last label move of the stage is not awaited.
StageDoneEarly(t, phase) == tick[t].at = phase /\ Listed(t) = {}

\* t is done with the listing of this stage.
StageDone(t, phase) ==
    tick[t].at = phase /\ tick[t].move = "none" /\ Listed(t) = {}

\* t enters a phase with a fresh listing of S: the issues and their ~attempt:N.
Enter(t, phase, S) ==
    \E L \in Listings(S) :
        tick' = [tick EXCEPT ![t].at = phase,
                             ![t].list = [i \in L |-> attempt[i]]]

\* Mutant: the count is put back as it was.
SameCount(n) == n

\* Mutant: the count goes down.
CountDown(n) == n - 1

\* _reap_one: next_attempt.  MaxReaps caps the count: only "reached the
\* maximum" is ever asked of it.
NextCount(n) == IF n < MaxReaps THEN n + 1 ELSE MaxReaps

\* Mutant: one release too many.
ExhaustedLate(n) == n >= MaxReaps

\* next_attempt >= reaper_max_attempts, for a claim listed with ~attempt:n.
Exhausted(n) == NextCount(n) >= MaxReaps

\* t leaves i behind, in the middle of the label move m (or of none).
Leave(t, i, m) ==
    tick' = [tick EXCEPT
        ![t].list = [j \in Listed(t) \ {i} |-> tick[t].list[j]],
        ![t].move = m,
        ![t].on = IF m = "none" THEN 0 ELSE i,
        ![t].next = IF m \in {"reap", "exhaust"}
                       THEN NextCount(tick[t].list[i]) ELSE 0]

\* t's label move is over.
Landed(t) ==
    [tick EXCEPT ![t].move = "none", ![t].on = 0, ![t].next = 0]

\* Mutant: the old stage label survives the move.
RemoveNothing(i, label, ok) == UNCHANGED stage

\* remove_labels and add_labels on the stage of i, as transition_issue calls
\* them one after the other.
RemoveStage(i, label, ok) ==
    stage' = [stage EXCEPT ![i] = IF ok THEN @ \ {label} ELSE @]

AddStage(i, label, ok) ==
    stage' = [stage EXCEPT ![i] = IF ok THEN @ \cup {label} ELSE @]

\* _block: comment, add bloqueada (best effort), forget the resume state.
Block(i, ok) ==
    /\ blocked' = [blocked EXCEPT ![i] = @ \/ ok]
    /\ tracker' = [tracker EXCEPT ![i] = NoTrack]

\* The poll loop wakes up, or a forced tick starts.
StartTick(t) ==
    /\ \/ t = Loop /\ tick[t].at = "idle"
       \/ tick[t].at = "scheduled"
    /\ inFlight' = TRUE
    /\ Enter(t, "reap", IF EnableReaper
                        THEN {i \in Issues : /\ "em_implementacao" \in stage[i]
                                             /\ own[i]}
                        ELSE {})
    /\ UNCHANGED <<forge, sess, ledger, tracker, paused, bg, resuming, env>>

\* _force_tick_cb: schedules a tick unless the flag says one is running.
ForceTick(t) ==
    /\ t \in ForcedTicks
    /\ tick[t].at = "idle"
    /\ ~inFlight
    /\ tick' = [tick EXCEPT ![t].at = "scheduled"]
    /\ UNCHANGED <<forge, sess, ledger, tracker, paused, bg, resuming, inFlight,
                   env>>

-----------------------------------------------------------------------------
(* reap_orphan_claims: claims whose em_implementacao label is too old *)

\* label_applied_at is recent, or cannot be read: leave the claim alone.
ReapSkip(t) ==
    /\ Working(t, "reap")
    /\ \E i \in Foremost(Listed(t)) :
           /\ ~stale[i] \/ ForgeFaults
           /\ Leave(t, i, "none")
    /\ UNCHANGED <<forge, sess, ledger, tracker, paused, bg, resuming, inFlight,
                   env>>

\* remove_labels deletes em_implementacao, ~by: and ~attempt:N one after the
\* other and stops at the first failure.
Removals == IF ForgeFaults THEN 0..3 ELSE {3}

\* _reap_one, first half: remove the claim's labels as listed.  A release is
\* given up when a removal fails; the block of an exhausted claim goes on.
ReapRemove(t) ==
    /\ Working(t, "reap")
    /\ \E i \in Foremost(Listed(t)), k \in Removals :
       LET n == tick[t].list[i]
           move == IF Exhausted(n) THEN "exhaust"
                   ELSE IF k = 3 THEN "reap" ELSE "none"
       IN  /\ stale[i]
           /\ RemoveStage(i, "em_implementacao", k >= 1)
           /\ own' = [own EXCEPT ![i] = @ /\ k < 2]
           /\ attempt' = [attempt EXCEPT ![i] = IF k = 3 /\ @ = n THEN 0 ELSE @]
           /\ Leave(t, i, move)
           /\ reaps' = [reaps EXCEPT ![i] =
                  IF move = "none" \/ @ > MaxReaps THEN @ ELSE @ + 1]
    /\ UNCHANGED <<blocked, stale, pr, sess, ledger, tracker, paused, bg,
                   resuming, inFlight, kills, unblocks, blind>>

\* _reap_one, second half: the count, and revisada or (exhausted) bloqueada,
\* in one add_labels call.
FinishReap(t) ==
    /\ tick[t].move \in {"reap", "exhaust"}
    /\ LET i == tick[t].on
           exhausted == tick[t].move = "exhaust"
       IN  \E ok \in ForgeOk :
             /\ AddStage(i, "revisada", ok /\ ~exhausted)
             /\ blocked' = [blocked EXCEPT ![i] = @ \/ (ok /\ exhausted)]
             /\ attempt' = [attempt EXCEPT ![i] =
                    IF ok /\ tick[t].next > @ THEN tick[t].next ELSE @]
    /\ tick' = Landed(t)
    /\ UNCHANGED <<own, stale, pr, sess, ledger, tracker, paused, bg, resuming,
                   inFlight, env>>

\* reconcile_implementing_issues lists the claims next.
ReapDone(t) ==
    /\ StageDone(t, "reap")
    /\ Enter(t, "reconcile",
             {i \in Issues : /\ "em_implementacao" \in stage[i]
                             /\ "em_pr" \notin stage[i]
                             /\ ~blocked[i]
                             /\ Owns(i)})
    /\ UNCHANGED <<forge, sess, ledger, tracker, paused, bg, resuming, inFlight,
                   env>>

-----------------------------------------------------------------------------
(* reconcile_implementing_issues: a pull request means the worker is done *)

ReconcileSkip(t) ==
    /\ Working(t, "reconcile")
    /\ \E i \in Foremost(Listed(t)), p \in UNION {Seen(j) : j \in Listed(t)} :
           p \in Seen(i) /\ p # "open" /\ Leave(t, i, "none")
    /\ UNCHANGED <<forge, sess, ledger, tracker, paused, bg, resuming, inFlight,
                   env>>

\* Remove em_implementacao on the way to em_pr.
ReconcileRemove(t) ==
    /\ Working(t, "reconcile")
    /\ \E i \in Foremost(Listed(t)), ok \in ForgeOk :
           /\ pr[i] = "open"
           /\ RemoveStage(i, "em_implementacao", ok)
           /\ Leave(t, i, IF ok THEN "reconcile" ELSE "none")
    /\ UNCHANGED <<blocked, own, attempt, stale, pr, sess, ledger, tracker,
                   paused, bg, resuming, inFlight, env>>

FinishReconcile(t) ==
    /\ tick[t].move = "reconcile"
    /\ LET i == tick[t].on
       IN  \E ok \in ForgeOk :
             /\ AddStage(i, "em_pr", ok)
             /\ tracker' = [tracker EXCEPT ![i] = IF ok THEN NoTrack ELSE @]
    /\ tick' = Landed(t)
    /\ UNCHANGED <<blocked, own, attempt, stale, pr, sess, ledger, paused, bg,
                   resuming, inFlight, env>>

\* resume_in_progress_issues lists the claims that may be resumed.
ReconcileDone(t) ==
    /\ StageDone(t, "reconcile")
    /\ Enter(t, "resume",
             IF EnableResume
             THEN {i \in Issues : /\ "em_implementacao" \in stage[i]
                                  /\ "em_pr" \notin stage[i]
                                  /\ ~blocked[i]
                                  /\ Owns(i)}
             ELSE {})
    /\ UNCHANGED <<forge, sess, ledger, tracker, paused, bg, resuming, inFlight,
                   env>>

-----------------------------------------------------------------------------
(* resume_in_progress_issues: one parked claim per tick, in a detached task *)

\* The claims that are not in _resume_in_flight and whose cadence window is
\* over.  Bound: a tick coroutine has one task per issue under way, which the
\* flag sees to as long as no tick is forced.
Resumable(t) ==
    {S \in SUBSET Listed(t) : \A i \in S : ~resuming[i] /\ bg[i][t] = "none"}

\* Nothing to resume yet.
ResumeNone(t) ==
    /\ tick[t].at = "resume"
    /\ {} \in Resumable(t)
    /\ Enter(t, "fetch", {})
    /\ UNCHANGED <<forge, sess, ledger, tracker, paused, bg, resuming, inFlight,
                   env>>

\* The target is chosen; its flag is set only two awaits later.
ResumeSelect(t) ==
    /\ tick[t].at = "resume"
    /\ \E due \in Resumable(t) : \E i \in Foremost(due) :
          tick' = [tick EXCEPT ![t].at = "ask",
                               ![t].list = [j \in {i} |-> @[j]]]
    /\ UNCHANGED <<forge, sess, ledger, tracker, paused, bg, resuming, inFlight,
                   env>>

\* The target's pull request is open.
ResumePrOpen(t) ==
    /\ tick[t].at = "ask"
    /\ \E i \in Listed(t) : pr[i] = "open"
    /\ Enter(t, "fetch", {})
    /\ UNCHANGED <<forge, sess, ledger, tracker, paused, bg, resuming, inFlight,
                   env>>

\* No pull request is seen to be open: on to the ceilings.
ResumeAsked(t, i) ==
    /\ tick[t].at = "ask" /\ i \in Listed(t)
    /\ \E p \in Seen(i) : p # "open"

\* The attempt ceiling is reached, or the sessions that answered used up the
\* time budget: block instead of dispatching.
ResumeCeiling(t) ==
    /\ \E i \in Issues, ok \in ForgeOk :
           /\ ResumeAsked(t, i)
           /\ \/ tracker[i].attempt >= MaxAttempts
              \/ EnableBudget /\ tracker[i].attempt > 0
           /\ Block(i, ok)
    /\ Enter(t, "fetch", {})
    /\ UNCHANGED <<stage, own, attempt, stale, pr, sess, ledger, paused, bg,
                   resuming, inFlight, env>>

\* Below the ceilings: await the notifier.
ResumeNotify(t) ==
    /\ \E i \in Issues :
           /\ ResumeAsked(t, i)
           /\ tracker[i].attempt < MaxAttempts
    /\ tick' = [tick EXCEPT ![t].at = "spawn"]
    /\ UNCHANGED <<forge, sess, ledger, tracker, paused, bg, resuming, inFlight,
                   env>>

\* Set the flag and spawn_background(_resume_implement_one_issue); the tick
\* goes on.
ResumeSpawn(t) ==
    /\ tick[t].at = "spawn"
    /\ \E i \in Listed(t) :
           /\ bg' = [bg EXCEPT ![i][t] = "posting"]
           /\ resuming' = [resuming EXCEPT ![i] = TRUE]
    /\ Enter(t, "fetch", {})
    /\ UNCHANGED <<forge, sess, ledger, tracker, paused, inFlight, env>>

-----------------------------------------------------------------------------
(* implement_one_reviewed_issue: claim up to the free slots, then dispatch *)

\* fetch_reviewed_and_ensure_ownership: implement keeps the snapshot taken
\* before the ~by: labels were added, so an orphan is adopted next tick.
Fetch(t) ==
    /\ tick[t].at = "fetch"
    /\ LET reviewed == {i \in Issues : "revisada" \in stage[i] /\ ~blocked[i]}
       IN  /\ \E ok \in [reviewed -> ForgeOk] :
                 own' = [i \in Issues |->
                            own[i] \/ (i \in reviewed /\ Owns(i) /\ ok[i])]
           /\ Enter(t, "count",
                    {i \in reviewed : own[i] /\ stage[i] = {"revisada"}})
    /\ UNCHANGED <<stage, blocked, attempt, stale, pr, sess, ledger, tracker,
                   paused, bg, resuming, inFlight, env>>

\* _count_in_flight_issues
InFlightIssues == {i \in Issues : /\ "em_implementacao" \in stage[i]
                                  /\ "em_pr" \notin stage[i]
                                  /\ ~blocked[i]
                                  /\ own[i]}

\* Mutant: the issues in flight are not subtracted.
SlotsOfAnIdleFleet(ok) == MaxParallel

\* max_parallel minus the issues in flight; a listing error counts none.
Slots(ok) == LET busy == IF ok THEN Cardinality(InFlightIssues) ELSE 0
             IN  IF busy >= MaxParallel THEN 0 ELSE MaxParallel - busy

\* batch = candidates[:available_slots]
Count(t) ==
    /\ tick[t].at = "count"
    /\ \E ok \in ForgeOk :
          LET batch == {i \in Listed(t) :
                          Cardinality({j \in Listed(t) : j < i}) < Slots(ok)}
          IN  /\ tick' = [tick EXCEPT
                     ![t].at = "claim",
                     ![t].list = [i \in batch |-> tick[t].list[i]]]
              /\ blind' = (blind \/ ~ok)
    /\ UNCHANGED <<forge, sess, ledger, tracker, paused, bg, resuming, inFlight,
                   kills, unblocks, reaps>>

\* An expired worker login pauses the target.
ClaimPaused(t) ==
    /\ Working(t, "claim")
    /\ \E i \in Foremost(Listed(t)) : paused[i] /\ Leave(t, i, "none")
    /\ UNCHANGED <<forge, sess, ledger, tracker, paused, bg, resuming, inFlight,
                   env>>

\* A merged pull request already did the work: block.
ClaimMerged(t) ==
    /\ Working(t, "claim")
    /\ \E i \in Foremost(Listed(t)), ok \in ForgeOk :
           /\ ~paused[i]
           /\ pr[i] = "merged"
           /\ Block(i, ok)
           /\ Leave(t, i, "none")
    /\ UNCHANGED <<stage, own, attempt, stale, pr, sess, ledger, paused, bg,
                   resuming, inFlight, env>>

\* An exception leaves the stage and ends the tick.
Abort(t) ==
    /\ ForgeFaults
    /\ tick' = [tick EXCEPT ![t] = IdleTick]
    /\ inFlight' = FALSE

\* Remove revisada: on the way to em_pr when (with the gate) an open pull request
\* already implements the issue, to em_implementacao otherwise.
ClaimRemove(t) ==
    /\ Working(t, "claim")
    /\ \E i \in Foremost(Listed(t)), ok \in ForgeOk :
       \E p \in Seen(i) \ {"merged"} :
           /\ ~paused[i]
           /\ RemoveStage(i, "revisada", ok)
           /\ Leave(t, i, IF EnableGate /\ p = "open"
                             THEN IF ok THEN "park" ELSE "unpark"
                          ELSE IF ok THEN "claim" ELSE "none")
    /\ UNCHANGED <<blocked, own, attempt, stale, pr, sess, ledger, tracker,
                   paused, bg, resuming, inFlight, env>>

\* Park the issue in em_pr, unless the removal failed; then remove what is
\* left of its refinement, which may raise.
FinishPark(t) ==
    /\ tick[t].move \in {"park", "unpark"}
    /\ LET i == tick[t].on
       IN  /\ \E ok \in ForgeOk :
                 AddStage(i, "em_pr", ok /\ tick[t].move = "park")
           /\ \/ /\ tracker' = [tracker EXCEPT ![i] = NoTrack]
                 /\ tick' = Landed(t)
                 /\ UNCHANGED inFlight
              \/ Abort(t) /\ UNCHANGED tracker
    /\ UNCHANGED <<blocked, own, attempt, stale, pr, sess, ledger, paused, bg,
                   resuming, env>>

\* Mutant: a claim that failed is dispatched all the same.
FinishClaimAnyway(t) ==
    /\ tick[t].move = "claim"
    /\ LET i == tick[t].on
       IN  /\ \E ok \in ForgeOk :
                 /\ AddStage(i, "em_implementacao", ok)
                 /\ stale' = [stale EXCEPT ![i] = @ /\ ~ok]
           /\ tick' = [Landed(t) EXCEPT ![t].claimed = @ \cup {i}]
    /\ UNCHANGED <<blocked, own, attempt, pr, sess, ledger, tracker, paused, bg,
                   resuming, inFlight, env>>

\* The claim is complete and the issue will be dispatched, unless (with the gate)
\* the removal of its refinement leftovers raises: then nothing that this tick
\* claimed is dispatched.
FinishClaim(t) ==
    /\ tick[t].move = "claim"
    /\ LET i == tick[t].on
       IN  \E ok \in ForgeOk :
             /\ AddStage(i, "em_implementacao", ok)
             /\ stale' = [stale EXCEPT ![i] = @ /\ ~ok]
             /\ \/ /\ tick' = [Landed(t) EXCEPT ![t].claimed =
                                  IF ok THEN @ \cup {i} ELSE @]
                   /\ UNCHANGED inFlight
                \/ ok /\ EnableGate /\ Abort(t)
    /\ UNCHANGED <<blocked, own, attempt, pr, sess, ledger, tracker, paused, bg,
                   resuming, env>>

ClaimDone(t) ==
    /\ StageDone(t, "claim")
    /\ tick' = [tick EXCEPT ![t].at = "post"]
    /\ UNCHANGED <<forge, sess, ledger, tracker, paused, bg, resuming, inFlight,
                   env>>

\* The ledger records a session when the 202 arrives, and never hears of it
\* when the 202 is lost.  Kept only where something reads it: the resume does.
Recorded(i) ==
    IF EnableResume THEN {ledger, [ledger EXCEPT ![i] = TRUE]} ELSE {ledger}

\* Fire-and-forget POST for one claimed issue.  The worker takes it unless it
\* already runs a session for the issue or cannot be reached; a refusal is only
\* logged.
Post(t, i) ==
    /\ tick[t].at = "post"
    /\ i \in tick[t].claimed
    /\ tick' = [tick EXCEPT ![t].claimed = @ \ {i}]
    /\ \/ /\ sess[i] = "none"
          /\ sess' = [sess EXCEPT ![i] = "fresh"]
          /\ ledger' \in Recorded(i)
       \/ UNCHANGED <<sess, ledger>>
    /\ UNCHANGED <<forge, tracker, paused, bg, resuming, inFlight, env>>

\* tick() returns; its finally resets the flag whoever else is in a tick.
EndTick(t) ==
    /\ tick[t].at = "post"
    /\ tick[t].claimed = {}
    /\ tick' = [tick EXCEPT ![t] = IdleTick]
    /\ inFlight' = FALSE
    /\ UNCHANGED <<forge, sess, ledger, tracker, paused, bg, resuming, env>>

-----------------------------------------------------------------------------
(* _resume_implement_one_issue: a detached resume of issue i, spawned by t *)

\* Its finally takes the issue out of _resume_in_flight, whoever put it there.
TaskEnds(i, t) ==
    /\ bg' = [bg EXCEPT ![i][t] = "none"]
    /\ resuming' = [resuming EXCEPT ![i] = FALSE]

\* max(state.attempt + 1, 0).  MaxAttempts caps the count: only "reached the
\* ceiling" is ever asked of it.
OneMore(i) == IF tracker[i].attempt = MaxAttempts THEN MaxAttempts
              ELSE tracker[i].attempt + 1

\* _absorb_progress: one more attempt, or as many as the worker remembers when
\* it says something at all.
Absorbed(i, t) ==
    IF bg[i][t] = "waiting" THEN OneMore(i)..MaxAttempts ELSE {OneMore(i)}

\* _resolve_resume_meta drops an entry the worker knows nothing about.
LedgerLookup(i) == ledger' \in {ledger, [ledger EXCEPT ![i] = FALSE]}

\* The worker takes the resume.
BgAccepted(i, t) ==
    /\ bg[i][t] = "posting"
    /\ sess[i] = "none"
    /\ sess' = [sess EXCEPT ![i] = "resume"]
    /\ bg' = [bg EXCEPT ![i][t] = "waiting"]
    /\ LedgerLookup(i)
    /\ UNCHANGED <<forge, tracker, paused, resuming, tick, inFlight, env>>

\* DISPATCH_SKIPPED_STILL_RUNNING: the recorded session is alive, no attempt
\* is spent.
BgStillRunning(i, t) ==
    /\ bg[i][t] = "posting"
    /\ sess[i] # "none" /\ ledger[i]
    /\ TaskEnds(i, t)
    /\ UNCHANGED <<forge, sess, ledger, tracker, paused, tick, inFlight, env>>

\* The ledger does not lead to the live session (no entry, or resume-info not
\* answered), and the worker refuses the dispatch: DISPATCH_SKIPPED_LEASE or
\* DISPATCH_SKIPPED_CONCURRENT, errors like any other to the stage.
BgLeaseRefused(i, t) ==
    /\ bg[i][t] = "posting"
    /\ sess[i] # "none"
    /\ TaskEnds(i, t)
    /\ LedgerLookup(i)
    /\ tracker' = [tracker EXCEPT ![i].attempt = OneMore(i), ![i].err = "OTHER"]
    /\ UNCHANGED <<forge, sess, paused, tick, inFlight, env>>

\* The session is over and its response is here.
Answered(i, t) ==
    /\ bg[i][t] = "waiting"
    /\ sess' = [sess EXCEPT ![i] = "none"]

\* CONCLUIDO: there is a pull request; remove em_implementacao.
BgConcluded(i, t) ==
    /\ Answered(i, t)
    /\ pr[i] # "none"
    /\ ledger' = [ledger EXCEPT ![i] = FALSE]
    /\ tracker' = [tracker EXCEPT ![i] = NoTrack]
    /\ paused' = [paused EXCEPT ![i] = FALSE]
    /\ \E ok \in ForgeOk :
          /\ RemoveStage(i, "em_implementacao", ok)
          /\ \/ ok /\ bg' = [bg EXCEPT ![i][t] = "concluding"] /\ UNCHANGED resuming
             \/ ~ok /\ TaskEnds(i, t)
    /\ UNCHANGED <<blocked, own, attempt, stale, pr, tick, inFlight, env>>

\* ... and add em_pr.
BgConclude(i, t) ==
    /\ bg[i][t] = "concluding"
    /\ \E ok \in ForgeOk : AddStage(i, "em_pr", ok)
    /\ TaskEnds(i, t)
    /\ UNCHANGED <<blocked, own, attempt, stale, pr, sess, ledger, tracker,
                   paused, tick, inFlight, env>>

\* The agent declared BLOQUEADO, repeated the same diff, or once more finished
\* without a pull request at the ceiling for that.
BgBlocks(i, t) ==
    /\ Answered(i, t)
    /\ ledger' \in {[ledger EXCEPT ![i] = b] : b \in BOOLEAN}
    /\ TaskEnds(i, t)
    /\ \E ok \in ForgeOk : Block(i, ok)
    /\ UNCHANGED <<stage, own, attempt, stale, pr, paused, tick, inFlight, env>>

\* INCOMPLETO with progress: parked for the next resume.
BgIncomplete(i, t) ==
    /\ Answered(i, t)
    /\ tracker[i].incomplete + 1 < MaxIncomplete
    /\ ledger' \in {[ledger EXCEPT ![i] = b] : b \in BOOLEAN}
    /\ TaskEnds(i, t)
    /\ \E a \in Absorbed(i, t) :
          tracker' = [tracker EXCEPT ![i] =
              [@ EXCEPT !.attempt = a,
                        !.incomplete = tracker[i].incomplete + 1]]
    /\ UNCHANGED <<forge, paused, tick, inFlight, env>>

\* The text names a pull request that is not (seen to be) open: still parked.
BgNotOpen(i, t) ==
    /\ Answered(i, t)
    /\ \E p \in Seen(i) : p # "open"
    /\ ledger' = [ledger EXCEPT ![i] = FALSE]
    /\ TaskEnds(i, t)
    /\ \E a \in Absorbed(i, t) : tracker' = [tracker EXCEPT ![i].attempt = a]
    /\ UNCHANGED <<forge, paused, tick, inFlight, env>>

\* No verdict: the worker cannot be reached, is being started, is over its cost
\* cap, rejects the request; or the HTTP call is over and the session need not
\* be.
Unanswered(i, t) ==
    /\ TaskEnds(i, t)
    /\ \/ /\ bg[i][t] = "posting"
          /\ LedgerLookup(i)
          /\ UNCHANGED sess
       \/ /\ bg[i][t] = "waiting"
          /\ sess' \in {[sess EXCEPT ![i] = s] : s \in {"none", "fresh"}}
          /\ ledger' \in {[ledger EXCEPT ![i] = @ \/ b] : b \in BOOLEAN}

\* The second failure in a row of a kind that escalates blocks.
BgFailedTwice(i, t) ==
    /\ Unanswered(i, t)
    /\ tracker[i].err \in EscalateOnRepeat
    /\ \E ok \in ForgeOk : Block(i, ok)
    /\ UNCHANGED <<stage, own, attempt, stale, pr, paused, tick, inFlight, env>>

\* Any other failure parks.
BgFailed(i, t) ==
    /\ Unanswered(i, t)
    /\ \E kind \in Errors \ {"none"}, a \in Absorbed(i, t) :
          /\ kind \in EscalateOnRepeat => tracker[i].err # kind
          /\ tracker' = [tracker EXCEPT ![i].attempt = a, ![i].err = kind]
    /\ UNCHANGED <<forge, paused, tick, inFlight, env>>

\* WORKER_AUTH_EXPIRED: parked too, and after a few of them paused.
BgAuthExpired(i, t) ==
    /\ Unanswered(i, t)
    /\ \E a \in Absorbed(i, t) : tracker' = [tracker EXCEPT ![i].attempt = a]
    /\ paused' \in {paused, [paused EXCEPT ![i] = TRUE]}
    /\ UNCHANGED <<forge, tick, inFlight, env>>

-----------------------------------------------------------------------------
(* Workers, the clock, humans and restarts *)

\* A session pushes its branch and opens the pull request.
WorkerOpensPr(i) ==
    /\ sess[i] # "none" /\ pr[i] = "none"
    /\ pr' = [pr EXCEPT ![i] = "open"]
    /\ UNCHANGED <<stage, blocked, own, attempt, stale, sess, ledger, memory, env>>

\* A session nobody waits for ends, with or without a pull request.
SessionEnds(i) ==
    /\ sess[i] = "fresh"
    /\ sess' = [sess EXCEPT ![i] = "none"]
    /\ UNCHANGED <<forge, ledger, memory, env>>

\* reaper_stale_seconds go by since em_implementacao was applied.
GrowsStale(i) ==
    /\ EnableReaper
    /\ "em_implementacao" \in stage[i] /\ ~stale[i]
    /\ stale' = [stale EXCEPT ![i] = TRUE]
    /\ UNCHANGED <<stage, blocked, own, attempt, pr, sess, ledger, memory, env>>

\* The authentication pause runs out.
PauseEnds(i) ==
    /\ paused[i]
    /\ paused' = [paused EXCEPT ![i] = FALSE]
    /\ UNCHANGED <<forge, sess, ledger, tracker, bg, resuming, tick, inFlight,
                   env>>

\* The pull request is merged; the issue stays open.
PrMerged(i) ==
    /\ pr[i] = "open"
    /\ pr' = [pr EXCEPT ![i] = "merged"]
    /\ UNCHANGED <<stage, blocked, own, attempt, stale, sess, ledger, memory, env>>

\* A human removes bloqueada.
Unblock(i) ==
    /\ blocked[i] /\ unblocks < MaxUnblocks
    /\ blocked' = [blocked EXCEPT ![i] = FALSE]
    /\ unblocks' = unblocks + 1
    /\ UNCHANGED <<stage, own, attempt, stale, pr, sess, ledger, memory, kills,
                   reaps, blind>>

\* The pipeline pod restarts: memory is gone, nobody waits for the sessions.
Kill ==
    /\ kills < MaxKills
    /\ kills' = kills + 1
    /\ tick' = [t \in Ticks |-> IdleTick]
    /\ inFlight' = FALSE
    /\ tracker' = [i \in Issues |-> NoTrack]
    /\ paused' = [i \in Issues |-> FALSE]
    /\ bg' = [i \in Issues |-> [t \in Ticks |-> "none"]]
    /\ resuming' = [i \in Issues |-> FALSE]
    /\ sess' = [i \in Issues |-> IF sess[i] = "resume" THEN "fresh" ELSE sess[i]]
    /\ UNCHANGED <<forge, ledger, unblocks, reaps, blind>>

TickStep(t) ==
    \/ StartTick(t)
    \/ ReapSkip(t) \/ ReapRemove(t) \/ FinishReap(t) \/ ReapDone(t)
    \/ ReconcileSkip(t) \/ ReconcileRemove(t) \/ FinishReconcile(t)
    \/ ReconcileDone(t)
    \/ ResumeNone(t) \/ ResumeSelect(t) \/ ResumePrOpen(t)
    \/ ResumeCeiling(t) \/ ResumeNotify(t) \/ ResumeSpawn(t)
    \/ Fetch(t) \/ Count(t)
    \/ ClaimPaused(t) \/ ClaimMerged(t) \/ ClaimRemove(t)
    \/ FinishPark(t) \/ FinishClaim(t) \/ ClaimDone(t)
    \/ \E i \in Issues : Post(t, i)
    \/ EndTick(t)

BgStep(i, t) ==
    \/ BgAccepted(i, t) \/ BgStillRunning(i, t) \/ BgLeaseRefused(i, t)
    \/ BgConcluded(i, t) \/ BgConclude(i, t) \/ BgBlocks(i, t)
    \/ BgIncomplete(i, t) \/ BgNotOpen(i, t)
    \/ BgFailedTwice(i, t) \/ BgFailed(i, t) \/ BgAuthExpired(i, t)

Next ==
    \/ \E t \in Ticks : TickStep(t) \/ ForceTick(t)
    \/ \E i \in Issues :
          \/ \E t \in Ticks : BgStep(i, t)
          \/ WorkerOpensPr(i) \/ SessionEnds(i) \/ GrowsStale(i) \/ PauseEnds(i)
          \/ PrMerged(i) \/ Unblock(i)
    \/ Kill

Spec == Init /\ [][Next]_vars

\* asyncio runs every ready coroutine, a worker session ends (the worker kills
\* it at its own timeout) and wall-clock time passes.  The cadence window of a
\* claim is finite, so a claim that no task holds is due again and again until
\* a tick serves it.
Fairness ==
    /\ \A t \in Ticks : /\ WF_vars(TickStep(t))
                        /\ SF_vars(ResumeSelect(t))
    /\ \A i \in Issues : /\ \A t \in Ticks : WF_vars(BgStep(i, t))
                         /\ WF_vars(SessionEnds(i))
                         /\ WF_vars(GrowsStale(i))
                         /\ WF_vars(PauseEnds(i))

FairSpec == Spec /\ Fairness

-----------------------------------------------------------------------------
(* Properties *)

\* An issue carries at most one ~workflow: stage ("the single-state invariant"
\* of _reap_one, "exactly one ~workflow: state" of the implement stage).
SingleStage == \A i \in Issues : Cardinality(stage[i]) <= 1

\* implement_one_reviewed_issue never puts more issues in flight than
\* max_parallel, however many it claims at once and whatever fails meanwhile,
\* as long as its count of the issues in flight itself does not fail (a listing
\* error counts as an idle fleet); a human who removes bloqueada from a claim
\* may add one.
WithinCapacity ==
    blind \/ Cardinality(InFlightIssues) <= MaxParallel + unblocks

\* Some coroutine is between removing a label from i and adding the next one.
Moving(i) == \E t \in Ticks : bg[i][t] = "concluding" \/ tick[t].on = i

\* No issue falls out of the pipeline: it carries a stage or bloqueada, or a
\* coroutine is about to add one.  Every listing finds issues by their stage,
\* and an issue with any ~ label is never classified again.
NeverLost == \A i \in Issues : stage[i] # {} \/ blocked[i] \/ Moving(i)

\* ~attempt:N is the durable count of the reaper's releases: it is what bounds
\* them at reaper_max_attempts.
AttemptCountsReaps ==
    \A i \in Issues : Moving(i) \/ attempt[i] = reaps[i]

\* An issue is claimed, abandoned and released reaper_max_attempts times at
\* most, the last time into bloqueada.
ReapsBounded == \A i \in Issues : reaps[i] <= MaxReaps

\* A fresh session starts only for an issue that is claimed and not blocked at
\* that very moment, several awaits after the tick claimed it.
FreshNeedsClaim ==
    [][\A i \in Issues : sess[i] = "none" /\ sess'[i] = "fresh"
          => "em_implementacao" \in stage[i] /\ ~blocked[i]]_vars

\* What keeps SingleStage and FreshNeedsClaim, as long as no tick is forced and
\* the reaper and the automatic resume are not both enabled: an issue has one
\* stage, and one that a resume task works on is not in revisada ...
IssueDiscipline(i) ==
    /\ stage[i] \in {{}} \cup {{s} : s \in Stages}
    /\ \A t \in Ticks :
          /\ bg[i][t] # "none" => EnableResume /\ "revisada" \notin stage[i]
          /\ bg[i][t] = "concluding" => stage[i] \subseteq {"em_pr"}
          /\ bg[i][t] = "waiting" => sess[i] = "resume"

Unattended(i) == \A t \in Ticks : bg[i][t] = "none"

Undisturbed(i) == Unattended(i) /\ ~blocked[i]

\* ... what a stage listed still carries the stage it was listed for ...
ListedStays(t, i) ==
    /\ tick[t].at \in {"reap", "reconcile", "resume", "ask", "spawn", "count",
                      "claim"}
    /\ tick[t].at = "reap" =>
          EnableReaper /\ stage[i] = {"em_implementacao"} /\ Unattended(i)
    /\ tick[t].at = "reconcile" => "revisada" \notin stage[i]
    /\ tick[t].at \in {"resume", "ask", "spawn"} =>
          EnableResume /\ "revisada" \notin stage[i]
    /\ tick[t].at \in {"count", "claim"} => stage[i] = {"revisada"} /\ Undisturbed(i)

\* ... a coroutine that is about to add a label is alone with its issue ...
MoveIsAlone(t, i) ==
    /\ i \notin Listed(t)
    /\ \/ /\ tick[t].at = "reap"
          /\ \/ tick[t].move = "reap" /\ stage[i] = {} /\ Unattended(i)
             \/ tick[t].move = "exhaust"
       \/ /\ tick[t].at = "reconcile"
          /\ tick[t].move = "reconcile" /\ stage[i] \subseteq {"em_pr"}
       \/ /\ tick[t].at = "claim"
          /\ \/ tick[t].move \in {"claim", "park"} /\ stage[i] = {} /\ Undisturbed(i)
             \/ tick[t].move = "unpark"

\* ... and a claimed issue stays claimed, unblocked and free of resume tasks
\* until it is dispatched.
ClaimHolds(t, i) ==
    /\ tick[t].at \in {"claim", "post"}
    /\ i \notin Listed(t) /\ i # tick[t].on
    /\ stage[i] = {"em_implementacao"} /\ Undisturbed(i)

TickDiscipline(t) ==
    /\ \A i \in Listed(t) : ListedStays(t, i)
    /\ tick[t].move # "none" => MoveIsAlone(t, tick[t].on)
    /\ \A i \in tick[t].claimed : ClaimHolds(t, i)

ClaimDiscipline == /\ \A i \in Issues : IssueDiscipline(i)
                   /\ \A t \in Ticks : TickDiscipline(t)

\* Every issue in this half of the pipeline ends in em_pr or in bloqueada.
Settles ==
    \A i \in Issues : (stage[i] # {}) ~> ("em_pr" \in stage[i] \/ blocked[i])

\* A claim the reaper released is claimed again (or parked, or blocked).
ReapedIsReclaimed ==
    \A i \in Issues : (stage[i] = {"revisada"} /\ reaps[i] > 0)
                         ~> (stage[i] # {"revisada"} \/ blocked[i])

=============================================================================
