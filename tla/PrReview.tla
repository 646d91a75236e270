------------------------------ MODULE PrReview ------------------------------
(***************************************************************************)
(* Stage 3 of the pipeline: a pull request is reviewed, corrected and       *)
(* merged by sessions of a worker (pipeline/stages.py).                     *)
(*                                                                          *)
(* A fresh review is dispatched by one tick and its verdict read by a later *)
(* one, through the task in the PR's DispatchLedger entry.  A review that   *)
(* is resumed runs in a task of its own next to the poll loop and decides   *)
(* from the answer it waits for.  In between PRs get commits and are        *)
(* merged, sessions end or die, labels age, the pod is killed and humans    *)
(* remove blocks.                                                           *)
(***************************************************************************)
EXTENDS Integers, FiniteSets

CONSTANTS
    Prs,           \* numbers of the PRs (lower is served first)
    Modes,         \* configurations: sets of "reaper" and "resume"
    MaxAttempts,   \* max_retries of the stage pr_review
    MaxAddress,    \* MAX_ADDRESS_ATTEMPTS
    MaxReaps,      \* config.reaper_max_attempts
    MaxPushes,     \* bound on commits to each PR
    MaxTrouble     \* bound on faults, human edits and restarts together

ASSUME PrsAssumption == Prs \subseteq Nat \ {0} /\ IsFiniteSet(Prs)
ASSUME ModesAssumption == Modes \subseteq SUBSET {"reaper", "resume"}
ASSUME LimitsAssumption ==
    /\ {MaxAttempts, MaxAddress, MaxReaps} \subseteq Nat \ {0}
    /\ {MaxPushes, MaxTrouble} \subseteq Nat

VARIABLES
    mode,     \* the features that are on: reaper_stale_seconds > 0, enable_resume
    label,    \* per PR: its labels
    age,      \* per PR: the age of ~review:em_andamento to the reaper
    open,     \* the PRs that are neither merged nor closed
    head,     \* per PR: its HEAD
    news,     \* the PRs with commits of code or docs since ~review:concluida
    ci,       \* the PRs whose CI runs
    live,     \* per PR: the session of its channel on the worker
    ledger,   \* per PR: the task in its DispatchLedger entry
    memo,     \* per PR: its ResumeTracker entry
    bg,       \* per PR: its background resume (_resume_in_flight)
    tick,     \* where the poll loop's tick stands
    faults,   \* failed calls, lost answers and dead workers so far
    kills,    \* restarts of the pipeline pod so far
    edits,    \* blocks removed by humans so far
    spent     \* history: per PR, what was dispatched for it since it was reset

outside == <<open, head, news, ci>>
counters == <<faults, kills, edits>>
vars == <<mode, label, age, outside, live, ledger, memo, bg, tick, counters, spent>>

-----------------------------------------------------------------------------
(* Types and initial state *)

ReviewLabels == {"pendente", "em_andamento", "concluida"}

Labels == [review : SUBSET ReviewLabels,
           blocked : BOOLEAN,           \* ~workflow:bloqueada
           own : BOOLEAN,               \* ~by:<monitor>
           attempt : 0..MaxReaps]       \* N of ~attempt:N

Heads == 0..MaxPushes

NoHead == -1

\* How a session ends, as the worker's result tells it.
Ends == {"merged", "quiet", "changes", "stuck", "error"}

\* What the worker tells of the task of a ledger entry that is over: "bad" is an
\* error or a text with BLOQUEADO or REQUEST_CHANGES, which
\* reconcile_review_prs takes for a block.
Told(e) == IF e \in {"merged", "quiet"} THEN "good" ELSE "bad"

\* by: who will learn of its end.  "ledger": the ledger entry names its task;
\* "resume": it continues the session of that entry; "bg": only the background
\* resume that waits for it; "lost": nobody.
Sessions == [kind : {"none", "review", "address"},
             by : {"none", "ledger", "resume", "bg", "lost"}]

NoSession == [kind |-> "none", by |-> "none"]

Entries == {"none", "running", "good", "bad"}

\* attempt, last_reviewed_sha, address_attempt_count
Memos == [attempt : 0..MaxAttempts, sha : Heads \cup {NoHead},
          address : 0..MaxAddress]

Forgotten == [attempt |-> 0, sha |-> NoHead, address |-> 0]

\* head: the HEAD in the listing that the resume was started from.
Resumes == [at : {"none", "lookup", "posting", "running", "blocking",
                  "concluding", "addressing"},
            head : Heads \cup {NoHead}, end : Ends \cup {"none"}, again : BOOLEAN]

NoResume == [at |-> "none", head |-> NoHead, end |-> "none", again |-> FALSE]

Verdicts == {"merged", "blocked", "delivered"}

\* list: the PRs the phase has still to look at.  cand, prog, heads: what the
\* listing of the review phase said, candidates, em_andamento and HEAD.
Ticks == [at : {"idle", "reap", "reconcile", "review", "classify"},
          point : {"next", "judged", "posting"},
          list : SUBSET Prs, on : Prs \cup {0},
          verdict : Verdicts \cup {"none"},
          cand : SUBSET Prs, prog : SUBSET Prs, heads : [Prs -> Heads]]

IdleTick == [at |-> "idle", point |-> "next", list |-> {}, on |-> 0,
             verdict |-> "none", cand |-> {}, prog |-> {},
             heads |-> [p \in Prs |-> 0]]

\* Above what the properties allow a PR to cost.
MaxSpent == MaxAttempts + MaxReaps + MaxTrouble + (MaxAddress + 1) * (MaxPushes + 1)

TypeOK ==
    /\ mode \in Modes
    /\ label \in [Prs -> Labels]
    /\ age \in [Prs -> {"young", "old"}]
    /\ open \in SUBSET Prs
    /\ head \in [Prs -> Heads]
    /\ news \in SUBSET Prs
    /\ ci \in SUBSET Prs
    /\ live \in [Prs -> Sessions]
    /\ ledger \in [Prs -> Entries]
    /\ memo \in [Prs -> Memos]
    /\ bg \in [Prs -> Resumes]
    /\ tick \in Ticks
    /\ tick.point # "next" => tick.on \in Prs
    /\ faults \in Nat /\ edits \in Nat /\ kills \in Nat
    /\ faults + edits + kills <= MaxTrouble
    /\ spent \in [Prs -> [rounds : 0..MaxSpent, fixes : 0..MaxSpent]]

\* PRs the implement stage has just opened.
Init ==
    /\ mode \in Modes
    /\ label = [p \in Prs |-> [review |-> {}, blocked |-> FALSE,
                               own |-> FALSE, attempt |-> 0]]
    /\ age = [p \in Prs |-> "young"]
    /\ open = Prs
    /\ head = [p \in Prs |-> 0]
    /\ news = {}
    /\ ci \in {{}, Prs}
    /\ live = [p \in Prs |-> NoSession]
    /\ ledger = [p \in Prs |-> "none"]
    /\ memo = [p \in Prs |-> Forgotten]
    /\ bg = [p \in Prs |-> NoResume]
    /\ tick = IdleTick
    /\ faults = 0 /\ kills = 0 /\ edits = 0
    /\ spent = [p \in Prs |-> [rounds |-> 0, fixes |-> 0]]

-----------------------------------------------------------------------------
(* Helpers *)

Foremost(S) == {p \in S : \A q \in S : p <= q}

\* There is room for one more thing that goes wrong.
Room == faults + edits + kills < MaxTrouble

\* A call fails, or those of one outage, or an answer is lost.
Fault == Room /\ faults' = faults + 1

NoFault == UNCHANGED faults

\* Mutant: transition_pr leaves the old label.
MovedKeeping(S, from, to) == S \cup {to}

\* What transition_pr makes of the review labels S.
Moved(S, from, to) == (S \ {from}) \cup {to}

\* The ways transition_pr ends: done, the removal failed, the addition failed.
Outcomes == {"moved", "kept", "lost"}

Relabel(p, from, to, how) ==
    /\ label' = [label EXCEPT ![p].review =
           CASE how = "moved" -> Moved(@, from, to)
             [] how = "kept"  -> @
             [] how = "lost"  -> @ \ {from}]
    /\ news' = IF to = "concluida" /\ how = "moved" THEN news \ {p} ELSE news
    /\ IF how = "moved" THEN NoFault ELSE Fault

\* _block_pr: the label, whose failure is only logged, and ResumeTracker.clear.
Block(p) ==
    /\ memo' = [memo EXCEPT ![p] = Forgotten]
    /\ \/ label' = [label EXCEPT ![p].blocked = TRUE] /\ NoFault
       \/ UNCHANGED label /\ Fault

More(n) == IF n < MaxSpent THEN n + 1 ELSE n

\* A session of the PR's channel is accepted, which costs money.
Starts(p, kind, by) ==
    /\ live' = [live EXCEPT ![p] = [kind |-> kind, by |-> by]]
    /\ spent' = IF kind = "review" THEN [spent EXCEPT ![p].rounds = More(@)]
                                   ELSE [spent EXCEPT ![p].fixes = More(@)]

\* The session that the ledger entry names is at work: resume-info says so.
AtWork(p) == live[p].by \in {"ledger", "resume"}

\* A dispatch that is not waited for: the session starts and the entry is
\* written, its answer is lost, or it is refused (always while one is alive).
PostNowait(p, kind) ==
    \/ /\ live[p].kind = "none"
       /\ Starts(p, kind, "ledger")
       /\ ledger' = [ledger EXCEPT ![p] = "running"]
       /\ NoFault
    \/ /\ live[p].kind = "none"
       /\ Starts(p, kind, "lost")
       /\ Fault
       /\ UNCHANGED ledger
    \/ /\ IF live[p].kind = "none" THEN Fault ELSE NoFault
       /\ UNCHANGED <<live, ledger, spent>>

\* The tick looks at p in a phase; the phase has nothing left.
At(phase, p) == tick.at = phase /\ tick.point = "next" /\ p \in Foremost(tick.list)

Done(phase) == tick.at = phase /\ tick.point = "next" /\ tick.list = {}

Leave(p) == [tick EXCEPT !.point = "next", !.list = @ \ {p}, !.on = 0,
                         !.verdict = "none"]

\* A phase with the PRs S, with none when the listing fails.
Phase(phase, S) ==
    \/ tick' = [IdleTick EXCEPT !.at = phase, !.list = S] /\ NoFault
    \/ tick' = [IdleTick EXCEPT !.at = phase] /\ Fault

\* The review phase is over.
Classifying == [IdleTick EXCEPT !.at = "classify",
                                !.list = {p \in open : ~label[p].own}]

-----------------------------------------------------------------------------
(* reap_orphan_claims: the branch of the PRs *)

Claimed == {p \in open : "em_andamento" \in label[p].review}

StartTick ==
    /\ tick.at = "idle"
    /\ IF "reaper" \in mode
       THEN Phase("reap", {p \in Claimed : label[p].own})
       ELSE tick' = [IdleTick EXCEPT !.at = "reap"] /\ NoFault
    /\ UNCHANGED <<mode, label, age, outside, live, ledger, memo, bg, kills, edits, spent>>

ReapSkip(p) ==
    /\ At("reap", p)
    /\ tick' = Leave(p)
    /\ IF age[p] = "old" THEN Fault      \* label_applied_at says nothing
                         ELSE NoFault
    /\ UNCHANGED <<mode, label, age, outside, live, ledger, memo, bg, kills, edits, spent>>

\* Mutant: the count goes down.
CountDown(n) == n - 1

NextCount(n) == n + 1

\* Mutant: one release too many.
ExhaustedLate(n) == n > MaxReaps

Exhausted(n) == n >= MaxReaps

\* _reap_one: claim, owner and count go, the new count comes with pendente or,
\* at reaper_max_attempts, with bloqueada.
Reap(p) ==
    LET n == NextCount(label[p].attempt)
        bare == [label[p] EXCEPT !.review = @ \ {"em_andamento"},
                                 !.own = FALSE, !.attempt = 0]
    IN  /\ At("reap", p) /\ age[p] = "old"
        /\ tick' = Leave(p)
        /\ IF Exhausted(n)
           THEN \/ /\ label' = [label EXCEPT ![p] = [bare EXCEPT !.blocked = TRUE,
                                                                 !.attempt = MaxReaps]]
                   /\ NoFault
                \/ /\ label' = [label EXCEPT ![p] = [@ EXCEPT !.blocked = TRUE,
                                                              !.attempt = MaxReaps]]
                   /\ Fault
                \/ label' = [label EXCEPT ![p] = bare] /\ Fault
           ELSE \/ /\ label' = [label EXCEPT ![p] =
                          [bare EXCEPT !.review = @ \cup {"pendente"}, !.attempt = n]]
                   /\ NoFault
                \/ UNCHANGED label /\ Fault
                \/ label' = [label EXCEPT ![p] = bare] /\ Fault
    /\ UNCHANGED <<mode, age, outside, live, ledger, memo, bg, kills, edits, spent>>

-----------------------------------------------------------------------------
(* reconcile_review_prs *)

ReconcileList ==
    /\ Done("reap")
    /\ Phase("reconcile", {p \in Claimed : ~label[p].blocked})
    /\ UNCHANGED <<mode, label, age, outside, live, ledger, memo, bg, kills, edits, spent>>

\* No entry, or its session runs; a session that died with its pod has not
\* completed either.
ReconcileSkip(p) ==
    /\ At("reconcile", p)
    /\ ledger[p] \in {"none", "running"} \/ AtWork(p)
    /\ tick' = Leave(p)
    /\ UNCHANGED <<mode, label, age, outside, live, ledger, memo, bg, counters, spent>>

\* The worker does not answer, or does not know the task: the entry goes.
ReconcileGone(p) ==
    /\ At("reconcile", p)
    /\ ledger[p] # "none"
    /\ ledger' = [ledger EXCEPT ![p] = "none"]
    /\ tick' = Leave(p)
    /\ Fault
    /\ UNCHANGED <<mode, label, age, outside, live, memo, bg, kills, edits, spent>>

\* The session is over.  get_pr says nothing of a PR that is merged, of one
\* that is closed, and when it fails.
Judge(p, gone) ==
    IF gone THEN "merged" ELSE IF ledger[p] = "bad" THEN "blocked" ELSE "delivered"

ReconcileJudge(p) ==
    /\ At("reconcile", p)
    /\ ledger[p] \in {"good", "bad"} /\ ~AtWork(p)
    /\ \/ /\ tick' = [tick EXCEPT !.point = "judged", !.on = p,
                                  !.verdict = Judge(p, p \notin open)]
          /\ NoFault
       \/ /\ tick' = [tick EXCEPT !.point = "judged", !.on = p, !.verdict = "merged"]
          /\ p \in open /\ Fault
    /\ UNCHANGED <<mode, label, age, outside, live, ledger, memo, bg, kills, edits, spent>>

\* The verdict is applied and the entry dropped, whatever it names by then.
ReconcileApply(p) ==
    /\ tick.at = "reconcile" /\ tick.point = "judged" /\ tick.on = p
    /\ IF tick.verdict = "blocked"
       THEN Block(p) /\ UNCHANGED news
       ELSE /\ \E how \in Outcomes : Relabel(p, "em_andamento", "concluida", how)
            /\ IF tick.verdict = "merged"
               THEN memo' = [memo EXCEPT ![p] = Forgotten]
               ELSE UNCHANGED memo
    /\ ledger' = [ledger EXCEPT ![p] = "none"]
    /\ tick' = Leave(p)
    /\ UNCHANGED <<mode, age, open, head, ci, live, bg, kills, edits, spent>>

-----------------------------------------------------------------------------
(* review_one_open_pr: listing, invalidation, candidate *)

ReviewList ==
    /\ Done("reconcile")
    /\ \/ /\ tick' = [IdleTick EXCEPT
                 !.at = "review",
                 !.list = {p \in open : "concluida" \in label[p].review /\ ~label[p].blocked},
                 !.cand = {p \in open : "concluida" \notin label[p].review /\ ~label[p].blocked},
                 !.prog = Claimed,
                 !.heads = [p \in Prs |-> IF p \in Claimed THEN head[p] ELSE 0]]
          /\ NoFault
       \/ tick' = Classifying /\ Fault
    /\ UNCHANGED <<mode, label, age, outside, live, ledger, memo, bg, kills, edits, spent>>

\* Mutant: every commit is taken for a cosmetic one.
NothingNew(p) == FALSE

HasNews(p) == p \in news

\* _handle_review_concluded_invalidation: commits of code or docs after the
\* label put the PR back to pendente; cosmetic ones do not.  When a call fails
\* the label stays or, if it cannot be put back, the PR is left without one.
Invalidate(p) ==
    /\ At("review", p)
    /\ tick' = Leave(p)
    /\ \/ HasNews(p) /\ Relabel(p, "concluida", "pendente", "moved")
       \/ /\ UNCHANGED <<label, news>>
          /\ IF HasNews(p) THEN Fault ELSE NoFault
       \/ /\ HasNews(p)
          /\ label' = [label EXCEPT ![p].review = @ \ {"concluida"}]
          /\ UNCHANGED news
          /\ Fault
    /\ UNCHANGED <<mode, age, open, head, ci, live, ledger, memo, bg, kills, edits, spent>>

\* _candidate: what the listing said, and for a PR em_andamento what the
\* monitor knows now.  Its interval (cadence_ok), and a pause after expired
\* credentials, may have passed or not.
Eligible(p) ==
    /\ p \in tick.cand
    /\ p \in tick.prog => /\ "resume" \in mode
                          /\ bg[p].at = "none"

\* The PR this tick serves; those before it are not due.
Target(p) ==
    /\ Done("review") /\ Eligible(p)
    /\ \A q \in Prs : q < p /\ Eligible(q) => q \in tick.prog

NoTarget ==
    /\ Done("review")
    /\ {q \in Prs : Eligible(q)} \subseteq tick.prog
    /\ tick' = Classifying
    /\ UNCHANGED <<mode, label, age, outside, live, ledger, memo, bg, counters, spent>>

\* The branch of a PR that was merged meanwhile is gone.
BranchGone(p) ==
    /\ Target(p)
    /\ p \notin open
    /\ Block(p)
    /\ tick' = Classifying
    /\ UNCHANGED <<mode, age, outside, live, ledger, bg, kills, edits, spent>>

\* The CI gate, which ends the tick's reviews.
CiPending(p) ==
    /\ Target(p)
    /\ p \in ci
    /\ tick' = Classifying
    /\ UNCHANGED <<mode, label, age, outside, live, ledger, memo, bg, counters, spent>>

\* The gates are passed.  A CI check that fails counts as passed, which differs
\* from CI ending at that moment in nothing that is read later.
Passes(p) == Target(p) /\ p \notin ci

\* resolve_stage_max_retries("pr_review")
AtCeiling(p) == memo[p].attempt >= MaxAttempts

\* Nobody catches a failure to add the owner label.
ClaimAborted(p) ==
    /\ Passes(p)
    /\ Fault
    /\ tick' = IdleTick
    /\ UNCHANGED <<mode, label, age, outside, live, ledger, memo, bg, kills, edits, spent>>

ResumeCeiling(p) ==
    /\ Passes(p) /\ p \in tick.prog
    /\ AtCeiling(p)
    /\ memo' = [memo EXCEPT ![p] = Forgotten]
    /\ \/ /\ label' = [label EXCEPT ![p].own = TRUE, ![p].blocked = TRUE]
          /\ NoFault
       \/ /\ label' = [label EXCEPT ![p].own = TRUE]
          /\ Fault
    /\ tick' = Classifying
    /\ UNCHANGED <<mode, age, outside, live, ledger, bg, kills, edits, spent>>

\* spawn_background(_resume_review_one_pr)
ResumeStart(p) ==
    /\ Passes(p) /\ p \in tick.prog
    /\ ~AtCeiling(p)
    /\ label' = [label EXCEPT ![p].own = TRUE]
    /\ bg' = [bg EXCEPT ![p] = [NoResume EXCEPT !.at = "lookup", !.head = tick.heads[p]]]
    /\ tick' = Classifying
    /\ UNCHANGED <<mode, age, outside, live, ledger, memo, counters, spent>>

\* A fresh claim.  When transition_pr fails em_andamento is added on its own,
\* and a failure of that too gives the tick up.
FreshClaim(p) ==
    /\ Passes(p) /\ p \notin tick.prog
    /\ \/ /\ label' = [label EXCEPT ![p].own = TRUE,
                                    ![p].review = Moved(@, "pendente", "em_andamento")]
          /\ tick' = [tick EXCEPT !.point = "posting", !.on = p]
          /\ NoFault
       \/ /\ label' = [label EXCEPT ![p].own = TRUE, ![p].review = @ \cup {"em_andamento"}]
          /\ tick' = [tick EXCEPT !.point = "posting", !.on = p]
          /\ Fault
       \/ /\ \E S \in SUBSET {"pendente"} :
                label' = [label EXCEPT ![p].own = TRUE, ![p].review = @ \ S]
          /\ tick' = IdleTick
          /\ Fault
    /\ age' = [age EXCEPT ![p] = "young"]
    /\ UNCHANGED <<mode, outside, live, ledger, memo, bg, kills, edits, spent>>

FreshPost(p) ==
    /\ tick.at = "review" /\ tick.point = "posting" /\ tick.on = p
    /\ PostNowait(p, "review")
    /\ tick' = Classifying
    /\ UNCHANGED <<mode, label, age, outside, memo, bg, kills, edits>>

\* classify_new_prs: pendente for a PR without any label of the pipeline.
Classify(p) ==
    /\ At("classify", p)
    /\ tick' = Leave(p)
    /\ IF label[p] = [review |-> {}, blocked |-> FALSE, own |-> FALSE, attempt |-> 0]
       THEN \/ label' = [label EXCEPT ![p].review = {"pendente"}] /\ NoFault
            \/ UNCHANGED label /\ Fault
       ELSE UNCHANGED label /\ NoFault
    /\ UNCHANGED <<mode, age, outside, live, ledger, memo, bg, kills, edits, spent>>

EndTick ==
    /\ Done("classify")
    /\ tick' = IdleTick
    /\ UNCHANGED <<mode, label, age, outside, live, ledger, memo, bg, counters, spent>>

-----------------------------------------------------------------------------
(* _resume_review_one_pr, next to the poll loop *)

BgAt(p, at) == bg[p].at = at

\* The resume is over: _resume_in_flight.discard.
BgOver(p) == bg' = [bg EXCEPT ![p] = NoResume]

BgGoes(p, at) == bg' = [bg EXCEPT ![p].at = at]

\* _resolve_resume_meta: a session at work is left alone, and that costs no
\* attempt.  A task the worker does not know any more is forgotten.
BgLookup(p) ==
    /\ BgAt(p, "lookup")
    /\ \/ AtWork(p) /\ BgOver(p) /\ UNCHANGED ledger /\ NoFault
       \/ /\ ledger[p] # "none" /\ ~AtWork(p)
          /\ bg' = [bg EXCEPT ![p].at = "posting", ![p].again = TRUE]
          /\ UNCHANGED ledger /\ NoFault
       \/ ledger[p] = "none" /\ BgGoes(p, "posting") /\ UNCHANGED ledger /\ NoFault
       \/ /\ ledger[p] # "none"
          /\ BgGoes(p, "posting")
          /\ ledger' \in {ledger, [ledger EXCEPT ![p] = "none"]}
          /\ Fault
    /\ UNCHANGED <<mode, label, age, outside, live, memo, tick, kills, edits, spent>>

\* _absorb_progress: one attempt more, or as many as the worker counted.
Absorbed(p) == {[memo[p] EXCEPT !.attempt = n] : n \in (memo[p].attempt + 1)..MaxAttempts}

\* The review could not be done: an attempt is counted, the PR stays
\* em_andamento.  A worker that refuses because a session is alive is such a
\* failure too.
BgFails(p) ==
    /\ \E m \in Absorbed(p) : memo' = [memo EXCEPT ![p] = m]
    /\ BgOver(p)

BgPost(p) ==
    /\ BgAt(p, "posting")
    /\ \/ /\ live[p].kind = "none"
          /\ Starts(p, "review", IF bg[p].again THEN "resume" ELSE "bg")
          /\ BgGoes(p, "running")
          /\ NoFault
          /\ UNCHANGED memo
       \/ /\ IF live[p].kind = "none" THEN Fault ELSE NoFault
          /\ BgFails(p)
          /\ UNCHANGED <<live, spent>>
    /\ UNCHANGED <<mode, label, age, outside, ledger, tick, kills, edits>>

\* The watchdog of _post_dispatch gives up on a session that goes on.
BgTimesOut(p) ==
    /\ BgAt(p, "running") /\ bg[p].end = "none"
    /\ BgFails(p)
    /\ live' = [live EXCEPT ![p].by = IF @ = "bg" THEN "lost" ELSE @]
    /\ Fault
    /\ UNCHANGED <<mode, label, age, outside, ledger, tick, kills, edits, spent>>

\* _dispatch: the entry of a review that asks for nothing is dropped, of any
\* other it is written, for the next resume.
Recorded(e) == IF Told(e) = "good" THEN "none" ELSE "bad"

\* The SHA guard: this HEAD has been reviewed already.
SameHead(p) == memo[p].sha = bg[p].head

\* Mutant: the auto-corrections are not counted.
UncountedFix(m) == m

CountedFix(m) == [m EXCEPT !.address = @ + 1]

\* The answer of the review: blocked, merged, or neither.  Without progress
\* (the HEAD or the fingerprint of the work is the same) a review that asked
\* for changes to this HEAD is answered with an address session once, and
\* anything else with a block; with progress the next resume goes on.
BgAnswer(p) ==
    LET e == bg[p].end
    IN  /\ BgAt(p, "running") /\ e # "none"
        /\ ledger' = [ledger EXCEPT ![p] = Recorded(e)]
        /\ \E m \in Absorbed(p), stalled \in BOOLEAN :
             LET idle == SameHead(p) \/ (stalled /\ memo[p].attempt > 0)
             IN  \/ /\ e = "error"
                    /\ memo' = [memo EXCEPT ![p] = m] /\ BgOver(p)
                 \/ /\ e = "stuck"
                    /\ memo' = [memo EXCEPT ![p] = m] /\ BgGoes(p, "blocking")
                 \/ /\ e = "merged"
                    /\ memo' = [memo EXCEPT ![p] = m] /\ BgGoes(p, "concluding")
                 \/ /\ e \in {"quiet", "changes"} /\ idle
                    /\ SameHead(p) /\ e = "changes" /\ m.address < MaxAddress
                    /\ memo' = [memo EXCEPT ![p] = CountedFix(m)]
                    /\ BgGoes(p, "addressing")
                 \/ /\ e \in {"quiet", "changes"} /\ idle
                    /\ ~(SameHead(p) /\ e = "changes" /\ m.address < MaxAddress)
                    /\ memo' = [memo EXCEPT ![p] = m] /\ BgGoes(p, "blocking")
                 \/ /\ e \in {"quiet", "changes"} /\ ~idle
                    /\ memo' = [memo EXCEPT ![p] =
                                   [m EXCEPT !.address = 0, !.sha = bg[p].head]]
                    /\ BgOver(p)
    /\ UNCHANGED <<mode, label, age, outside, live, tick, counters, spent>>

BgBlock(p) ==
    /\ BgAt(p, "blocking")
    /\ Block(p)
    /\ BgOver(p)
    /\ UNCHANGED <<mode, age, outside, live, ledger, tick, kills, edits, spent>>

BgConclude(p) ==
    /\ BgAt(p, "concluding")
    /\ \E how \in Outcomes : Relabel(p, "em_andamento", "concluida", how)
    /\ memo' = [memo EXCEPT ![p] = Forgotten]
    /\ BgOver(p)
    /\ UNCHANGED <<mode, age, open, head, ci, live, ledger, tick, kills, edits, spent>>

\* address_review
BgAddress(p) ==
    /\ BgAt(p, "addressing")
    /\ PostNowait(p, "address")
    /\ BgOver(p)
    /\ UNCHANGED <<mode, label, age, outside, memo, tick, kills, edits>>

-----------------------------------------------------------------------------
(* The rest of the world *)

\* A session ends; a review may have merged the PR.  Its end is known to the
\* entry that names its task or to the resume that waits for it.
SessionEnds(p) ==
    \E e \in Ends :
        /\ live[p].kind # "none"
        /\ e = "merged" => live[p].kind = "review"
        /\ open' = IF e = "merged" THEN open \ {p} ELSE open
        /\ live' = [live EXCEPT ![p] = NoSession]
        /\ ledger' = [ledger EXCEPT ![p] = IF live[p].by = "ledger" THEN Told(e) ELSE @]
        /\ bg' = [bg EXCEPT ![p].end = IF BgAt(p, "running") THEN e ELSE @]
        /\ UNCHANGED <<mode, label, age, head, news, ci, memo, tick, counters, spent>>

\* A session dies with its pod: nobody notes that it has ended.
SessionDies(p) ==
    /\ live[p].kind # "none"
    /\ live' = [live EXCEPT ![p] = NoSession]
    /\ bg' = [bg EXCEPT ![p].end = IF BgAt(p, "running") THEN "error" ELSE @]
    /\ Fault
    /\ UNCHANGED <<mode, label, age, outside, ledger, memo, tick, kills, edits, spent>>

\* Somebody, a session maybe, pushes to the PR: cosmetic commits or others.
Push(p) ==
    /\ p \in open /\ head[p] < MaxPushes
    /\ head' = [head EXCEPT ![p] = @ + 1]
    /\ news' \in {news, IF "concluida" \in label[p].review THEN news \cup {p} ELSE news}
    /\ ci' = ci \cup {p}
    /\ UNCHANGED <<mode, label, age, open, live, ledger, memo, bg, tick, counters, spent>>

CiEnds(p) ==
    /\ p \in ci
    /\ ci' = ci \ {p}
    /\ UNCHANGED <<mode, label, age, open, head, news, live, ledger, memo, bg, tick,
                   counters, spent>>

\* The claim passes reaper_stale_seconds.
Ages(p) ==
    /\ "reaper" \in mode
    /\ p \in Claimed /\ age[p] = "young"
    /\ age' = [age EXCEPT ![p] = "old"]
    /\ UNCHANGED <<mode, label, outside, live, ledger, memo, bg, tick, counters, spent>>

Unspent == [rounds |-> 0, fixes |-> 0]

\* A human removes bloqueada.
HumanUnblocks(p) ==
    /\ label[p].blocked
    /\ Room /\ edits' = edits + 1
    /\ label' = [label EXCEPT ![p].blocked = FALSE]
    /\ spent' = [spent EXCEPT ![p] = Unspent]
    /\ UNCHANGED <<mode, age, outside, live, ledger, memo, bg, tick, faults, kills>>

\* The pipeline pod is killed: what it kept in memory is gone; a POST on its
\* way may be accepted yet, and nobody waits for its answer.
Kill ==
    /\ Room /\ kills' = kills + 1
    /\ tick' = IdleTick
    /\ memo' = [p \in Prs |-> Forgotten]
    /\ bg' = [p \in Prs |-> NoResume]
    /\ live' = [p \in Prs |-> IF live[p].by = "bg" THEN [live[p] EXCEPT !.by = "lost"]
                              ELSE live[p]]
    /\ spent' = [p \in Prs |-> Unspent]
    /\ UNCHANGED <<mode, label, age, outside, ledger, faults, edits>>

-----------------------------------------------------------------------------
(* Specification *)

PrStep(p) ==
    \/ ReapSkip(p) \/ Reap(p)
    \/ ReconcileSkip(p) \/ ReconcileGone(p) \/ ReconcileJudge(p) \/ ReconcileApply(p)
    \/ Invalidate(p)
    \/ BranchGone(p) \/ CiPending(p) \/ ClaimAborted(p)
    \/ ResumeCeiling(p) \/ ResumeStart(p) \/ FreshClaim(p) \/ FreshPost(p)
    \/ Classify(p)

TickStep ==
    \/ StartTick \/ ReconcileList \/ ReviewList \/ NoTarget \/ EndTick
    \/ \E p \in Prs : PrStep(p)

BgStep(p) ==
    \/ BgLookup(p) \/ BgPost(p) \/ BgAnswer(p) \/ BgBlock(p) \/ BgConclude(p)
    \/ BgAddress(p)

Next ==
    \/ TickStep
    \/ \E p \in Prs : \/ BgStep(p) \/ BgTimesOut(p)
                      \/ SessionEnds(p) \/ SessionDies(p)
                      \/ Push(p) \/ CiEnds(p) \/ Ages(p) \/ HumanUnblocks(p)
    \/ Kill

Spec == Init /\ [][Next]_vars

\* The poll loop and the resumes run, sessions and CI end, time passes: claims
\* age, and the interval of a resume that is due is found to be over sometimes.
Fairness ==
    /\ WF_vars(TickStep)
    /\ \A p \in Prs : /\ WF_vars(BgStep(p))
                      /\ WF_vars(SessionEnds(p))
                      /\ WF_vars(CiEnds(p))
                      /\ WF_vars(Ages(p))
                      /\ SF_vars(ResumeStart(p) \/ ResumeCeiling(p))

FairSpec == Spec /\ Fairness

-----------------------------------------------------------------------------
(* Properties *)

\* While no call has failed, an open PR carries at most one review label,
\* although the reaper or a background resume moves it while the poll loop
\* works from an older listing.  (A PR that is merged may end with two: the
\* resume that merged it concludes a claim the poll loop has already reopened.)
OneLabel == \A p \in open : Cardinality(label[p].review) <= 1 \/ faults > 0

\* What reviewing a PR may cost: a first session or, with the reaper,
\* reaper_max_attempts of them; with resume max_retries resumed ones, and one
\* more from a listing older than the end of the last of them; and one more for
\* every commit that reopens it and for every human who unblocks it.
Budget == (IF "reaper" \in mode THEN MaxReaps ELSE 1)
          + (IF "resume" \in mode THEN MaxAttempts + 1 ELSE 0)

RoundsBounded ==
    \A p \in Prs : spent[p].rounds <= Budget + head[p] + edits \/ faults > 0

\* A review that asks for changes and sessions that address it do not alternate
\* for ever: MAX_ADDRESS_ATTEMPTS address sessions for each HEAD the PR has had,
\* unless a human unblocks it.
FixesBounded ==
    \A p \in Prs : spent[p].fixes <= MaxAddress * (head[p] + 1) + edits \/ faults > 0

\* Where the stage leaves a PR alone: merged or closed, blocked for a human, or
\* reviewed with no relevant commit since.
AtRest(p) ==
    \/ p \notin open
    \/ label[p].blocked
    \/ "concluida" \in label[p].review /\ p \notin news

\* Whatever is reaped, resumed, refused, lost or killed, and whenever commits
\* arrive, the stage is done with every PR in the end.
PrSettles == \A p \in Prs : <>[]AtRest(p)

\* reconcile_review_prs on a PR that is open: a review that ended in an error
\* or asked for changes is not marked concluida ("na duvida, trata como aberta").
BadVerdictBlocks ==
    [][\A p \in open : \/ "concluida" \in label[p].review
                       \/ "concluida" \notin label'[p].review
                       \/ ledger[p] # "bad"]_vars

=============================================================================
