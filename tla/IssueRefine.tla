----------------------------- MODULE IssueRefine -----------------------------
(***************************************************************************)
(* The gate before an issue is implemented: a new issue is judged by a      *)
(* critique session (CLARO or VAGO), a vague one is rewritten by refinement *)
(* sessions and judged again, until it is reviewed, decomposed, parked for  *)
(* its stakeholder or blocked after refine_max_attempts passes              *)
(* (pipeline/stages.py, with enable_refinement_gate).                       *)
(*                                                                          *)
(* A session is dispatched by one tick and its verdict read by a later one, *)
(* through the task recorded in the DispatchLedger, a file that outlives    *)
(* the pod.  In between sessions end, labels age, humans edit labels and    *)
(* the pod may be killed.  The number of passes is kept twice: in the       *)
(* monitor's memory and as the label ~refine:N.                             *)
(***************************************************************************)
EXTENDS Integers, FiniteSets

CONSTANTS
    Issues,        \* issue numbers (lower is served first)
    MaxParallel,   \* config.max_parallel
    OtherWork,     \* slots that implementations and reviews may hold
    MaxRefine,     \* config.refine_max_attempts
    DivergeFrom,   \* the pass from which a growing text blocks (3 in the code)
    MaxReaps,      \* config.reaper_max_attempts
    MaxKills,      \* bound on restarts of the pipeline pod
    MaxTrouble     \* bound on faults and human edits together

ASSUME IssuesAssumption == Issues \subseteq Nat \ {0} /\ IsFiniteSet(Issues)
ASSUME BoundsAssumption ==
    /\ {MaxParallel, MaxRefine, DivergeFrom, MaxReaps} \subseteq Nat \ {0}
    /\ {MaxKills, MaxTrouble} \subseteq Nat
    /\ OtherWork \subseteq Nat

VARIABLES
    label,     \* per issue: the labels this half of the pipeline reads
    age,       \* per issue: how old its stage label is to the reaper
    live,      \* per issue: the kinds of session that run for it
    ledger,    \* per issue: what the task in its DispatchLedger entry does
    mem,       \* per issue: the ResumeTracker's memory of its refinement
    tick,      \* where the poll loop's tick stands
    promoted,  \* monitor._refine_promoted_this_tick
    faults,    \* failed forge calls, lost answers and index lag so far
    kills,     \* restarts of the pipeline pod so far
    edits,     \* label edits by humans so far
    spent      \* history: per issue, passes since its count was last reset

counters == <<faults, kills, edits, spent>>
vars == <<label, age, live, ledger, mem, tick, promoted, counters>>

-----------------------------------------------------------------------------
(* Types and initial state *)

\* refino: em_arquitetura, or em_refinamento for an intent.
Stages == {"nova", "em_revisao", "refino", "revisada", "decomposta"}

Sessions == {"critique", "refine"}

\* A count of passes; a restart may repeat the last one.
MaxPasses == MaxRefine + MaxKills + 1

Labels == [stage : SUBSET Stages,
           intent : BOOLEAN,           \* the type label
           refinar : BOOLEAN,
           blocked : BOOLEAN,          \* ~workflow:bloqueada
           waiting : BOOLEAN,          \* ~workflow:aguardando_stakeholder
           own : BOOLEAN,              \* ~by:<monitor>
           passes : 0..MaxPasses,      \* N of ~refine:N, 0 without the label
           attempt : 0..MaxReaps]      \* N of ~attempt:N

\* prev: the length of the text after the previous pass is known.
Memories == [passes : 0..MaxPasses, prev : BOOLEAN]

Forgotten == [passes |-> 0, prev |-> FALSE]

Phases == {"idle", "reap", "judge", "critique", "settle", "refine", "decompose"}

\* Within a phase: between issues, about to POST, about to clear the ledger
\* entry whose verdict was applied, or waiting for the architect.
Points == {"next", "posting", "clearing", "waiting"}

Ticks == [at : Phases, point : Points, list : SUBSET Issues,
          on : Issues \cup {0}, slots : Int]

IdleTick == [at |-> "idle", point |-> "next", list |-> {}, on |-> 0, slots |-> 0]

TypeOK ==
    /\ label \in [Issues -> Labels]
    /\ age \in [Issues -> {"fresh", "stale", "dead"}]
    /\ live \in [Issues -> SUBSET Sessions]
    /\ ledger \in [Issues -> Sessions \cup {"none"}]
    /\ mem \in [Issues -> Memories]
    /\ tick \in Ticks
    /\ tick.point # "next" => tick.on \in Issues
    /\ promoted \in SUBSET Issues
    /\ faults \in Nat /\ edits \in Nat /\ faults + edits <= MaxTrouble
    /\ kills \in 0..MaxKills
    /\ spent \in [Issues -> 0..MaxPasses]

\* New issues, of either kind.
Init ==
    /\ label \in [Issues -> {[stage |-> {"nova"}, intent |-> b,
                              refinar |-> FALSE, blocked |-> FALSE,
                              waiting |-> FALSE, own |-> FALSE,
                              passes |-> 0, attempt |-> 0] : b \in BOOLEAN}]
    /\ age = [i \in Issues |-> "fresh"]
    /\ live = [i \in Issues |-> {}]
    /\ ledger = [i \in Issues |-> "none"]
    /\ mem = [i \in Issues |-> Forgotten]
    /\ tick = IdleTick
    /\ promoted = {}
    /\ faults = 0 /\ kills = 0 /\ edits = 0
    /\ spent = [i \in Issues |-> 0]

-----------------------------------------------------------------------------
(* Helpers *)

Wears(s) == {i \in Issues : s \in label[i].stage}

Foremost(S) == {i \in S : \A j \in S : i <= j}

\* The first n issues of S: candidates[:available].
FirstOf(S, n) == {i \in S : Cardinality({j \in S : j < i}) < n}

\* There is room for n more faults or edits.
Room(n) == faults + edits + n <= MaxTrouble

\* n more forge calls fail.
Fault(n) == Room(n) /\ faults' = faults + n

NoFault == UNCHANGED faults

\* Mutant: the old stage label survives the move.
MovedKeeping(S, from, to) == S \cup {to}

\* What transition_issue makes of the stages S.
Moved(S, from, to) == (S \ {from}) \cup {to}

\* The ways a label move ends: done, its removal failed, or its addition failed
\* (or was never reached) after the removal.
Move(i, from, to, how, rest) ==
    /\ label' = [label EXCEPT ![i] = [rest EXCEPT !.stage =
           CASE how = "moved" -> Moved(@, from, to)
             [] how = "kept"  -> @
             [] how = "lost"  -> @ \ {from}]]
    /\ age' = [age EXCEPT ![i] = IF how = "moved" THEN "fresh" ELSE @]
    /\ IF how = "moved" THEN NoFault ELSE Fault(1)

Outcomes == {"moved", "kept", "lost"}

\* The tick goes on with the next issue, ...
Leave(i) == [tick EXCEPT !.point = "next", !.list = @ \ {i}, !.on = 0]

\* ... stops in the middle of i, ...
Stop(i, point) ==
    [tick EXCEPT !.point = point, !.list = @ \ {i}, !.on = i]

\* ... or is given up: an exception nobody catches before _run_forever.
Abort == IdleTick

\* The tick works on i in a phase.
At(phase, i) == tick.at = phase /\ tick.point = "next" /\ i \in Foremost(tick.list)

\* The tick has nothing left to do in a phase.
Done(phase) == tick.at = phase /\ tick.point = "next" /\ tick.list = {}

\* The tick enters a phase with the issues S it listed; without them when the
\* listing fails.
Enter(phase, S, slots) ==
    \E ok \in BOOLEAN :
        /\ tick' = [at |-> phase, point |-> "next", list |-> IF ok THEN S ELSE {},
                    on |-> 0, slots |-> slots]
        /\ IF ok THEN NoFault ELSE Fault(1)

\* Mutant: after a restart the label ~refine:N is not read.
MemoryOnly(i) == mem[i].passes

\* set_refine_attempt: memory catches up with the label.
Known(i) == IF label[i].passes > mem[i].passes THEN label[i].passes
            ELSE mem[i].passes

\* Mutant: a failed dispatch is not counted.
SameCount(n) == n

\* Mutant: the count goes down.
CountDown(n) == n - 1

\* bump_refine
Bumped(n) == IF n < MaxPasses THEN n + 1 ELSE n

\* bump_refine and _persist_refine_attempt: the old label goes, the new one
\* comes, and a failure of either is only logged.
CountPass(i, rest) ==
    LET n == Bumped(Known(i))
    IN  /\ mem' = [mem EXCEPT ![i].passes = n]
        /\ spent' = [spent EXCEPT ![i] = IF @ < MaxPasses THEN @ + 1 ELSE @]
        /\ \/ rest.passes = n
           \/ rest.passes \in {0, label[i].passes} /\ faults' > faults

\* _count_total_in_flight: the locks of this half.  An issue at rest between
\* two passes is counted as well.
Counted == {i \in Wears("em_revisao") \cup Wears("refino") :
                ~label[i].blocked /\ ~label[i].waiting}

\* max_parallel minus what is in flight.
Free(others) == IF Cardinality(Counted) + others < MaxParallel
                THEN MaxParallel - Cardinality(Counted) - others ELSE 0

-----------------------------------------------------------------------------
(* reap_orphan_claims *)

StartTick ==
    /\ tick.at = "idle"
    /\ Enter("reap", {i \in Wears("em_revisao") \cup Wears("refino") : label[i].own}, 0)
    /\ UNCHANGED <<label, age, live, ledger, mem, promoted, kills, edits, spent>>

\* A critique, or a refinement with a task, is stale after
\* reaper_stale_seconds; one without a task after reaper_arch_hard_seconds.
Expired(i) ==
    \/ "em_revisao" \in label[i].stage /\ age[i] # "fresh"
    \/ /\ "refino" \in label[i].stage
       /\ IF ledger[i] = "none" THEN age[i] = "dead" ELSE age[i] # "fresh"

ReapSkip(i) ==
    /\ At("reap", i)
    /\ tick' = Leave(i)
    /\ \/ ~Expired(i) /\ NoFault
       \/ Expired(i) /\ Fault(1)      \* label_applied_at fails
    /\ UNCHANGED <<label, age, live, ledger, mem, promoted, kills, edits, spent>>

\* The stage a reaped claim leaves and the one it goes back to.
ReapFrom(i) == IF "em_revisao" \in label[i].stage THEN "em_revisao" ELSE "refino"

ReapTo(i) ==
    IF /\ ReapFrom(i) = "refino" /\ ledger[i] = "none"
       /\ ~label[i].intent /\ label[i].passes > 0
    THEN "revisada" ELSE "nova"

\* _reap_one: the claim's labels go, the count and the earlier stage (or, at
\* reaper_max_attempts, bloqueada) come.
Reap(i) ==
    LET n == label[i].attempt + 1
        from == ReapFrom(i)
        cleared == [label[i] EXCEPT !.own = FALSE, !.attempt = 0]
    IN  /\ At("reap", i) /\ Expired(i)
        /\ tick' = Leave(i)
        /\ \E how \in Outcomes :
             IF n < MaxReaps
             THEN Move(i, from, ReapTo(i), how,
                       CASE how = "moved" -> [cleared EXCEPT !.attempt = n]
                         [] how = "kept"  -> label[i]
                         [] how = "lost"  -> cleared)
             ELSE /\ label' = [label EXCEPT ![i] =
                         CASE how = "moved" ->
                                [cleared EXCEPT !.stage = @ \ {from},
                                                !.blocked = TRUE, !.attempt = MaxReaps]
                           [] how = "kept"  ->
                                [label[i] EXCEPT !.blocked = TRUE, !.attempt = MaxReaps]
                           [] how = "lost"  -> [cleared EXCEPT !.stage = @ \ {from}]]
                  /\ IF how = "moved" THEN NoFault ELSE Fault(1)
                  /\ UNCHANGED age
        /\ ledger' = [ledger EXCEPT ![i] = IF from = "refino" THEN "none" ELSE @]
    /\ UNCHANGED <<live, mem, promoted, kills, edits, spent>>

\* _dispatch_stages: forget what the last tick promoted, then list the
\* critiques to judge.
ReapDone ==
    /\ Done("reap")
    /\ promoted' = {}
    /\ Enter("judge", {i \in Wears("em_revisao") : ~label[i].blocked}, 0)
    /\ UNCHANGED <<label, age, live, ledger, mem, kills, edits, spent>>

-----------------------------------------------------------------------------
(* Reading a verdict: _fetch_reconcile_state *)

\* resume-info says that the task of the ledger entry is over.
Over(i) == ledger[i] # "none" /\ ledger[i] \notin live[i]

\* No entry, or the task still runs.
VerdictPending(phase, i) ==
    /\ At(phase, i)
    /\ ledger[i] = "none" \/ ledger[i] \in live[i]
    /\ tick' = Leave(i)
    /\ UNCHANGED <<label, age, live, ledger, mem, promoted, counters>>

\* The worker cannot be reached or does not know the task any more: the entry
\* goes.  While the task runs only a fault looks like that.
VerdictGone(phase, i) ==
    /\ At(phase, i)
    /\ ledger[i] # "none"
    /\ IF Over(i) THEN NoFault ELSE Fault(1)
    /\ ledger' = [ledger EXCEPT ![i] = "none"]
    /\ tick' = Leave(i)
    /\ UNCHANGED <<label, age, live, mem, promoted, kills, edits, spent>>

\* The verdict was applied: drop the entry.
Clear ==
    /\ tick.point = "clearing"
    /\ ledger' = [ledger EXCEPT ![tick.on] = "none"]
    /\ tick' = Leave(tick.on)
    /\ UNCHANGED <<label, age, live, mem, promoted, counters>>

\* _block_refinement: strip the other stages and the count, rest in the refine
\* state, keep refinar, add bloqueada and forget.  F are the calls that fail:
\* all but the one for refinar are tolerated.
Block(i, F, onward) ==
    LET stripped == [label[i] EXCEPT !.stage = @ \ {"nova", "em_revisao"}, !.passes = 0]
        struck == IF "strip" \in F THEN label[i] ELSE stripped
        rested == IF "rest" \in F THEN struck
                  ELSE [struck EXCEPT !.stage = @ \cup {"refino"}]
    IN  /\ Fault(Cardinality(F))
        /\ IF "refinar" \in F
           THEN /\ label' = [label EXCEPT ![i] = rested]
                /\ tick' = Abort
                /\ mem' = [mem EXCEPT ![i].passes = Known(i)]
                /\ UNCHANGED spent
           ELSE /\ label' = [label EXCEPT ![i] =
                       [rested EXCEPT !.refinar = TRUE,
                                      !.blocked = @ \/ "block" \notin F]]
                /\ tick' = onward
                /\ mem' = [mem EXCEPT ![i] = Forgotten]
                /\ spent' = [spent EXCEPT ![i] = 0]
        /\ age' = [age EXCEPT ![i] = IF "refino" \in label[i].stage THEN @ ELSE "fresh"]

BlockFaults == SUBSET {"strip", "rest", "refinar", "block"}

-----------------------------------------------------------------------------
(* reconcile_critique_issues *)

\* CLARO: on to revisada, and the marks of refinement go.  Nothing here is
\* caught: a failure gives the tick up.
JudgeClear(i) ==
    /\ At("judge", i) /\ Over(i)
    /\ \/ \E how \in Outcomes :
            /\ Move(i, "em_revisao", "revisada", how,
                    IF how = "moved"
                    THEN [label[i] EXCEPT !.refinar = FALSE, !.passes = 0]
                    ELSE label[i])
            /\ tick' = IF how = "moved" THEN Stop(i, "clearing") ELSE Abort
            /\ spent' = [spent EXCEPT ![i] = IF how = "moved" THEN 0 ELSE @]
       \/ /\ Fault(1)       \* moved, but the marks stay
          /\ label' = [label EXCEPT ![i].stage = Moved(@, "em_revisao", "revisada")]
          /\ age' = [age EXCEPT ![i] = "fresh"]
          /\ tick' = Abort
          /\ UNCHANGED spent
    /\ UNCHANGED <<live, ledger, mem, promoted, kills, edits>>

\* VAGO with passes left: refinar, and on to the refine state.
JudgePoor(i) ==
    /\ At("judge", i) /\ Over(i)
    /\ Known(i) < MaxRefine
    /\ mem' = [mem EXCEPT ![i].passes = Known(i)]
    /\ \/ \E how \in Outcomes :
            /\ Move(i, "em_revisao", "refino", how, [label[i] EXCEPT !.refinar = TRUE])
            /\ tick' = Stop(i, "clearing")
       \/ /\ Fault(1)       \* refinar cannot be added
          /\ tick' = Abort
          /\ UNCHANGED <<label, age>>
    /\ UNCHANGED <<live, ledger, promoted, kills, edits, spent>>

\* VAGO at the ceiling.
JudgeCeiling(i) ==
    /\ At("judge", i) /\ Over(i)
    /\ Known(i) >= MaxRefine
    /\ \E F \in BlockFaults : Block(i, F, Stop(i, "clearing"))
    /\ UNCHANGED <<live, ledger, promoted, kills, edits>>

\* review_one_new_issue: the first `available` new issues.
JudgeDone ==
    /\ Done("judge")
    /\ \E others \in OtherWork :
          Enter("critique",
                FirstOf({i \in Wears("nova") : ~label[i].blocked}, Free(others)), 0)
    /\ UNCHANGED <<label, age, live, ledger, mem, promoted, kills, edits, spent>>

-----------------------------------------------------------------------------
(* _critique_one_issue *)

\* Own the issue and claim it with nova -> em_revisao.
CritiqueClaim(i) ==
    /\ At("critique", i)
    /\ \E how \in Outcomes, own \in BOOLEAN :
          /\ how # "kept" => own
          /\ Move(i, "nova", "em_revisao", how, [label[i] EXCEPT !.own = @ \/ own])
          /\ tick' = IF how = "moved" THEN Stop(i, "posting") ELSE Leave(i)
    /\ UNCHANGED <<live, ledger, mem, promoted, kills, edits, spent>>

\* The worker takes the dispatch, and the answer is recorded.
Accepted(phase, kind) ==
    /\ tick.at = phase /\ tick.point = "posting"
    /\ kind \notin live[tick.on]
    /\ live' = [live EXCEPT ![tick.on] = @ \cup {kind}]
    /\ ledger' = [ledger EXCEPT ![tick.on] = kind]
    /\ UNCHANGED <<label, age, mem, promoted, counters>>

\* It is refused (or finds no worker), or it is taken and the answer is lost.
\* Looking the old entry up may drop it.
NotAccepted(phase, kind) ==
    /\ tick.at = phase /\ tick.point = "posting"
    /\ \/ UNCHANGED live
       \/ /\ kind \notin live[tick.on]
          /\ live' = [live EXCEPT ![tick.on] = @ \cup {kind}]
    /\ ledger' \in {ledger, [ledger EXCEPT ![tick.on] = "none"]}

CritiqueAccepted ==
    /\ Accepted("critique", "critique")
    /\ tick' = Leave(tick.on)

\* ... and the claim is taken back.
CritiqueNotAccepted ==
    /\ NotAccepted("critique", "critique")
    /\ \E how \in Outcomes : Move(tick.on, "em_revisao", "nova", how, label[tick.on])
    /\ tick' = Leave(tick.on)
    /\ UNCHANGED <<mem, promoted, kills, edits, spent>>

CritiqueDone ==
    /\ Done("critique")
    /\ Enter("settle",
             {i \in Wears("refino") : /\ ~label[i].waiting /\ ~label[i].blocked
                                      /\ "decomposta" \notin label[i].stage}, 0)
    /\ UNCHANGED <<label, age, live, ledger, mem, promoted, kills, edits, spent>>

-----------------------------------------------------------------------------
(* reconcile_refine_issues *)

\* The session failed: the pass counts.
SettleError(i) ==
    /\ At("settle", i) /\ Over(i)
    /\ NoFault \/ Fault(1)
    /\ \E n \in 0..MaxPasses :
          /\ CountPass(i, [label[i] EXCEPT !.passes = n])
          /\ label' = [label EXCEPT ![i].passes = n]
    /\ tick' = Stop(i, "clearing")
    /\ UNCHANGED <<age, live, ledger, promoted, kills, edits>>

\* DECOMPOSTA: the session made derived issues instead.
SettleDecomposed(i) ==
    /\ At("settle", i) /\ Over(i)
    /\ \/ \E how \in Outcomes :
            Move(i, "refino", "decomposta", how,
                 IF how = "moved"
                 THEN [label[i] EXCEPT !.refinar = FALSE, !.passes = 0]
                 ELSE label[i])
       \/ /\ Fault(1)       \* moved, but the marks stay
          /\ label' = [label EXCEPT ![i].stage = Moved(@, "refino", "decomposta")]
          /\ age' = [age EXCEPT ![i] = "fresh"]
    /\ mem' = [mem EXCEPT ![i] = Forgotten]
    /\ tick' = Stop(i, "clearing")
    /\ UNCHANGED <<live, ledger, promoted, kills, edits, spent>>

\* AGUARDA_STAKEHOLDER
SettleWaiting(i) ==
    /\ At("settle", i) /\ Over(i)
    /\ \/ /\ label' = [label EXCEPT ![i].waiting = TRUE]
          /\ tick' = Stop(i, "clearing")
          /\ NoFault
       \/ Fault(1) /\ tick' = Abort /\ UNCHANGED label
    /\ UNCHANGED <<age, live, ledger, mem, promoted, kills, edits, spent>>

\* The text still grows at a late pass: the scope diverges.
SettleDiverged(i) ==
    /\ At("settle", i) /\ Over(i)
    /\ Known(i) >= DivergeFrom /\ mem[i].prev
    /\ \E F \in BlockFaults : Block(i, F, Stop(i, "clearing"))
    /\ UNCHANGED <<live, ledger, promoted, kills, edits>>

\* The text did not change in substance: promoted without another critique.
\* When the marks cannot be removed the promotion is not noted.
SettleConverged(i) ==
    /\ At("settle", i) /\ Over(i)
    /\ \/ \E how \in Outcomes :
            LET done == how = "moved"
            IN  /\ Move(i, "refino", "revisada", how,
                        IF done THEN [label[i] EXCEPT !.refinar = FALSE, !.passes = 0]
                        ELSE label[i])
                /\ mem' = [mem EXCEPT ![i] =
                       IF done THEN Forgotten ELSE [@ EXCEPT !.passes = Known(i)]]
                /\ promoted' = IF done THEN promoted \cup {i} ELSE promoted
                /\ spent' = [spent EXCEPT ![i] = IF done THEN 0 ELSE @]
       \/ /\ Fault(1)
          /\ label' = [label EXCEPT ![i].stage = Moved(@, "refino", "revisada")]
          /\ age' = [age EXCEPT ![i] = "fresh"]
          /\ mem' = [mem EXCEPT ![i].passes = Known(i)]
          /\ UNCHANGED <<promoted, spent>>
    /\ tick' = Stop(i, "clearing")
    /\ UNCHANGED <<live, ledger, kills, edits>>

\* The text changed: the pass counts, and the issue is judged again.
SettleChanged(i) ==
    /\ At("settle", i) /\ Over(i)
    /\ \E how \in Outcomes, n \in 0..MaxPasses :
          /\ LET rest == [label[i] EXCEPT !.passes = n]
                 count == Bumped(Known(i))
             IN  /\ n = count \/ (how = "kept" /\ n \in {0, label[i].passes})
                 /\ Move(i, "refino", "nova", how, rest)
                 /\ mem' = [mem EXCEPT ![i] = [passes |-> count, prev |-> TRUE]]
                 /\ spent' = [spent EXCEPT ![i] = IF @ < MaxPasses THEN @ + 1 ELSE @]
    /\ tick' = Stop(i, "clearing")
    /\ UNCHANGED <<live, ledger, promoted, kills, edits>>

-----------------------------------------------------------------------------
(* refine_one_issue *)

\* Mutant: an issue promoted in this very tick may be taken again.
CandidateAnyway(i, lag) ==
    /\ label[i].refinar \/ "refino" \in label[i].stage \/ i \in lag
    /\ ~label[i].waiting /\ ~label[i].blocked
    /\ "decomposta" \notin label[i].stage

\* Issues with refinar or in the refine state, as the forge's index (which may
\* lag behind by the issues lag) lists them.
Candidate(i, lag) ==
    /\ label[i].refinar \/ "refino" \in label[i].stage \/ i \in lag
    /\ ~label[i].waiting /\ ~label[i].blocked
    /\ "decomposta" \notin label[i].stage
    /\ i \notin promoted

SettleDone ==
    /\ Done("settle")
    /\ \E lag \in SUBSET Wears("revisada"), others \in OtherWork :
          LET slots == Free(others)
          IN  /\ tick' = [at |-> "refine", point |-> "next", on |-> 0, slots |-> slots,
                          list |-> IF slots = 0 THEN {}
                                   ELSE {i \in Issues : Candidate(i, lag)}]
              /\ Fault(Cardinality(lag))
    /\ UNCHANGED <<label, age, live, ledger, mem, promoted, kills, edits, spent>>

\* A refinement is in flight, or the slots of this tick are used up.
RefineSkip(i) ==
    /\ At("refine", i)
    /\ ledger[i] # "none" \/ tick.slots = 0
    /\ tick' = Leave(i)
    /\ UNCHANGED <<label, age, live, ledger, mem, promoted, counters>>

\* The tick has a slot for i and no entry for it.
Refining(i) == At("refine", i) /\ ledger[i] = "none" /\ tick.slots > 0

\* refinar was applied by hand: bring the issue into its refine state first.
Rehydrate(i) ==
    /\ Refining(i)
    /\ "refino" \notin label[i].stage
    /\ LET cur == label[i].stage \cap {"nova", "em_revisao", "revisada"}
       IN  \E from \in IF cur = {} THEN {"none"} ELSE cur, how \in Outcomes :
             Move(i, from, "refino", how, label[i])
    /\ tick' = Leave(i)
    /\ UNCHANGED <<live, ledger, mem, promoted, kills, edits, spent>>

\* The ceiling is reached.
RefineCeiling(i) ==
    /\ Refining(i)
    /\ "refino" \in label[i].stage
    /\ Known(i) >= MaxRefine
    /\ \E F \in BlockFaults : Block(i, F, Leave(i))
    /\ UNCHANGED <<live, ledger, promoted, kills, edits>>

\* Make sure of refinar (best effort) and catch up with the label.
RefineBegin(i) ==
    /\ Refining(i)
    /\ "refino" \in label[i].stage
    /\ Known(i) < MaxRefine
    /\ \/ label' = [label EXCEPT ![i].refinar = TRUE] /\ NoFault
       \/ ~label[i].refinar /\ Fault(1) /\ UNCHANGED label
    /\ mem' = [mem EXCEPT ![i].passes = Known(i)]
    /\ tick' = Stop(i, "posting")
    /\ UNCHANGED <<age, live, ledger, promoted, kills, edits, spent>>

RefineAccepted ==
    /\ Accepted("refine", "refine")
    /\ tick' = [Leave(tick.on) EXCEPT !.slots = @ - 1]

\* The failed dispatch counts as a pass, so that one that always fails reaches
\* the ceiling.
RefineNotAccepted ==
    /\ NotAccepted("refine", "refine")
    /\ NoFault \/ Fault(1)
    /\ \E n \in 0..MaxPasses :
          /\ CountPass(tick.on, [label[tick.on] EXCEPT !.passes = n])
          /\ label' = [label EXCEPT ![tick.on].passes = n]
    /\ tick' = Leave(tick.on)
    /\ UNCHANGED <<age, promoted, kills, edits>>

-----------------------------------------------------------------------------
(* decompose_one_reviewed_intent *)

\* fetch_reviewed_and_ensure_ownership, then the first reviewed intent.
RefineDone ==
    /\ Done("refine")
    /\ \E A \in SUBSET {i \in Wears("revisada") : ~label[i].blocked /\ ~label[i].own} :
          LET owned == {i \in Wears("revisada") : i \in A \/ label[i].own}
              S == {i \in owned : /\ label[i].intent /\ ~label[i].blocked
                                  /\ "decomposta" \notin label[i].stage}
          IN  /\ label' = [i \in Issues |-> [label[i] EXCEPT !.own = @ \/ i \in A]]
              /\ Fault(Cardinality({i \in Wears("revisada") : ~label[i].blocked} \ owned))
              /\ \/ S = {} /\ tick' = IdleTick
                 \/ \E i \in Foremost(S) :
                       tick' = [IdleTick EXCEPT !.at = "decompose", !.point = "waiting",
                                                !.on = i]
    /\ UNCHANGED <<age, live, ledger, mem, promoted, kills, edits, spent>>

\* The dispatch blocks the tick.  When it yields nothing the intent stays.
DecomposeFails ==
    /\ tick.point = "waiting"
    /\ tick' = IdleTick
    /\ UNCHANGED <<label, age, live, ledger, mem, promoted, counters>>

Decompose ==
    /\ tick.point = "waiting"
    /\ \E how \in Outcomes :
          Move(tick.on, "revisada", "decomposta", how, label[tick.on])
    /\ tick' = IdleTick
    /\ UNCHANGED <<live, ledger, mem, promoted, kills, edits, spent>>

-----------------------------------------------------------------------------
(* Sessions, the clock, humans and restarts *)

SessionEnds(i) ==
    /\ \E kind \in live[i] : live' = [live EXCEPT ![i] = @ \ {kind}]
    /\ UNCHANGED <<label, age, ledger, mem, tick, promoted, counters>>

\* reaper_stale_seconds, then reaper_arch_hard_seconds, go by.
Ages(i) ==
    /\ label[i].stage \cap {"em_revisao", "refino"} # {}
    /\ age[i] # "dead"
    /\ age' = [age EXCEPT ![i] = IF @ = "fresh" THEN "stale" ELSE "dead"]
    /\ UNCHANGED <<label, live, ledger, mem, tick, promoted, counters>>

\* A human blocks or unblocks an issue, ends its wait, or asks for refinement.
HumanEdits(i) ==
    /\ Room(1)
    /\ edits' = edits + 1
    /\ \E edited \in {[label[i] EXCEPT !.blocked = ~@],
                      [label[i] EXCEPT !.waiting = FALSE],
                      [label[i] EXCEPT !.refinar = TRUE]} :
          edited # label[i] /\ label' = [label EXCEPT ![i] = edited]
    /\ UNCHANGED <<age, live, ledger, mem, tick, promoted, faults, kills, spent>>

\* The pod restarts: memory is gone, labels and ledger stay.  A dispatch that
\* was under way may have reached the worker.
Kill ==
    /\ kills < MaxKills
    /\ kills' = kills + 1
    /\ \/ UNCHANGED live
       \/ /\ tick.point = "posting"
          /\ live' = [live EXCEPT ![tick.on] =
                          @ \cup {IF tick.at = "refine" THEN "refine" ELSE "critique"}]
    /\ tick' = IdleTick
    /\ mem' = [i \in Issues |-> Forgotten]
    /\ promoted' = {}
    /\ UNCHANGED <<label, age, ledger, faults, edits, spent>>

IssueStep(i) ==
    \/ ReapSkip(i) \/ Reap(i)
    \/ VerdictPending("judge", i) \/ VerdictGone("judge", i)
    \/ JudgeClear(i) \/ JudgePoor(i) \/ JudgeCeiling(i)
    \/ CritiqueClaim(i)
    \/ VerdictPending("settle", i) \/ VerdictGone("settle", i)
    \/ SettleError(i) \/ SettleDecomposed(i) \/ SettleWaiting(i)
    \/ SettleDiverged(i) \/ SettleConverged(i) \/ SettleChanged(i)
    \/ RefineSkip(i) \/ Rehydrate(i) \/ RefineCeiling(i) \/ RefineBegin(i)

TickStep ==
    \/ StartTick \/ ReapDone \/ JudgeDone \/ CritiqueDone \/ SettleDone \/ RefineDone
    \/ Clear
    \/ CritiqueAccepted \/ CritiqueNotAccepted
    \/ RefineAccepted \/ RefineNotAccepted
    \/ DecomposeFails \/ Decompose
    \/ \E i \in Issues : IssueStep(i)

Next ==
    \/ TickStep
    \/ \E i \in Issues : SessionEnds(i) \/ Ages(i) \/ HumanEdits(i)
    \/ Kill

Spec == Init /\ [][Next]_vars

\* A verdict that was reached is read, instead of an error answer.
VerdictRead(i) ==
    \/ JudgeClear(i) \/ JudgePoor(i) \/ JudgeCeiling(i)
    \/ SettleError(i) \/ SettleDecomposed(i) \/ SettleWaiting(i)
    \/ SettleDiverged(i) \/ SettleConverged(i) \/ SettleChanged(i)

\* The tick lists i with a slot for it.
Serves(step, i) == step /\ i \in tick'.list

\* The loop runs, sessions end and time passes.  A worker that can take a
\* critique does so now and then, it answers for a finished task now and then,
\* and other work does not hold every slot for ever.  Nothing is assumed of
\* the dispatch of refinements, nor of verdicts.
Fairness ==
    /\ WF_vars(TickStep)
    /\ SF_vars(CritiqueAccepted)
    /\ \A i \in Issues : /\ WF_vars(SessionEnds(i))
                         /\ WF_vars(Ages(i))
                         /\ SF_vars(VerdictRead(i))
                         /\ SF_vars(Serves(JudgeDone, i))
                         /\ SF_vars(Serves(SettleDone, i))

FairSpec == Spec /\ Fairness

-----------------------------------------------------------------------------
(* Properties *)

\* An issue carries at most one stage, whatever is removed, added, reaped or
\* re-read in between; only a block whose clean-up failed leaves two.
SingleStage == \A i \in Issues : Cardinality(label[i].stage) <= 1 \/ faults > 0

\* The label ~refine:N makes the count survive restarts: between two resets an
\* issue costs at most refine_max_attempts passes, and one more for every
\* restart between a verdict and the end of its ledger entry.
PassesBounded == \A i \in Issues : spent[i] <= MaxRefine + kills \/ faults > 0

\* What the tick promoted is not taken back into refinement by the same tick,
\* even if the index still lists it with refinar.
PromotionSticks == \A i \in promoted : "refino" \notin label[i].stage

\* Where the gate leaves an issue alone, for good unless a human acts ...
AtRest(i) ==
    \/ label[i].blocked
    \/ label[i].waiting
    \/ label[i].stage \cap {"revisada", "decomposta"} # {}

\* ... where a label move that failed half-way left it (without a stage, or with
\* two of them for two halves of the gate to fight over), and without a stage
\* when a human unblocks what the reaper gave up.
Astray(i) ==
    \/ faults > 0 /\ Cardinality(label[i].stage) # 1
    \/ label[i].attempt = MaxReaps /\ label[i].stage = {}

\* The gate is done with every issue at some time, however often it was
\* refused, reaped, refined or judged again.
GateSettles == \A i \in Issues : <>[](AtRest(i) \/ Astray(i))

=============================================================================
