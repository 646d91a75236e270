--------------------------------- MODULE Cron ---------------------------------
(***************************************************************************)
(* Prompts that a user schedules (deile/cron/): the SQLite table that      *)
(* holds them (store.py), the runner that fires what is due (runner.py),   *)
(* the tools that create, disable and delete entries, and the              *)
(* /pipeline start and stop that run a runner                              *)
(* (commands/builtin/pipeline_command.py).                                 *)
(*                                                                         *)
(* A tick lists the due entries once and fires them one after the other;   *)
(* each fire is a whole turn of the agent, during which everything else    *)
(* goes on.  An entry is marked, and moved to its next time, only after    *)
(* its fire has returned.  The mark reads the row and writes what it has   *)
(* read; the tools' processes and threads have connections of their own,   *)
(* so the user may come in between.                                        *)
(***************************************************************************)
EXTENDS Naturals, FiniteSets

CONSTANTS
    Entries,      \* ids that get scheduled
    OneShots,     \* those with run_at; the others have a cron expression
    Runners,      \* bound: runners that are alive at a time
    None,         \* no entry, no runner
    MaxBreaks,    \* bound: stops, kills and failing writes together
    Again         \* TRUE: the user types start while a runner is running

ASSUME CronAssumption ==
    /\ OneShots \subseteq Entries
    /\ MaxBreaks \in Nat /\ Again \in BOOLEAN
    /\ None \notin Entries \cup Runners

VARIABLES
    row,      \* the table
    loop,     \* what each runner's loop is doing
    due,      \* the entries of its tick's listing that are still to be fired
    firing,   \* the entry whose callback it awaits or which it marks, or None
    seen,     \* what the SELECT of its mark said of enabled
    named,    \* the runner agent.cron_runner refers to, or None
    fired,    \* fires of each entry's present occurrence
    breaks,   \* stops, kills and failing writes so far
    off,      \* history: the entries the user has disabled or deleted
    raced     \* history: those disabled between a mark's read and its write

history == <<off, raced>>
vars == <<row, loop, due, firing, seen, named, fired, breaks, history>>

\* next: next_fire_at lies ahead, has come, or is NULL.
Rows == [at : {"new", "there", "gone"}, enabled : BOOLEAN, next : {"ahead", "come", "null"}]

\* "stopping": the stop event is set.  "died": an exception has ended the loop.
Loops == {"off", "on", "stopping", "died"}

TypeOK ==
    /\ row \in [Entries -> Rows]
    /\ loop \in [Runners -> Loops]
    /\ due \in [Runners -> SUBSET Entries]
    /\ firing \in [Runners -> Entries \cup {None}]
    /\ seen \in [Runners -> {"nothing", "enabled", "disabled"}]
    /\ named \in Runners \cup {None}
    /\ fired \in [Entries -> Nat]
    /\ breaks \in 0..MaxBreaks
    /\ off \in SUBSET Entries /\ raced \in SUBSET Entries
    /\ \A r \in Runners : /\ loop[r] \in {"off", "died"} => due[r] = {} /\ firing[r] = None
                          /\ firing[r] = None => seen[r] = "nothing"

Init ==
    /\ row = [e \in Entries |-> [at |-> "new", enabled |-> FALSE, next |-> "null"]]
    /\ loop = [r \in Runners |-> "off"]
    /\ due = [r \in Runners |-> {}]
    /\ firing = [r \in Runners |-> None]
    /\ seen = [r \in Runners |-> "nothing"]
    /\ named = None
    /\ fired = [e \in Entries |-> 0]
    /\ breaks = 0
    /\ off = {} /\ raced = {}

Break == breaks < MaxBreaks /\ breaks' = breaks + 1

-----------------------------------------------------------------------------
(* The tools, in whatever process or thread, and the clock. *)

\* cron_create: a run_at may lie in the past, a cron expression looks ahead.
Create(e) ==
    /\ row[e].at = "new"
    /\ \E next \in IF e \in OneShots THEN {"ahead", "come"} ELSE {"ahead"} :
          row' = [row EXCEPT ![e] = [at |-> "there", enabled |-> TRUE, next |-> next]]
    /\ UNCHANGED <<loop, due, firing, seen, named, fired, breaks, history>>

\* cron_delete with disable_only.
Disable(e) ==
    /\ row[e].at = "there"
    /\ row' = [row EXCEPT ![e].enabled = FALSE]
    /\ off' = off \cup {e}
    /\ raced' = IF \E r \in Runners : firing[r] = e /\ seen[r] = "enabled"
                THEN raced \cup {e} ELSE raced
    /\ UNCHANGED <<loop, due, firing, seen, named, fired, breaks>>

\* cron_delete.
Delete(e) ==
    /\ row[e].at = "there"
    /\ row' = [row EXCEPT ![e].at = "gone"]
    /\ off' = off \cup {e}
    /\ UNCHANGED <<loop, due, firing, seen, named, fired, breaks, raced>>

\* next_fire_at comes: the next occurrence, which nobody has fired yet.
Come(e) ==
    /\ row[e].at = "there" /\ row[e].next = "ahead"
    /\ row' = [row EXCEPT ![e].next = "come"]
    /\ fired' = [fired EXCEPT ![e] = 0]
    /\ UNCHANGED <<loop, due, firing, seen, named, breaks, history>>

-----------------------------------------------------------------------------
(* The runner.  Its process has one event loop, which does nothing else    *)
(* while a mark is between its read and its write.                         *)

LoopFree == \A r \in Runners : seen[r] = "nothing"

Due == {e \in Entries : row[e].at = "there" /\ row[e].enabled /\ row[e].next = "come"}

\* tick: list_due.
List(r) ==
    /\ LoopFree
    /\ loop[r] = "on" /\ firing[r] = None /\ due[r] = {} /\ Due # {}
    /\ due' = [due EXCEPT ![r] = Due]
    /\ UNCHANGED <<row, loop, firing, seen, named, fired, breaks, history>>

\* The next entry of the listing, as it was listed.
Fire(r, e) ==
    /\ LoopFree
    /\ e \in due[r] /\ firing[r] = None
    /\ due' = [due EXCEPT ![r] = @ \ {e}]
    /\ firing' = [firing EXCEPT ![r] = e]
    /\ fired' = [fired EXCEPT ![e] = @ + 1]
    /\ UNCHANGED <<row, loop, seen, named, breaks, history>>

\* The callback returns; mark_fired reads the row, or finds none.
Return(r) ==
    /\ LoopFree
    /\ firing[r] # None
    /\ IF row[firing[r]].at = "gone"
       THEN firing' = [firing EXCEPT ![r] = None] /\ UNCHANGED seen
       ELSE /\ seen' = [seen EXCEPT ![r] =
                   IF row[firing[r]].enabled THEN "enabled" ELSE "disabled"]
            /\ UNCHANGED firing
    /\ UNCHANGED <<row, loop, due, named, fired, breaks, history>>

\* Mutant: only what worked is marked.
RaiseAndForget(r) ==
    /\ firing[r] # None /\ seen[r] = "nothing"
    /\ firing' = [firing EXCEPT ![r] = None]
    /\ UNCHANGED <<row, loop, due, seen, named, fired, breaks, history>>

\* The callback raises: marked all the same.
Raise(r) == Return(r)

\* Mutant: the entry is written back as it was listed.
MarkedAsListed(e, enabled) ==
    IF e \in OneShots
    THEN [at |-> "there", enabled |-> FALSE, next |-> "null"]
    ELSE [at |-> "there", enabled |-> TRUE, next |-> "ahead"]

\* advance and the UPDATE: the row moves to its next time, with the enabled
\* that was read.
Marked(e, enabled) ==
    IF row[e].at = "gone"
    THEN row[e]
    ELSE IF e \in OneShots
         THEN [row[e] EXCEPT !.enabled = FALSE, !.next = "null"]
         ELSE [row[e] EXCEPT !.enabled = enabled, !.next = "ahead"]

\* mark_fired writes.
Mark(r) ==
    /\ seen[r] # "nothing"
    /\ row' = [row EXCEPT ![firing[r]] = Marked(firing[r], seen[r] = "enabled")]
    /\ firing' = [firing EXCEPT ![r] = None]
    /\ seen' = [seen EXCEPT ![r] = "nothing"]
    /\ UNCHANGED <<loop, due, named, fired, breaks, history>>

\* The write fails (the table is locked), and tick's handler marks once more.
MarkFails(r) ==
    /\ Break
    /\ seen[r] # "nothing"
    /\ seen' = [seen EXCEPT ![r] = "nothing"]
    /\ UNCHANGED <<row, loop, due, firing, named, fired, history>>

\* The handler's mark_fired raises, too, and with it the loop ends.
Die(r) ==
    /\ Break
    /\ firing[r] # None
    /\ loop' = [loop EXCEPT ![r] = "died"]
    /\ due' = [due EXCEPT ![r] = {}]
    /\ firing' = [firing EXCEPT ![r] = None]
    /\ seen' = [seen EXCEPT ![r] = "nothing"]
    /\ UNCHANGED <<row, named, fired, history>>

\* The loop looks at the stop event once its tick is over.
Leave(r) ==
    /\ LoopFree
    /\ loop[r] = "stopping" /\ firing[r] = None /\ due[r] = {}
    /\ loop' = [loop EXCEPT ![r] = "off"]
    /\ UNCHANGED <<row, due, firing, seen, named, fired, breaks, history>>

\* Mutant: the task is cancelled and what it was doing is forgotten about.
CancelOnly(r) ==
    /\ loop[r] = "stopping"
    /\ loop' = [loop EXCEPT ![r] = "off"]
    /\ UNCHANGED <<row, due, firing, seen, named, fired, breaks, history>>

\* stop() waits no longer and cancels the task.
Cancel(r) ==
    /\ LoopFree
    /\ loop[r] = "stopping"
    /\ loop' = [loop EXCEPT ![r] = "off"]
    /\ due' = [due EXCEPT ![r] = {}]
    /\ firing' = [firing EXCEPT ![r] = None]
    /\ UNCHANGED <<row, seen, named, fired, breaks, history>>

-----------------------------------------------------------------------------
(* /pipeline. *)

Running(r) == loop[r] \in {"on", "stopping"}

\* Mutant: the stop event of the runner before is still set.
StartStopped(r) ==
    /\ LoopFree
    /\ loop[r] = "off"
    /\ Again \/ \A s \in Runners : ~Running(s)
    /\ loop' = [loop EXCEPT ![r] = IF named = None THEN "on" ELSE "stopping"]
    /\ named' = r
    /\ UNCHANGED <<row, due, firing, seen, fired, breaks, history>>

\* start: a new runner each time, whatever the agent's present one is doing.
Start(r) ==
    /\ LoopFree
    /\ loop[r] = "off"
    /\ Again \/ \A s \in Runners : ~Running(s)
    /\ loop' = [loop EXCEPT ![r] = "on"]
    /\ named' = r
    /\ UNCHANGED <<row, due, firing, seen, fired, breaks, history>>

Stop ==
    /\ Break
    /\ LoopFree
    /\ named # None /\ loop[named] = "on"
    /\ loop' = [loop EXCEPT ![named] = "stopping"]
    /\ UNCHANGED <<row, due, firing, seen, named, fired, history>>

\* The process is killed and started again; the table stays.
Kill ==
    /\ Break
    /\ loop' = [r \in Runners |-> "off"]
    /\ due' = [r \in Runners |-> {}]
    /\ firing' = [r \in Runners |-> None]
    /\ seen' = [r \in Runners |-> "nothing"]
    /\ named' = None
    /\ UNCHANGED <<row, fired, history>>

-----------------------------------------------------------------------------

RunnerStep(r) ==
    \/ List(r) \/ (\E e \in Entries : Fire(r, e))
    \/ Return(r) \/ Raise(r) \/ Mark(r) \/ Leave(r)

Next ==
    \/ \E e \in Entries : Create(e) \/ Disable(e) \/ Delete(e) \/ Come(e)
    \/ \E r \in Runners : RunnerStep(r) \/ MarkFails(r) \/ Die(r) \/ Cancel(r) \/ Start(r)
    \/ Stop
    \/ Kill

Spec == Init /\ [][Next]_vars

\* The loop polls, a turn of the agent ends, and who has stopped the pipeline
\* starts it again.  Nobody notices a loop that died.
Fairness ==
    /\ \A r \in Runners : WF_vars(RunnerStep(r)) /\ WF_vars(Start(r))
    /\ WF_vars(\E r \in Runners : Start(r))

FairSpec == Spec /\ Fairness

-----------------------------------------------------------------------------
(* Properties. *)

\* An occurrence is fired once, and once more for each interruption that came
\* between a fire and its mark: a one-shot never fires twice otherwise, nor does
\* an entry whose turn raises (tick: "so we don't loop on a poison entry").
OncePerOccurrence == \A e \in Entries : fired[e] <= 1 + breaks

\* What the user has disabled or deleted, before it was listed, while it waited,
\* in the middle of its own fire or after it, stays so, unless the user came just
\* between the read and the write of its mark.
UserWins ==
    \A e \in off : row[e].at = "there" /\ row[e].enabled => e \in raced

\* "Update last_fired_at + next_fire_at after firing (atomic)" says mark_fired.
\* Then what is disabled would be so whenever the user came.
MarkIsAtomic == \A e \in off : row[e].at = "there" => ~row[e].enabled

\* An enabled entry whose time has come does not wait for ever, whoever stops and
\* starts the runner, unless a failing store has ended the runner's loop.
DueIsFired ==
    \A e \in Entries : e \in Due ~> e \notin Due \/ \E r \in Runners : loop[r] = "died"

=============================================================================
