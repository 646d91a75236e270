------------------------------- MODULE Dispatch -------------------------------
(***************************************************************************)
(* A dispatch from the pipeline to the claude worker, both ends of it.     *)
(*                                                                         *)
(* The client (deile/infrastructure/deile_worker_client.py) asks the       *)
(* process-wide circuit breaker (circuit_breaker.py), posts the request,   *)
(* retries what looks transient and tells the breaker how it ended.  The   *)
(* worker (infra/k8s/claude_worker_server.py) counts the live leases,      *)
(* looks for a live session of the same channel, and takes a lease, saves  *)
(* the session's metadata, prepares the repository and starts the CLI,     *)
(* each after an await.  It learns nothing of a client that gave up, and   *)
(* nothing keeps two requests, on one pod or on two, from being judged     *)
(* before either has its lease.                                            *)
(*                                                                         *)
(* A fresh dispatch gets a workspace of its own.  A resume goes back to    *)
(* the one workspace its channel has left behind: only there can a lease   *)
(* be in its way, and acquire_lease() is taken as one step                 *)
(* (WorkspaceLease has its steps).                                         *)
(***************************************************************************)
EXTENDS Naturals, FiniteSets

CONSTANTS
    Callers,      \* the stages that dispatch, one channel each
    Waiting,      \* callers that wait for the session's end, not for the 202
    Resuming,     \* callers whose channel has a workspace to go back to
    Requests,     \* bound: requests that are under way or hold a lease at a time
    None,         \* no caller, no request
    MaxTries,     \* min(_RETRY_MAX_ATTEMPTS, max_retries + 1)
    Threshold,    \* _CIRCUIT_FAILURE_THRESHOLD
    MaxSessions,  \* _CLAUDE_MAX_CONCURRENT
    MaxFaults     \* bound: lost messages, killed pods, abandoned dispatches, failed I/O

ASSUME BoundsAssumption ==
    /\ MaxTries \in Nat \ {0} /\ Threshold \in Nat \ {0} /\ MaxSessions \in Nat \ {0}
    /\ MaxFaults \in Nat

ASSUME SetsAssumption ==
    /\ Waiting \subseteq Callers /\ Resuming \subseteq Callers
    /\ IsFiniteSet(Requests)
    /\ None \notin Callers \cup Requests

VARIABLES
    breaker,   \* _CIRCUIT_BREAKER
    call,      \* where each caller's dispatch is
    req,       \* where each request is at the worker
    faults,    \* faults so far
    over,      \* history: why the cap is exceeded: requests were counted side by side
    doubled    \* history: channels of two sessions that could not find each other

history == <<over, doubled>>
vars == <<breaker, call, req, faults, history>>

\* due: reset_timeout_s has passed since opened_at.  The count is followed up
\* to the threshold: nothing looks at how far beyond it is.
Breakers == [state : {"closed", "open", "half_open"}, count : 0..Threshold, due : BOOLEAN]

Kinds == {"fresh", "resume"}

\* on: the request whose answer is awaited, None once no answer can come.
Calls == [at : {"idle", "posted", "backoff"}, tries : 0..MaxTries, kind : Kinds,
          on : Requests \cup {None}]

\* "sent": not judged yet.  "admitted": both checks passed.  "leased": the lease
\* is on the volume.  "running": the CLI is started.  meta: the session has its
\* metadata there too.  dead: the pod was killed and the lease has not expired.
RequestPhases == {"free", "sent", "admitted", "leased", "running"}
RequestStates == [at : RequestPhases, of : Callers \cup {None}, kind : Kinds,
                  meta : BOOLEAN, dead : BOOLEAN]

TypeOK ==
    /\ breaker \in Breakers
    /\ call \in [Callers -> Calls]
    /\ req \in [Requests -> RequestStates]
    /\ faults \in 0..MaxFaults
    /\ over \in BOOLEAN /\ doubled \subseteq Callers \cup {None}

Quiet == [at |-> "idle", tries |-> 0, kind |-> "fresh", on |-> None]
Free == [at |-> "free", of |-> None, kind |-> "fresh", meta |-> FALSE, dead |-> FALSE]

\* A request on its way.  A resume names a session that has its metadata.
Sent(c, k) == [at |-> "sent", of |-> c, kind |-> k, meta |-> k = "resume", dead |-> FALSE]
ClosedBreaker == [state |-> "closed", count |-> 0, due |-> FALSE]

Init ==
    /\ breaker = ClosedBreaker
    /\ call = [c \in Callers |-> Quiet]
    /\ req = [r \in Requests |-> Free]
    /\ faults = 0
    /\ over = FALSE /\ doubled = {}

Fault == faults < MaxFaults /\ faults' = faults + 1

-----------------------------------------------------------------------------
(* The circuit breaker. *)

\* allow(): everybody may go on unless the circuit is open and fresh.
Allows == breaker.state # "open" \/ breaker.due

Allowed ==
    IF breaker.state = "open"
    THEN [breaker EXCEPT !.state = "half_open", !.due = FALSE]
    ELSE breaker

\* Mutant: a success clears the count and leaves the state alone.
ClearedCount == [breaker EXCEPT !.count = 0]

\* record_success()
Succeeded == ClosedBreaker

\* record_failure()
Failed ==
    IF breaker.state = "half_open"
    THEN [breaker EXCEPT !.state = "open", !.due = FALSE]
    ELSE IF breaker.count + 1 >= Threshold
         THEN [state |-> "open", count |-> Threshold, due |-> FALSE]
         ELSE [breaker EXCEPT !.count = @ + 1]

\* The reset time passes.
Elapse ==
    /\ breaker.state = "open" /\ ~breaker.due
    /\ breaker' = [breaker EXCEPT !.due = TRUE]
    /\ UNCHANGED <<call, req, faults, history>>

-----------------------------------------------------------------------------
(* The client. *)

Post(c, tries, k) ==
    /\ \E r \in Requests : req[r].at = "free"
    /\ LET r == CHOOSE r \in Requests : req[r].at = "free" IN
       /\ req' = [req EXCEPT ![r] = Sent(c, k)]
       /\ call' = [call EXCEPT ![c] = [at |-> "posted", tries |-> tries, kind |-> k, on |-> r]]

\* dispatch() up to the first POST.  A closed door raises CIRCUIT_OPEN and
\* changes nothing.
Start(c) ==
    /\ call[c].at = "idle"
    /\ Allows
    /\ breaker' = Allowed
    /\ \E k \in Kinds : (k = "resume" => c \in Resuming) /\ Post(c, 1, k)
    /\ UNCHANGED <<faults, history>>

\* Mutant: one try more than the ceiling.
TriesLeftLate(c) == call[c].tries <= MaxTries

TriesLeft(c) == call[c].tries < MaxTries

\* A timeout, a broken connection or a 5xx: back off, or fail for good.
Retry(c) ==
    /\ call[c].at = "posted" /\ call[c].on = None
    /\ IF TriesLeft(c)
       THEN /\ call' = [call EXCEPT ![c].at = "backoff"]
            /\ UNCHANGED breaker
       ELSE /\ call' = [call EXCEPT ![c] = Quiet]
            /\ breaker' = Failed
    /\ UNCHANGED <<req, faults, history>>

\* The sleep is over: the next try does not ask the breaker again.
Resend(c) ==
    /\ call[c].at = "backoff"
    /\ Post(c, call[c].tries + 1, call[c].kind)
    /\ UNCHANGED <<breaker, faults, history>>

\* The dispatch is cancelled, by the tick's watchdog or by a shutdown: the
\* breaker hears nothing.
Abandon(c) ==
    /\ Fault
    /\ call[c].at # "idle"
    /\ call' = [call EXCEPT ![c] = Quiet]
    /\ UNCHANGED <<breaker, req, history>>

\* The pipeline restarts: its dispatches and its breaker are gone.
Restart ==
    /\ Fault
    /\ call' = [c \in Callers |-> Quiet]
    /\ breaker' = ClosedBreaker
    /\ UNCHANGED <<req, history>>

\* What the caller of a request does with the worker's answer, if it still waits.
Hears(r) == req[r].of \in Callers /\ call[req[r].of].on = r

Accepted(r) ==
    IF Hears(r)
    THEN call' = [call EXCEPT ![req[r].of] = Quiet] /\ breaker' = Succeeded
    ELSE UNCHANGED <<call, breaker>>

Rejected(r) ==
    IF Hears(r)
    THEN call' = [call EXCEPT ![req[r].of] = Quiet] /\ breaker' = Failed
    ELSE UNCHANGED <<call, breaker>>

-----------------------------------------------------------------------------
(* The network. *)

\* The client times out or loses the connection; a request that has not been
\* judged may arrive later all the same, or never.
Lose(c) ==
    /\ Fault
    /\ call[c].at = "posted" /\ call[c].on # None
    /\ call' = [call EXCEPT ![c].on = None]
    /\ \/ UNCHANGED req
       \/ /\ req[call[c].on].at = "sent"
          /\ req' = [req EXCEPT ![call[c].on] = Free]
    /\ UNCHANGED <<breaker, history>>

-----------------------------------------------------------------------------
(* The worker. *)

\* A lease with a fresh heartbeat, of a live session or of a killed pod.
Leased == {r \in Requests : req[r].at \in {"leased", "running"}}

\* Requests between their count and their lease.
Admitted == {r \in Requests : req[r].at = "admitted"}

Claims == Admitted \cup Leased

Resumes(r) == req[r].kind = "resume"

\* Two live requests of one channel that have passed the checks, on two workspaces.
Apart(r, s) ==
    /\ {r, s} \subseteq Claims /\ r # s /\ ~req[r].dead /\ ~req[s].dead
    /\ req[r].of = req[s].of /\ ~(Resumes(r) /\ Resumes(s))

\* What the history keeps: an excess or a double that lasts.
Lasting(o, d) ==
    /\ over' = (o /\ Cardinality(Claims') > MaxSessions)
    /\ doubled' = {c \in d : \E r, s \in Requests : req'[r].of = c /\ Apart(r, s)'}

\* The scan of the leases finds a session alive through its metadata.
\* Mutant: through the process, which is not there yet while the repository is
\* prepared.
AliveInProc(r) == req[r].at = "running"

Alive(r) == r \in Leased /\ req[r].meta

\* Without metadata a session is found if its process is on this pod or its
\* transcript was written to just now.
MayBeFound(r) == Alive(r) \/ (req[r].at = "running" /\ ~req[r].dead)

\* Mutant: one session too many.
FullLate == Cardinality(Leased) > MaxSessions

Full == Cardinality(Leased) >= MaxSessions

\* The sessions a request is checked against: those of the channel, or, for a
\* resume, the one it names.
Twins(r) ==
    {s \in Requests \ {r} :
        req[s].of = req[r].of /\ (Resumes(r) => Resumes(s))}

\* 409: the cap is reached or the session is alive.
Refuse(r) ==
    /\ req[r].at = "sent"
    /\ Full \/ \E s \in Twins(r) : MayBeFound(s)
    /\ req' = [req EXCEPT ![r] = Free]
    /\ Rejected(r)
    /\ UNCHANGED <<faults, history>>

\* The channel has a session that r's checks do not find: it has no lease or no
\* metadata yet, or r is a resume and asks for no session but its own.
PassesBy(r) ==
    \E s \in Claims \ {r} :
        /\ req[s].of = req[r].of
        /\ Resumes(r) \/ s \in Admitted \/ ~req[s].meta

\* Both checks passed: the leases are counted, then looked through for the
\* session.  A directory that cannot be listed counts zero and hides everybody.
\* A resume whose context is spent becomes a fresh session in a new workspace.
Admit(r) ==
    /\ req[r].at = "sent"
    /\ \E listed \in BOOLEAN, k \in {req[r].kind, "fresh"} :
        /\ IF listed THEN ~Full /\ (\A s \in Twins(r) : ~Alive(s)) /\ UNCHANGED faults
           ELSE Fault
        /\ req' = [req EXCEPT ![r] = [@ EXCEPT !.at = "admitted", !.kind = k, !.meta = k = "resume"]]
        /\ Lasting(over \/ ~listed \/ Admitted # {},
                   IF ~listed \/ PassesBy(r) THEN doubled \cup {req[r].of} ELSE doubled)
    /\ UNCHANGED <<breaker, call>>

\* The workspace of a resume has a fresh lease.
Taken(r) == Resumes(r) /\ \E s \in Leased : Resumes(s) /\ req[s].of = req[r].of

\* acquire_lease().
TakeLease(r) ==
    /\ req[r].at = "admitted" /\ ~Taken(r)
    /\ req' = [req EXCEPT ![r].at = "leased"]
    /\ UNCHANGED <<breaker, call, faults, history>>

\* What is left of a request that has come to its end.
Forget(r) ==
    /\ req' = [req EXCEPT ![r] = Free]
    /\ Lasting(over, doubled)

\* 409: another session holds the workspace.
TurnAway(r) ==
    /\ req[r].at = "admitted" /\ Taken(r)
    /\ Forget(r)
    /\ Rejected(r)
    /\ UNCHANGED faults

\* The first _save_session_meta().  A failed write is swallowed: the handler goes
\* on without this step.
SaveMeta(r) ==
    /\ req[r].at = "leased" /\ ~req[r].dead /\ ~req[r].meta
    /\ req' = [req EXCEPT ![r].meta = TRUE]
    /\ UNCHANGED <<breaker, call, faults, history>>

\* The repository is there, the metadata is saved again, or not, and the CLI
\* starts; who does not wait gets its 202.
Spawn(r) ==
    /\ req[r].at = "leased" /\ ~req[r].dead
    /\ \E meta \in {req[r].meta, TRUE} :
         req' = [req EXCEPT ![r] = [@ EXCEPT !.at = "running", !.meta = meta]]
    /\ IF req[r].of \in Waiting THEN UNCHANGED <<call, breaker>> ELSE Accepted(r)
    /\ UNCHANGED <<faults, history>>

\* The CLI ends, however: the lease goes and who waited gets the result.
End(r) ==
    /\ req[r].at = "running" /\ ~req[r].dead
    /\ Forget(r)
    /\ Accepted(r)
    /\ UNCHANGED faults

\* A pod is killed with the requests it serves: what holds a lease leaves it
\* behind, who waits for an answer loses the connection.
Kill(R) ==
    /\ Fault
    /\ R \subseteq Claims /\ \A r \in R : ~req[r].dead
    /\ req' = [r \in Requests |->
                 IF r \notin R THEN req[r]
                 ELSE IF req[r].at = "admitted" THEN Free
                 ELSE [req[r] EXCEPT !.dead = TRUE]]
    /\ call' = [c \in Callers |->
                 IF call[c].on \in R THEN [call[c] EXCEPT !.on = None] ELSE call[c]]
    /\ Lasting(over, doubled)
    /\ UNCHANGED breaker

\* The TTL passes without a heartbeat.
Expire(r) ==
    /\ req[r].dead
    /\ Forget(r)
    /\ UNCHANGED <<breaker, call, faults>>

-----------------------------------------------------------------------------

ClientStep(c) == Start(c) \/ Retry(c) \/ Resend(c)

WorkerStep(r) ==
    \/ Refuse(r) \/ Admit(r) \/ TakeLease(r) \/ TurnAway(r)
    \/ SaveMeta(r) \/ Spawn(r) \/ End(r) \/ Expire(r)

Next ==
    \/ \E c \in Callers : ClientStep(c) \/ Abandon(c) \/ Lose(c)
    \/ \E r \in Requests : WorkerStep(r)
    \/ \E R \in SUBSET Claims \ {{}} : Kill(R)
    \/ Elapse
    \/ Restart

Spec == Init /\ [][Next]_vars

\* The pipeline goes on dispatching, a handler and a session come to their end,
\* and clocks advance.
Fairness ==
    /\ \A c \in Callers : WF_vars(ClientStep(c))
    /\ \A r \in Requests : WF_vars(WorkerStep(r))
    /\ WF_vars(Elapse)

FairSpec == Spec /\ Fairness

-----------------------------------------------------------------------------
(* Properties. *)

Live(r) == req[r].at = "running" /\ ~req[r].dead

\* A dispatch that is retried, or sent again by a later tick, while the first
\* one was accepted after all, is refused (_find_live_task_for_channel), and so
\* is a second resume (the lease).  A channel has two sessions only where one was
\* judged when its checks could not find the other: that one had no lease or no
\* metadata yet, a listing failed, or the later one is a resume, which asks for
\* no session but its own.
OneSession ==
    \A r, s \in Requests :
        Live(r) /\ Live(s) /\ req[r].of = req[s].of => r = s \/ req[r].of \in doubled

\* The live leases, those a killed pod left behind included, exceed
\* _CLAUDE_MAX_CONCURRENT only where requests were counted side by side, one
\* before the other had its lease, or a count failed; and once the excess has
\* gone, only where that happens again.
WithinCap == Cardinality(Leased) > MaxSessions => over

\* The circuit is closed again and again: neither refusals nor retries that go on
\* while it is open, nor an abandoned probe, keep a worker that answers shut out.
Recloses == []<>(breaker.state = "closed")

=============================================================================
