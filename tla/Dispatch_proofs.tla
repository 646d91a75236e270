--------------------------- MODULE Dispatch_proofs ----------------------------
(***************************************************************************)
(* Proofs about the dispatch: type correctness, and, however requests      *)
(* overlap and whatever fails, what a second session of a channel and a    *)
(* lease beyond the cap can only come from.                                *)
(***************************************************************************)
EXTENDS Dispatch, FiniteSetTheorems, TLAPS

-----------------------------------------------------------------------------
(* Type correctness. *)

\* What a failed dispatch leaves of the breaker is a breaker.
LEMMA FailedType == ASSUME TypeOK PROVE Failed \in Breakers
<1>1. breaker \in Breakers /\ breaker.count \in 0..Threshold
  BY DEF TypeOK, Breakers
<1>2. CASE breaker.state = "half_open"
  BY <1>1, <1>2 DEF Breakers, Failed
<1>3. CASE breaker.state # "half_open" /\ breaker.count + 1 >= Threshold
  BY <1>3, BoundsAssumption DEF Breakers, Failed
<1>4. CASE breaker.state # "half_open" /\ ~(breaker.count + 1 >= Threshold)
  <2>1. breaker.count + 1 \in 0..Threshold
    BY <1>1, <1>4, BoundsAssumption
  <2>2. Failed = [breaker EXCEPT !.count = breaker.count + 1]
    BY <1>4 DEF Failed
  <2> QED BY <1>1, <2>1, <2>2 DEF Breakers
<1> QED BY <1>2, <1>3, <1>4

\* So is what a successful one leaves.
LEMMA SucceededType == Succeeded \in Breakers
  BY BoundsAssumption DEF Breakers, Succeeded, ClosedBreaker

\* The two ends of a dispatch at rest.
LEMMA RestTypes == Quiet \in Calls /\ Free \in RequestStates
  BY BoundsAssumption DEF Quiet, Free, Calls, Kinds, RequestStates, RequestPhases

\* The initial state is well typed.
LEMMA InitTypes == Init => TypeOK
<1> SUFFICES ASSUME Init PROVE TypeOK OBVIOUS
<1>1. breaker \in Breakers /\ call \in [Callers -> Calls] /\ req \in [Requests -> RequestStates]
  BY RestTypes, SucceededType DEF Init, Succeeded
<1>2. faults \in 0..MaxFaults
  BY BoundsAssumption DEF Init
<1>3. over \in BOOLEAN /\ doubled \subseteq Callers \cup {None}
  BY DEF Init
<1> QED BY <1>1, <1>2, <1>3 DEF TypeOK

\* A posted request keeps both maps well typed.
LEMMA PostType ==
  ASSUME TypeOK, NEW c \in Callers, NEW n \in 0..MaxTries, NEW k \in Kinds, Post(c, n, k)
  PROVE  call' \in [Callers -> Calls] /\ req' \in [Requests -> RequestStates]
<1>1. PICK r \in Requests :
        /\ req' = [req EXCEPT ![r] = Sent(c, k)]
        /\ call' = [call EXCEPT ![c] = [at |-> "posted", tries |-> n, kind |-> k, on |-> r]]
  BY DEF Post
<1>2. Sent(c, k) \in RequestStates
  BY DEF Sent, RequestStates, RequestPhases
<1>3. [at |-> "posted", tries |-> n, kind |-> k, on |-> r] \in Calls
  BY DEF Calls
<1> QED BY <1>1, <1>2, <1>3 DEF TypeOK

\* An answer, good or bad, keeps caller and breaker well typed.
LEMMA AnswerType ==
  ASSUME TypeOK, NEW r \in Requests, Accepted(r) \/ Rejected(r)
  PROVE  call' \in [Callers -> Calls] /\ breaker' \in Breakers
  BY FailedType, SucceededType, RestTypes DEF TypeOK, Accepted, Rejected

\* What the history keeps is a history.
LEMMA LastingType ==
  ASSUME TypeOK, NEW o \in BOOLEAN, NEW d \in SUBSET (Callers \cup {None}), Lasting(o, d)
  PROVE  over' \in BOOLEAN /\ doubled' \subseteq Callers \cup {None}
  BY DEF Lasting

\* So are the requests and the history after one has come to its end ...
LEMMA ForgetType ==
  ASSUME TypeOK, NEW r \in Requests, Forget(r)
  PROVE  /\ req' \in [Requests -> RequestStates]
         /\ over' \in BOOLEAN /\ doubled' \subseteq Callers \cup {None}
  BY LastingType, RestTypes DEF Forget, TypeOK

\* ... and after one was let in.
LEMMA AdmitType ==
  ASSUME TypeOK, NEW r \in Requests, Admit(r)
  PROVE  /\ req' \in [Requests -> RequestStates]
         /\ over' \in BOOLEAN /\ doubled' \subseteq Callers \cup {None}
         /\ faults' \in 0..MaxFaults
<1>1. PICK listed \in BOOLEAN, k \in {req[r].kind, "fresh"} :
        /\ IF listed THEN UNCHANGED faults ELSE Fault
        /\ req' = [req EXCEPT ![r] = [@ EXCEPT !.at = "admitted", !.kind = k, !.meta = k = "resume"]]
        /\ Lasting(over \/ ~listed \/ Admitted # {},
                   IF ~listed \/ PassesBy(r) THEN doubled \cup {req[r].of} ELSE doubled)
  BY DEF Admit
<1>2. req[r].of \in Callers \cup {None} /\ k \in Kinds
  BY <1>1 DEF TypeOK, RequestStates, Kinds
<1>3. req' \in [Requests -> RequestStates]
  <2>1. [req[r] EXCEPT !.at = "admitted", !.kind = k, !.meta = k = "resume"] \in RequestStates
    BY <1>2 DEF TypeOK, RequestStates, RequestPhases
  <2> QED BY <1>1, <2>1 DEF TypeOK
<1>4. (over \/ ~listed \/ Admitted # {}) \in BOOLEAN
  BY DEF TypeOK
<1>5. over' \in BOOLEAN
  BY <1>1 DEF Lasting, TypeOK
<1>6. doubled' \subseteq Callers \cup {None}
  BY <1>1, <1>2 DEF Lasting, TypeOK
<1>7. faults' \in 0..MaxFaults
  BY <1>1, BoundsAssumption DEF Fault, TypeOK
<1> QED BY <1>3, <1>5, <1>6, <1>7

\* Who backs off has a try left.
BacksOff(c) == call[c].at = "backoff" => call[c].tries < MaxTries

\* Every step keeps the types, as long as whoever backs off has a try left.
LEMMA TypeStep ==
  ASSUME TypeOK, \A c \in Callers : BacksOff(c), [Next]_vars
  PROVE  TypeOK'
<1> USE DEF history
<1>1. ASSUME NEW c \in Callers, Start(c) PROVE TypeOK'
  <2>1. Allowed \in Breakers BY DEF TypeOK, Breakers, Allowed
  <2>2. 1 \in 0..MaxTries BY BoundsAssumption
  <2> QED BY <1>1, <2>1, <2>2, PostType DEF Start, TypeOK
<1>2. ASSUME NEW c \in Callers, Retry(c) PROVE TypeOK'
  <2>1. CASE TriesLeft(c)
    BY <1>2, <2>1 DEF Retry, TypeOK, Calls
  <2>2. CASE ~TriesLeft(c)
    BY <1>2, <2>2, FailedType, RestTypes DEF Retry, TypeOK
  <2> QED BY <2>1, <2>2
<1>3. ASSUME NEW c \in Callers, Resend(c) PROVE TypeOK'
  <2>1. call[c].tries + 1 \in 0..MaxTries /\ call[c].kind \in Kinds
    BY <1>3, BoundsAssumption DEF Resend, TypeOK, Calls, BacksOff
  <2> QED BY <1>3, <2>1, PostType DEF Resend, TypeOK
<1>4. ASSUME NEW c \in Callers, Abandon(c) PROVE TypeOK'
  BY <1>4, RestTypes, BoundsAssumption DEF Abandon, Fault, TypeOK
<1>5. ASSUME NEW c \in Callers, Lose(c) PROVE TypeOK'
  <2>1. call' \in [Callers -> Calls]
    BY <1>5 DEF Lose, TypeOK, Calls
  <2>2. req' \in [Requests -> RequestStates]
    BY <1>5, RestTypes DEF Lose, TypeOK
  <2> QED BY <1>5, <2>1, <2>2, BoundsAssumption DEF Lose, Fault, TypeOK
<1>6. ASSUME NEW r \in Requests, WorkerStep(r) PROVE TypeOK'
  <2>1. CASE Refuse(r)
    BY <2>1, AnswerType, RestTypes DEF Refuse, TypeOK
  <2>2. CASE Admit(r)
    BY <2>2, AdmitType DEF TypeOK, Admit
  <2>3. CASE TakeLease(r)
    BY <2>3 DEF TakeLease, TypeOK, RequestStates, RequestPhases
  <2>4. CASE SaveMeta(r)
    BY <2>4 DEF SaveMeta, TypeOK, RequestStates, RequestPhases
  <2>5. CASE Spawn(r)
    <3>1. req' \in [Requests -> RequestStates]
      <4>1. PICK m \in BOOLEAN : req' = [req EXCEPT ![r] = [@ EXCEPT !.at = "running", !.meta = m]]
        BY <2>5 DEF Spawn, TypeOK, RequestStates
      <4>2. [req[r] EXCEPT !.at = "running", !.meta = m] \in RequestStates
        BY DEF TypeOK, RequestStates, RequestPhases
      <4> QED BY <4>1, <4>2 DEF TypeOK
    <3>2. call' \in [Callers -> Calls] /\ breaker' \in Breakers
      BY <2>5, AnswerType DEF Spawn, TypeOK
    <3>3. UNCHANGED <<faults, history>>
      BY <2>5 DEF Spawn
    <3> QED BY <3>1, <3>2, <3>3 DEF TypeOK
  <2>6. CASE End(r) \/ TurnAway(r)
    <3>1. Forget(r) /\ (Accepted(r) \/ Rejected(r)) /\ UNCHANGED faults
      BY <2>6 DEF End, TurnAway
    <3> QED BY <3>1, AnswerType, ForgetType DEF TypeOK
  <2>7. CASE Expire(r)
    BY <2>7, ForgetType DEF Expire, TypeOK
  <2> QED BY <1>6, <2>1, <2>2, <2>3, <2>4, <2>5, <2>6, <2>7 DEF WorkerStep
<1>7. ASSUME NEW R \in SUBSET Claims, Kill(R) PROVE TypeOK'
  <2>1. req' \in [Requests -> RequestStates]
    BY <1>7, RestTypes DEF Kill, TypeOK, RequestStates
  <2>2. call' \in [Callers -> Calls]
    BY <1>7 DEF Kill, TypeOK, Calls
  <2>3. over' \in BOOLEAN /\ doubled' \subseteq Callers \cup {None}
    BY <1>7, LastingType DEF Kill, TypeOK
  <2> QED BY <1>7, <2>1, <2>2, <2>3, BoundsAssumption DEF Kill, Fault, TypeOK
<1>8. CASE Elapse
  BY <1>8 DEF Elapse, TypeOK, Breakers
<1>9. CASE Restart
  BY <1>9, RestTypes, SucceededType, BoundsAssumption DEF Restart, Fault, TypeOK, Succeeded
<1>10. CASE UNCHANGED vars
  BY <1>10 DEF vars, TypeOK
<1> QED
  BY <1>1, <1>2, <1>3, <1>4, <1>5, <1>6, <1>7, <1>8, <1>9, <1>10 DEF Next, ClientStep

\* A caller backs off only with a try left.
LEMMA BackoffStep ==
  ASSUME TypeOK, NEW k \in Callers, BacksOff(k), [Next]_vars
  PROVE  BacksOff(k)'
<1> USE DEF BacksOff
<1>1. ASSUME NEW c \in Callers, ClientStep(c) PROVE BacksOff(k)'
  <2>1. CASE Start(c)
    BY <2>1 DEF Start, Post, TypeOK
  <2>2. CASE Retry(c)
    BY <2>2 DEF Retry, TypeOK, Calls, TriesLeft, Quiet
  <2>3. CASE Resend(c)
    BY <2>3 DEF Resend, Post, TypeOK
  <2> QED BY <1>1, <2>1, <2>2, <2>3 DEF ClientStep
<1>2. ASSUME NEW c \in Callers, Abandon(c) PROVE BacksOff(k)'
  BY <1>2 DEF Abandon, TypeOK, Quiet
<1>3. ASSUME NEW c \in Callers, Lose(c) PROVE BacksOff(k)'
  BY <1>3 DEF Lose, TypeOK, Calls
<1>4. ASSUME NEW r \in Requests, WorkerStep(r) PROVE BacksOff(k)'
  BY <1>4 DEF WorkerStep, Refuse, Admit, TakeLease, TurnAway, SaveMeta, Spawn, End,
              Expire, Accepted, Rejected, TypeOK, Quiet
<1>5. ASSUME NEW R \in SUBSET Claims, Kill(R) PROVE BacksOff(k)'
  BY <1>5 DEF Kill, TypeOK, Calls
<1>6. CASE Elapse \/ Restart \/ UNCHANGED vars
  BY <1>6 DEF Elapse, Restart, vars, Quiet
<1> QED BY <1>1, <1>2, <1>3, <1>4, <1>5, <1>6 DEF Next

\* The types and the tries hold from the start.
LEMMA TypedHolds == Spec => [](TypeOK /\ \A c \in Callers : BacksOff(c))
<1> DEFINE Typed == TypeOK /\ \A c \in Callers : BacksOff(c)
<1>1. Init => Typed
  BY InitTypes, BoundsAssumption DEF Init, BacksOff, Quiet
<1>2. Typed /\ [Next]_vars => Typed'
  BY TypeStep, BackoffStep
<1> QED BY <1>1, <1>2, PTL DEF Spec

\* Type correctness, for any callers, requests, bounds and faults.
THEOREM DispatchTypeOK == Spec => []TypeOK
  BY TypedHolds, PTL

-----------------------------------------------------------------------------
(* One session per channel, and the cap.  What the checks of the worker    *)
(* look at is the leases; what they have to keep small is the leases and   *)
(* the requests that have passed the checks and are about to take one.     *)

Dead(r) == req[r].dead

\* Only a lease outlives its pod.
DeadHolds == \A r \in Requests : Dead(r) => r \in Leased

\* A workspace that is resumed has one lease.
OneLease(r, s) == r \in Leased /\ s \in Leased /\ Resumes(r) /\ Resumes(s) /\ req[r].of = req[s].of => r = s
LeasesApart == \A r, s \in Requests : OneLease(r, s)

\* More claims than the cap have their reason.
ClaimsFit == Cardinality(Claims) > MaxSessions => over

\* So have two live claims of one channel.
Explained(r, s) == Apart(r, s) => req[r].of \in doubled
ClaimsExplained == \A r, s \in Requests : Explained(r, s)

Claimed == TypeOK /\ DeadHolds /\ LeasesApart /\ ClaimsFit /\ ClaimsExplained

\* There are finitely many claims, before and after a step.
LEMMA ClaimsCount ==
  /\ IsFiniteSet(Claims) /\ Cardinality(Claims) \in Nat
  /\ IsFiniteSet(Claims') /\ Cardinality(Claims') \in Nat
<1>1. Claims \subseteq Requests /\ Claims' \subseteq Requests
  BY DEF Claims, Leased, Admitted
<1>2. IsFiniteSet(Claims) /\ IsFiniteSet(Claims')
  BY <1>1, SetsAssumption, FS_Subset
<1> QED BY <1>2, FS_CardinalityType

\* A request is as it was, as far as the invariant can tell, or has less.
Less(r) ==
    /\ r \in Claims' => r \in Claims
    /\ r \in Claims' => req'[r].of = req[r].of /\ req'[r].kind = req[r].kind
    /\ r \in Claims' => (Dead(r) => Dead(r)')

\* A step that adds no claim, revives none and renames none keeps the claims
\* explained.
LEMMA FewerClaims ==
  ASSUME Claimed, TypeOK', DeadHolds', LeasesApart',
         UNCHANGED history \/ Lasting(over, doubled),
         \A r \in Requests : Less(r)
  PROVE  Claimed'
<1>1. Claims' \subseteq Claims
  BY DEF Less, Claims, Leased, Admitted
<1>2. Cardinality(Claims') > MaxSessions => over
  <2>1. Cardinality(Claims') <= Cardinality(Claims)
    BY <1>1, ClaimsCount, FS_Subset
  <2> QED BY <2>1, ClaimsCount, BoundsAssumption DEF Claimed, ClaimsFit
<1>3. ClaimsFit'
  <2> SUFFICES ASSUME Cardinality(Claims') > MaxSessions PROVE over'
    BY DEF ClaimsFit
  <2>1. CASE UNCHANGED history
    BY <1>2, <2>1, Zenon DEF history
  <2>2. CASE Lasting(over, doubled)
    BY <1>2, <2>2, Zenon DEF Lasting
  <2> QED BY <2>1, <2>2
<1>4. ASSUME NEW r \in Requests, NEW s \in Requests, Apart(r, s)' PROVE req'[r].of \in doubled'
  <2>1. Apart(r, s) /\ req'[r].of = req[r].of
    BY <1>4 DEF Apart, Less, Dead, Resumes
  <2>2. req'[r].of \in doubled
    BY <2>1 DEF Claimed, ClaimsExplained, Explained
  <2> QED BY <1>4, <2>2 DEF Lasting, history
<1>5. ClaimsExplained'
  BY <1>4 DEF ClaimsExplained, Explained
<1> QED BY <1>3, <1>5 DEF Claimed

\* The checks let in only what is explained.
LEMMA AdmitClaims ==
  ASSUME Claimed, TypeOK', NEW r \in Requests, Admit(r)
  PROVE  Claimed'
<1> DEFINE cause(listed) == over \/ ~listed \/ Admitted # {}
           added(listed) == IF ~listed \/ PassesBy(r) THEN doubled \cup {req[r].of} ELSE doubled
<1>1. PICK listed \in BOOLEAN, k \in {req[r].kind, "fresh"} :
        /\ req[r].at = "sent"
        /\ listed => ~Full /\ \A s \in Twins(r) : ~Alive(s)
        /\ req' = [req EXCEPT ![r] = [@ EXCEPT !.at = "admitted", !.kind = k, !.meta = k = "resume"]]
        /\ Lasting(cause(listed), added(listed))
  BY DEF Admit
<1> HIDE DEF cause, added
<1>2. /\ req'[r].at = "admitted" /\ req'[r].of = req[r].of /\ req'[r].dead = req[r].dead
      /\ req'[r].kind = k
  BY <1>1 DEF Claimed, TypeOK, RequestStates
<1>3. \A s \in Requests : s # r => req'[s] = req[s]
  BY <1>1 DEF Claimed, TypeOK
<1>4. Leased' = Leased /\ r \notin Leased
  BY <1>1, <1>2, <1>3 DEF Leased
<1>5. Claims' = Claims \cup {r} /\ r \notin Claims
  BY <1>1, <1>2, <1>3, <1>4 DEF Claims, Admitted, Leased
<1>6. ClaimsFit'
  <2> SUFFICES ASSUME Cardinality(Claims') > MaxSessions PROVE over'
    BY DEF ClaimsFit
  <2>1. SUFFICES cause(listed)
    BY <1>1 DEF Lasting
  <2>2. SUFFICES ASSUME listed, Admitted = {} PROVE FALSE
    BY DEF cause
  <2>3. Claims = Leased
    BY <2>2 DEF Claims
  <2>4. ~(Cardinality(Claims) >= MaxSessions)
    BY <1>1, <2>2, <2>3 DEF Full
  <2>5. Cardinality(Claims') = Cardinality(Claims) + 1
    BY <1>5, ClaimsCount, FS_AddElement
  <2> QED BY <2>4, <2>5, ClaimsCount, BoundsAssumption
<1>7. \A s \in Requests : s # r /\ s \in Claims /\ req[s].of = req[r].of => req[r].of \in added(listed)
  <2> SUFFICES ASSUME NEW s \in Requests, s # r, s \in Claims, req[s].of = req[r].of,
                      listed, ~PassesBy(r)
               PROVE  FALSE
    BY DEF added
  <2>1. ~Resumes(r) /\ s \notin Admitted /\ req[s].meta
    BY DEF PassesBy
  <2>2. Alive(s) /\ s \in Twins(r)
    BY <2>1 DEF Alive, Claims, Twins
  <2> QED BY <1>1, <2>2
<1>8. doubled \subseteq added(listed)
  BY DEF added
<1>9. ASSUME NEW s \in Requests, NEW t \in Requests, Apart(s, t)' PROVE req'[s].of \in added(listed)
  <2>1. CASE s # r /\ t # r
    <3>1. Apart(s, t)
      BY <1>3, <1>5, <1>9, <2>1 DEF Apart, Resumes
    <3> QED BY <1>3, <1>8, <2>1, <3>1 DEF Claimed, ClaimsExplained, Explained
  <2>2. CASE s = r /\ t # r
    BY <1>2, <1>3, <1>5, <1>7, <1>9, <2>2 DEF Apart
  <2>3. CASE s # r /\ t = r
    BY <1>2, <1>3, <1>5, <1>7, <1>9, <2>3 DEF Apart
  <2> QED BY <1>9, <2>1, <2>2, <2>3 DEF Apart
<1>10. ClaimsExplained'
  BY <1>1, <1>9 DEF ClaimsExplained, Explained, Lasting
<1>11. LeasesApart'
  BY <1>3, <1>4 DEF Claimed, LeasesApart, OneLease, Resumes
<1>12. DeadHolds'
  BY <1>1, <1>2, <1>3, <1>4 DEF Claimed, DeadHolds, Dead, Leased
<1> QED BY <1>6, <1>10, <1>11, <1>12 DEF Claimed

\* A lease is taken where there is none.
LEMMA LeaseClaims ==
  ASSUME Claimed, TypeOK', NEW r \in Requests, TakeLease(r)
  PROVE  Claimed'
<1>1. req'[r] = [req[r] EXCEPT !.at = "leased"] /\ \A s \in Requests : s # r => req'[s] = req[s]
  BY DEF TakeLease, Claimed, TypeOK
<1>2. req'[r].at = "leased" /\ req'[r].of = req[r].of /\ req'[r].kind = req[r].kind /\ req'[r].dead = req[r].dead
  BY <1>1 DEF Claimed, TypeOK, RequestStates
<1>3. Leased' = Leased \cup {r} /\ r \in Admitted
  BY <1>1, <1>2 DEF TakeLease, Leased, Admitted
<1>4. DeadHolds'
  BY <1>1, <1>2, <1>3 DEF Claimed, DeadHolds, Dead
<1>5. LeasesApart'
  BY <1>1, <1>2, <1>3 DEF TakeLease, Taken, Claimed, LeasesApart, OneLease, Resumes
<1>6. \A s \in Requests : Less(s)
  BY <1>1, <1>2, <1>3 DEF Less, Claims, Admitted, Leased, Dead
<1>7. UNCHANGED history
  BY DEF TakeLease, history
<1> QED BY <1>4, <1>5, <1>6, <1>7, FewerClaims

\* A step that leaves every claim where it is, or ends it, keeps the invariant.
LEMMA EndClaims ==
  ASSUME Claimed, TypeOK', UNCHANGED history \/ Lasting(over, doubled),
         \A r \in Requests :
            \/ r \notin Claims' /\ ~Dead(r)'
            \/ /\ r \in Claims /\ (r \in Leased' <=> r \in Leased)
               /\ req'[r].of = req[r].of /\ req'[r].kind = req[r].kind
               /\ Dead(r) => Dead(r)'
               /\ Dead(r)' => Dead(r) \/ r \in Leased
  PROVE  Claimed'
<1>1. \A r \in Requests : Less(r)
  BY DEF Less
<1>2. DeadHolds'
  BY DEF Claimed, DeadHolds
<1>3. LeasesApart'
  <2>1. \A r \in Requests : r \in Leased' => r \in Leased /\ req'[r].of = req[r].of /\ req'[r].kind = req[r].kind
    BY DEF Claims
  <2> QED BY <2>1 DEF Claimed, LeasesApart, OneLease, Resumes
<1> QED BY <1>1, <1>2, <1>3, FewerClaims

\* Every step keeps the invariant.
LEMMA ClaimStep ==
  ASSUME Claimed, TypeOK', [Next]_vars
  PROVE  Claimed'
<1>1. CASE UNCHANGED <<req, history>>
  <2>1. Claims' = Claims /\ Leased' = Leased
    BY <1>1 DEF Claims, Leased, Admitted
  <2>2. \A r \in Requests : Less(r)
    BY <1>1, <2>1 DEF Less, Dead
  <2>3. DeadHolds' /\ LeasesApart'
    BY <1>1, <2>1 DEF Claimed, DeadHolds, LeasesApart, OneLease, Resumes, Dead
  <2> QED BY <1>1, <2>2, <2>3, FewerClaims
<1>2. ASSUME NEW r \in Requests, req'[r].at \in {"free", "sent"}, ~req'[r].dead,
             \A s \in Requests : s # r => req'[s] = req[s],
             UNCHANGED history \/ Lasting(over, doubled)
      PROVE  Claimed'
  <2>1. r \notin Claims' /\ ~Dead(r)'
    BY <1>2 DEF Claims, Admitted, Leased, Dead
  <2>2. \A s \in Requests : s # r => /\ s \in Claims' <=> s \in Claims
                                     /\ s \in Leased' <=> s \in Leased
                                     /\ Dead(s)' = Dead(s) /\ req'[s] = req[s]
    BY <1>2 DEF Claims, Admitted, Leased, Dead
  <2>3. \A s \in Requests : Dead(s) => s \in Claims
    BY DEF Claimed, DeadHolds, Claims
  <2> QED BY <1>2, <2>1, <2>2, <2>3, EndClaims
<1>3. ASSUME NEW r \in Requests, req' = [req EXCEPT ![r] = Free],
             UNCHANGED history \/ Lasting(over, doubled)
      PROVE  Claimed'
  <2>1. req'[r] = Free /\ \A s \in Requests : s # r => req'[s] = req[s]
    BY <1>3 DEF Claimed, TypeOK
  <2> QED BY <1>2, <1>3, <2>1 DEF Free
<1>4. ASSUME NEW c \in Callers, NEW n, NEW k, Post(c, n, k), UNCHANGED history PROVE Claimed'
  <2>1. PICK r \in Requests : req' = [req EXCEPT ![r] = Sent(c, k)]
    BY <1>4 DEF Post
  <2>2. req'[r] = Sent(c, k) /\ \A s \in Requests : s # r => req'[s] = req[s]
    BY <2>1 DEF Claimed, TypeOK
  <2> QED BY <1>2, <1>4, <2>2 DEF Sent
<1>5. ASSUME NEW r \in Requests, SaveMeta(r) \/ Spawn(r) PROVE Claimed'
  <2>1. PICK a \in {"leased", "running"}, m \in BOOLEAN :
          req[r].at = "leased" /\ req' = [req EXCEPT ![r] = [@ EXCEPT !.at = a, !.meta = m]]
    <3>1. CASE SaveMeta(r)
      <4>1. req' = [req EXCEPT ![r] = [@ EXCEPT !.at = "leased", !.meta = TRUE]] /\ req[r].at = "leased"
        BY <3>1 DEF SaveMeta, Claimed, TypeOK, RequestStates
      <4> QED BY <4>1
    <3>2. CASE Spawn(r)
      <4>1. req[r].meta \in BOOLEAN
        BY DEF Claimed, TypeOK, RequestStates
      <4> QED BY <3>2, <4>1 DEF Spawn
    <3> QED BY <1>5, <3>1, <3>2
  <2>2. /\ req'[r].at = a /\ req'[r].of = req[r].of /\ req'[r].kind = req[r].kind
        /\ req'[r].dead = req[r].dead
    BY <2>1 DEF Claimed, TypeOK, RequestStates
  <2>3. \A s \in Requests : s # r => req'[s] = req[s]
    BY <2>1 DEF Claimed, TypeOK
  <2>4. Leased' = Leased /\ Claims' = Claims
    BY <2>1, <2>2, <2>3 DEF Leased, Claims, Admitted
  <2>5. \A s \in Requests : Less(s)
    BY <2>2, <2>3, <2>4 DEF Less, Dead
  <2>6. DeadHolds' /\ LeasesApart'
    BY <2>2, <2>3, <2>4 DEF Claimed, DeadHolds, LeasesApart, OneLease, Resumes, Dead
  <2>7. UNCHANGED history
    BY <1>5 DEF SaveMeta, Spawn, history
  <2> QED BY <2>5, <2>6, <2>7, FewerClaims
<1>6. ASSUME NEW R \in SUBSET Claims, Kill(R) PROVE Claimed'
  <2>1. \A s \in Requests : req'[s] = IF s \notin R THEN req[s]
                                      ELSE IF req[s].at = "admitted" THEN Free
                                      ELSE [req[s] EXCEPT !.dead = TRUE]
    BY <1>6 DEF Kill
  <2>2. \A s \in R : req[s].at # "admitted" => s \in Leased
    BY <1>6 DEF Kill, Claims, Admitted
  <2>3. \A s \in Requests :
          \/ req'[s] = req[s]
          \/ req'[s] = Free
          \/ /\ req'[s].at = req[s].at /\ req'[s].of = req[s].of /\ req'[s].kind = req[s].kind
             /\ req'[s].dead /\ s \in Leased
    BY <2>1, <2>2 DEF Claimed, TypeOK, RequestStates, RequestPhases
  <2>4. Lasting(over, doubled)
    BY <1>6 DEF Kill
  <2>5. \A s \in Requests : Less(s)
    BY <2>3 DEF Less, Claims, Admitted, Leased, Dead, Free
  <2>6. \A s \in Requests : s \in Leased' => s \in Leased /\ req'[s].of = req[s].of /\ req'[s].kind = req[s].kind
    BY <2>3 DEF Leased, Free
  <2>7. LeasesApart'
    BY <2>6 DEF Claimed, LeasesApart, OneLease, Resumes
  <2>8. DeadHolds'
    BY <2>3 DEF Claimed, DeadHolds, Dead, Leased, Free
  <2> QED BY <2>4, <2>5, <2>7, <2>8, FewerClaims
<1>7. ASSUME NEW r \in Requests, WorkerStep(r) PROVE Claimed'
  <2>1. CASE Admit(r)
    BY <2>1, AdmitClaims
  <2>2. CASE TakeLease(r)
    BY <2>2, LeaseClaims
  <2>3. CASE Refuse(r) \/ TurnAway(r) \/ End(r) \/ Expire(r)
    BY <2>3, <1>3 DEF Refuse, TurnAway, End, Expire, Forget
  <2>4. CASE SaveMeta(r) \/ Spawn(r)
    BY <2>4, <1>5
  <2> QED BY <1>7, <2>1, <2>2, <2>3, <2>4 DEF WorkerStep
<1>8. ASSUME NEW c \in Callers, ClientStep(c) \/ Abandon(c) \/ Lose(c) PROVE Claimed'
  <2>1. CASE Start(c) \/ Resend(c)
    BY <2>1, <1>4 DEF Start, Resend
  <2>2. CASE Retry(c) \/ Abandon(c)
    BY <2>2, <1>1 DEF Retry, Abandon
  <2>3. CASE Lose(c)
    <3>1. call[c].on \in Requests
      BY <2>3 DEF Lose, Claimed, TypeOK, Calls
    <3> QED BY <2>3, <3>1, <1>1, <1>3 DEF Lose
  <2> QED BY <1>8, <2>1, <2>2, <2>3 DEF ClientStep
<1>9. CASE Elapse \/ Restart \/ UNCHANGED vars
  BY <1>9, <1>1 DEF Elapse, Restart, vars
<1> QED BY <1>6, <1>7, <1>8, <1>9 DEF Next

\* The inductive invariant, for any callers, requests and faults, and however
\* the requests overlap: a resumed workspace has one lease, and what the claims
\* have beyond one session per channel, or beyond the cap, has its reason.
THEOREM ClaimsHold == Spec => []Claimed
<1>1. Init => Claimed
  <2> SUFFICES ASSUME Init PROVE Claimed OBVIOUS
  <2>1. TypeOK
    BY InitTypes
  <2>2. Claims = {} /\ Leased = {} /\ DeadHolds
    BY DEF Init, Claims, Leased, Admitted, Free, DeadHolds, Dead
  <2>3. ClaimsFit
    BY <2>2, FS_EmptySet, BoundsAssumption DEF ClaimsFit
  <2>4. LeasesApart /\ ClaimsExplained
    BY <2>2 DEF LeasesApart, OneLease, ClaimsExplained, Explained, Apart
  <2> QED BY <2>1, <2>2, <2>3, <2>4 DEF Claimed
<1>2. Claimed /\ TypeOK' /\ [Next]_vars => Claimed'
  BY ClaimStep
<1> QED BY <1>1, <1>2, DispatchTypeOK, PTL DEF Spec

\* A channel has two sessions only where the checks of one could not find the
\* other; with the metadata saved and the directory readable, a fresh dispatch
\* never joins a live session, and a resume never its own.
THEOREM DedupWorks == Spec => []OneSession
<1>1. Claimed => OneSession
  <2> SUFFICES ASSUME Claimed, NEW r \in Requests, NEW s \in Requests, Live(r), Live(s),
                      req[r].of = req[s].of, r # s
               PROVE  req[r].of \in doubled
    BY DEF OneSession
  <2>1. r \in Leased /\ s \in Leased /\ ~req[r].dead /\ ~req[s].dead
    BY DEF Live, Leased
  <2>2. ~(Resumes(r) /\ Resumes(s))
    BY <2>1 DEF Claimed, LeasesApart, OneLease
  <2>3. Apart(r, s)
    BY <2>1, <2>2 DEF Apart, Claims
  <2> QED BY <2>3 DEF Claimed, ClaimsExplained, Explained
<1> QED BY <1>1, ClaimsHold, PTL

\* The live leases exceed the cap only where requests were counted side by side.
THEOREM CapHolds == Spec => []WithinCap
<1>1. Claimed => WithinCap
  <2> SUFFICES ASSUME Claimed, Cardinality(Leased) > MaxSessions PROVE over
    BY DEF WithinCap
  <2>1. Leased \subseteq Claims
    BY DEF Claims
  <2>2. IsFiniteSet(Leased) /\ Cardinality(Leased) <= Cardinality(Claims)
    BY <2>1, ClaimsCount, FS_Subset
  <2>3. Cardinality(Leased) \in Nat
    BY <2>2, FS_CardinalityType
  <2> QED BY <2>2, <2>3, ClaimsCount, BoundsAssumption DEF Claimed, ClaimsFit
<1> QED BY <1>1, ClaimsHold, PTL

=============================================================================
