---------------------------- MODULE IntakeQueue ----------------------------
(***************************************************************************)
(* The database-backed investigation queue of server/src/incidents: the    *)
(* rows of incoming_incidents and incident_phases, the HTTP routes that    *)
(* insert, delete and retry an incident, and any number of API processes,  *)
(* each running investigateNext over and over (worker.ts).                 *)
(*                                                                         *)
(* One SQL statement is one atomic step; every await between two           *)
(* statements of a worker is a point where other processes may run, where  *)
(* the process may crash, and where the statement may fail.                *)
(***************************************************************************)
EXTENDS Naturals, FiniteSets

CONSTANTS
  Workers,            \* API processes; each runs one worker loop
  KeyedWorkers,       \* those started with an API_KEY
  Requests,           \* concurrent intake requests (webhook or manual form)
  Events,             \* the (source, event_id) pairs reporters may send
  ManualEvents,       \* those of source "manual": the dashboard's own form
  Tokens,             \* lease tokens; randomUUID never repeats one in use
  NoEvent, NoToken,
  MaxIncidents,       \* bound: rows ever inserted
  NumPhases,          \* length of PHASES
  MaxCrashes, MaxFaults, MaxRetries,  \* bounds on the environment
  FaultKinds,         \* subset of {"refused", "lost"}: how a statement can fail
  LeaseOutlastsWork   \* TRUE: a lease expires only once its worker stopped

ASSUME ConstantsAssumption ==
  /\ KeyedWorkers \subseteq Workers
  /\ ManualEvents \subseteq Events
  /\ NoEvent \notin Events /\ NoToken \notin Tokens
  /\ MaxIncidents \in Nat /\ NumPhases \in Nat \ {0}
  /\ MaxCrashes \in Nat /\ MaxFaults \in Nat /\ MaxRetries \in Nat
  /\ FaultKinds \subseteq {"refused", "lost"}
  /\ LeaseOutlastsWork \in BOOLEAN

MaxAttempts == 3

Ids == 1..MaxIncidents           \* in created_at order
NoId == 0
Seqs == 1..NumPhases             \* PHASES, as the worker numbers them

VARIABLES
  row,       \* row[i]: the incoming_incidents row of incident i
  phases,    \* phases[i][s]: its incident_phases row with seq s
  pc, att,   \* per worker: the next statement, and its local variables
  req,       \* per request: where insertIncident stands
  nextId,    \* the next incident id to be inserted
  spent      \* crashes, faults and retries so far (bounds only)

vars == <<row, phases, pc, att, req, nextId, spent>>

-----------------------------------------------------------------------------
(* Rows, local variables and the initial state. A report or a phase output *)
(* is named by the token of the attempt that wrote it.                     *)

Status == {"absent", "queued", "investigating", "review", "failed"}
Lease  == {"none", "held", "expired"}   \* NULL, in the future, in the past
Error  == {"none", "interrupted", "failed", "not_configured"}
Token  == Tokens \cup {NoToken}

Row == [event: Events \cup {NoEvent}, status: Status, attempts: 0..MaxAttempts,
        token: Token, lease: Lease, report: Token, error: Error]
Phase == [status: {"none", "running", "done", "failed"}, by: Token, output: Token]

NoRow   == [event |-> NoEvent, status |-> "absent", attempts |-> 0,
            token |-> NoToken, lease |-> "none", report |-> NoToken, error |-> "none"]
NewRow(e) == [NoRow EXCEPT !.event = e, !.status = "queued"]
NoPhase == [status |-> "none", by |-> NoToken, output |-> NoToken]
NoPhases == [s \in Seqs |-> NoPhase]

Working  == {"clear", "phase", "call", "record", "renew", "review", "cleanup", "fail"}
Location == Working \cup {"idle", "claim", "down"}
Attempt  == [inc: Ids \cup {NoId}, tok: Token, seq: 0..NumPhases]
NoAttempt == [inc |-> NoId, tok |-> NoToken, seq |-> 0]

Request == [step: {"idle", "select", "answered"},
            event: Events \cup {NoEvent}, id: Ids \cup {NoId}]
NoRequest == [step |-> "idle", event |-> NoEvent, id |-> NoId]

TypeOK ==
  /\ row \in [Ids -> Row]
  /\ phases \in [Ids -> [Seqs -> Phase]]
  /\ pc \in [Workers -> Location]
  /\ att \in [Workers -> Attempt]
  /\ req \in [Requests -> Request]
  /\ nextId \in 1..(MaxIncidents + 1)
  /\ spent \in [crashes: 0..MaxCrashes, faults: 0..MaxFaults, retries: 0..MaxRetries]

Init ==
  /\ row = [i \in Ids |-> NoRow]
  /\ phases = [i \in Ids |-> NoPhases]
  /\ pc = [w \in Workers |-> "idle"]
  /\ att = [w \in Workers |-> NoAttempt]
  /\ req = [r \in Requests |-> NoRequest]
  /\ nextId = 1
  /\ spent = [crashes |-> 0, faults |-> 0, retries |-> 0]

Present(i) == row[i].status # "absent"

(* The outcome of a statement: it commits and answers, it is refused with  *)
(* no effect, or it commits and the answer is lost; the client sees the    *)
(* last two as the same exception.                                         *)
Outcomes == {"ok"} \cup FaultKinds

Outcome(o) ==
  /\ o # "ok" => spent.faults < MaxFaults
  /\ spent' = IF o = "ok" THEN spent ELSE [spent EXCEPT !.faults = @ + 1]

\* UPDATE one row, or insert it, if the statement takes effect.
UpdateRow(i, effect, r) == row' = IF effect THEN [row EXCEPT ![i] = r] ELSE row
UpdatePhase(i, s, effect, p) ==
  phases' = IF effect THEN [phases EXCEPT ![i][s] = p] ELSE phases

Goto(w, l) == pc' = [pc EXCEPT ![w] = l]

\* investigateNext returns or throws: tick clears busy, the locals are gone.
Stop(w, l) == Goto(w, l) /\ att' = [att EXCEPT ![w] = NoAttempt]

-----------------------------------------------------------------------------
(* The worker: one action per statement of investigateNext.                *)

ExpiredLease(i) == row[i].status = "investigating" /\ row[i].lease = "expired"
\* Faulty variants of Claimable (each names the bug; none is used in Next).
ClaimableUnexpired(i) ==
  row[i].status \in {"queued", "investigating"} /\ row[i].attempts < MaxAttempts
ClaimableQueuedOnly(i) == row[i].status = "queued"

Claimable(i) == \/ row[i].status = "queued"
                \/ ExpiredLease(i) /\ row[i].attempts < MaxAttempts
Exhausted(i) == ExpiredLease(i) /\ row[i].attempts >= MaxAttempts

\* WHERE id=$1 AND lease_token=$2
Holds(w, i) == Present(i) /\ row[i].token = att[w].tok

\* The interrupted investigations that used up their attempts are failed.
Reap(w, o) ==
  /\ pc[w] = "idle"
  /\ Outcome(o)
  /\ row' = IF o = "refused" THEN row
            ELSE [i \in Ids |->
                    IF Exhausted(i)
                    THEN [row[i] EXCEPT !.status = "failed", !.error = "interrupted"]
                    ELSE row[i]]
  /\ Goto(w, IF o = "ok" THEN "claim" ELSE "idle")
  /\ UNCHANGED <<phases, att, req, nextId>>

\* randomUUID differs from every token still stored or held somewhere.
TokenInUse(t) ==
  \/ \E i \in Ids : row[i].token = t \/ row[i].report = t
  \/ \E i \in Ids, s \in Seqs : phases[i][s].by = t \/ phases[i][s].output = t
  \/ \E w \in Workers : att[w].tok = t

FreshTokens == {t \in Tokens : ~TokenInUse(t)}

\* Only the equality of tokens matters, so any fresh one will do.
Claim(w, o) ==
  /\ pc[w] = "claim"
  /\ Outcome(o)
  /\ \E i \in Ids, t \in FreshTokens :
       /\ Claimable(i) /\ \A j \in Ids : Claimable(j) => i <= j
       /\ t = CHOOSE u \in FreshTokens : TRUE
       /\ UpdateRow(i, o # "refused", [row[i] EXCEPT
            !.status = "investigating", !.attempts = @ + 1, !.token = t,
            !.lease = "held", !.error = "none", !.report = NoToken])
       /\ IF o = "ok"
          THEN Goto(w, "clear") /\ att' = [att EXCEPT ![w] = [inc |-> i, tok |-> t, seq |-> 0]]
          ELSE Stop(w, "idle")
  /\ UNCHANGED <<phases, req, nextId>>

ClaimNothing(w) ==
  /\ pc[w] = "claim"
  /\ \A i \in Ids : ~Claimable(i)
  /\ Goto(w, "idle")
  /\ UNCHANGED <<row, phases, att, req, nextId, spent>>

\* A previous attempt's phases go. This statement is outside the try: if it
\* throws, the row waits for its lease to expire. Without a key the try fails
\* before its first statement, with seq still 0.
ClearPhases(w, o) ==
  /\ pc[w] = "clear"
  /\ Outcome(o)
  /\ phases' = IF o = "refused" THEN phases ELSE [phases EXCEPT ![att[w].inc] = NoPhases]
  /\ IF o = "ok"
     THEN Goto(w, IF w \in KeyedWorkers THEN "phase" ELSE "fail") /\ att' = att
     ELSE Stop(w, "idle")
  /\ UNCHANGED <<row, req, nextId>>

\* Faulty: without the foreign key and the primary key.
InsertPhaseUnchecked(w, o) ==
  LET s == att[w].seq + 1
  IN
  /\ pc[w] = "phase"
  /\ Outcome(o)
  /\ UpdatePhase(att[w].inc, s, TRUE,
       [status |-> "running", by |-> att[w].tok, output |-> NoToken])
  /\ att' = [att EXCEPT ![w] = [@ EXCEPT !.seq = s]]
  /\ Goto(w, "call")
  /\ UNCHANGED <<row, req, nextId>>

\* A duplicate (incident_id, seq) or a deleted incident makes the INSERT throw.
InsertPhase(w, o) ==
  LET i == att[w].inc
      s == att[w].seq + 1
      accepted == Present(i) /\ phases[i][s] = NoPhase
  IN
  /\ pc[w] = "phase"
  /\ Outcome(o)
  /\ UpdatePhase(i, s, o # "refused" /\ accepted,
       [status |-> "running", by |-> att[w].tok, output |-> NoToken])
  /\ att' = [att EXCEPT ![w] = [@ EXCEPT !.seq = s]]
  /\ Goto(w, IF o = "ok" /\ accepted THEN "call" ELSE "cleanup")
  /\ UNCHANGED <<row, req, nextId>>

\* The model answers end_turn with text, or the phase throws: a timeout, an
\* API error, another stop reason, an empty output.
CallModel(w, good) ==
  /\ pc[w] = "call"
  /\ Goto(w, IF good THEN "record" ELSE "cleanup")
  /\ UNCHANGED <<row, phases, att, req, nextId, spent>>

\* UPDATE incident_phases ... WHERE incident_id AND seq: no token involved.
RecordPhase(w, o) ==
  LET i == att[w].inc
      s == att[w].seq
  IN
  /\ pc[w] = "record"
  /\ Outcome(o)
  /\ UpdatePhase(i, s, o # "refused" /\ phases[i][s] # NoPhase,
       [phases[i][s] EXCEPT !.status = "done", !.output = att[w].tok])
  /\ Goto(w, IF o = "ok" THEN "renew" ELSE "cleanup")
  /\ UNCHANGED <<row, att, req, nextId>>

\* Faulty: the investigation ends one phase early.
RenewLeaseEndsEarly(w, o) ==
  /\ pc[w] = "renew"
  /\ Outcome(o)
  /\ Goto(w, IF att[w].seq + 1 < NumPhases THEN "phase" ELSE "review")
  /\ UNCHANGED <<row, phases, att, req, nextId>>

\* No row renewed means LeaseLost: the worker stops quietly.
RenewLease(w, o) ==
  LET i == att[w].inc
      next == IF att[w].seq < NumPhases THEN "phase" ELSE "review"
  IN
  /\ pc[w] = "renew"
  /\ Outcome(o)
  /\ UpdateRow(i, o # "refused" /\ Holds(w, i), [row[i] EXCEPT !.lease = "held"])
  /\ IF o = "ok" /\ ~Holds(w, i)
     THEN Stop(w, "idle")
     ELSE Goto(w, IF o = "ok" THEN next ELSE "cleanup") /\ att' = att
  /\ UNCHANGED <<phases, req, nextId>>

\* Faulty: WHERE id=$1 without the token.
ReviewAnyHolder(w, o) ==
  /\ pc[w] = "review"
  /\ Outcome(o)
  /\ UpdateRow(att[w].inc, TRUE, [row[att[w].inc] EXCEPT
       !.status = "review", !.report = att[w].tok, !.lease = "none"])
  /\ Stop(w, "idle")
  /\ UNCHANGED <<phases, req, nextId>>

\* The report is the last phase's output. The row count is not looked at.
Review(w, o) ==
  LET i == att[w].inc
  IN
  /\ pc[w] = "review"
  /\ Outcome(o)
  /\ UpdateRow(i, o # "refused" /\ Holds(w, i), [row[i] EXCEPT
       !.status = "review", !.report = att[w].tok, !.lease = "none"])
  /\ IF o = "ok" THEN Stop(w, "idle") ELSE Goto(w, "cleanup") /\ att' = att
  /\ UNCHANGED <<phases, req, nextId>>

\* The catch block: the phase under way is failed; an error here is swallowed.
FailPhase(w, o) ==
  LET i == att[w].inc
      s == att[w].seq
  IN
  /\ pc[w] = "cleanup"
  /\ Outcome(o)
  /\ UpdatePhase(i, s, o # "refused" /\ phases[i][s].status = "running",
       [phases[i][s] EXCEPT !.status = "failed"])
  /\ Goto(w, "fail")
  /\ UNCHANGED <<row, att, req, nextId>>

\* Faulty: without AND lease_token=$3.
FailAnyHolder(w, o) ==
  /\ pc[w] = "fail"
  /\ Outcome(o)
  /\ UpdateRow(att[w].inc, Present(att[w].inc), [row[att[w].inc] EXCEPT
       !.status = "failed", !.error = "failed", !.lease = "none"])
  /\ Stop(w, "idle")
  /\ UNCHANGED <<phases, req, nextId>>

\* Then the incident; an error here leaves it to the expiry of its lease.
FailIncident(w, o) ==
  LET i == att[w].inc
  IN
  /\ pc[w] = "fail"
  /\ Outcome(o)
  /\ UpdateRow(i, o # "refused" /\ Holds(w, i), [row[i] EXCEPT
       !.status = "failed", !.lease = "none",
       !.error = IF w \in KeyedWorkers THEN "failed" ELSE "not_configured"])
  /\ Stop(w, "idle")
  /\ UNCHANGED <<phases, req, nextId>>

Step(w, o) ==
  \/ Reap(w, o) \/ Claim(w, o) \/ ClearPhases(w, o) \/ InsertPhase(w, o)
  \/ RecordPhase(w, o) \/ RenewLease(w, o) \/ Review(w, o)
  \/ FailPhase(w, o) \/ FailIncident(w, o)

Work(w) ==
  \/ \E o \in Outcomes : Step(w, o)
  \/ ClaimNothing(w)
  \/ \E good \in BOOLEAN : CallModel(w, good)

-----------------------------------------------------------------------------
(* The environment: process crashes and restarts, and the lease clock.     *)

Crash(w) ==
  /\ pc[w] # "down"
  /\ spent.crashes < MaxCrashes
  /\ spent' = [spent EXCEPT !.crashes = @ + 1]
  /\ Stop(w, "down")
  /\ UNCHANGED <<row, phases, req, nextId>>

\* startIncidentWorker ticks at once on boot.
Restart(w) ==
  /\ pc[w] = "down"
  /\ Goto(w, "idle")
  /\ UNCHANGED <<row, phases, att, req, nextId, spent>>

\* lease_until < now() becomes true. When LeaseOutlastsWork, five minutes
\* are longer than any worker takes between two renewals.
Expire(i) ==
  /\ row[i].lease = "held"
  /\ LeaseOutlastsWork => \A w \in Workers : att[w].tok # row[i].token
  /\ UpdateRow(i, TRUE, [row[i] EXCEPT !.lease = "expired"])
  /\ UNCHANGED <<phases, pc, att, req, nextId, spent>>

-----------------------------------------------------------------------------
(* The routes.                                                             *)

\* INSERT ... ON CONFLICT DO NOTHING. The new row is answered at once, unless
\* the answer is lost; an existing one needs a second statement.
InsertIncident(r, e, o) ==
  LET existing == \E i \in Ids : row[i].event = e
      answered == [step |-> "answered", event |-> e, id |-> nextId]
      select   == [step |-> "select", event |-> e, id |-> NoId]
  IN
  /\ req[r].step = "idle"
  /\ o # "refused"
  /\ Outcome(o)
  /\ IF existing THEN UNCHANGED <<row, nextId>>
     ELSE /\ nextId <= MaxIncidents
          /\ row' = [row EXCEPT ![nextId] = NewRow(e)]
          /\ nextId' = nextId + 1
  /\ req' = IF o = "lost" THEN req
            ELSE [req EXCEPT ![r] = IF existing THEN select ELSE answered]
  /\ UNCHANGED <<phases, pc, att>>

\* Faulty: the duplicate is looked up by event among all ids ever given out.
SelectRemembered(r) ==
  /\ req[r].step = "select"
  /\ \E i \in 1..(nextId - 1) :
       req' = [req EXCEPT ![r] = [@ EXCEPT !.step = "answered", !.id = i]]
  /\ UNCHANGED <<row, phases, pc, att, nextId, spent>>

\* The row that made the insert a duplicate is gone: a webhook reads incident.id
\* of undefined, throws and answers 503; the form's route hands the result on as
\* it is, and answers 200 with a duplicate and no incident.
RowIsGone(r) ==
  IF req[r].event \in ManualEvents
  THEN [req[r] EXCEPT !.step = "answered", !.id = NoId]
  ELSE NoRequest

\* SELECT by (source, event_id): the row found is answered as a duplicate,
\* unless it was deleted in between.
SelectDuplicate(r) ==
  LET found == {i \in Ids : row[i].event = req[r].event}
  IN
  /\ req[r].step = "select"
  /\ \/ \E i \in found : req' = [req EXCEPT ![r] = [@ EXCEPT !.step = "answered", !.id = i]]
     \/ found = {} /\ req' = [req EXCEPT ![r] = RowIsGone(r)]
  /\ UNCHANGED <<row, phases, pc, att, nextId, spent>>

\* The caller has its answer and the connection is free for another request.
Close(r) ==
  /\ req[r].step = "answered"
  /\ req' = [req EXCEPT ![r] = NoRequest]
  /\ UNCHANGED <<row, phases, pc, att, nextId, spent>>

\* DELETE /:id, with the phases' ON DELETE CASCADE.
DeleteIncident(i) ==
  /\ Present(i)
  /\ row' = [row EXCEPT ![i] = NoRow]
  /\ phases' = [phases EXCEPT ![i] = NoPhases]
  /\ UNCHANGED <<pc, att, req, nextId, spent>>

\* Faulty: the attempts are not reset.
RetryKeepsAttempts(i) ==
  /\ row[i].status = "failed" /\ spent.retries < MaxRetries
  /\ UpdateRow(i, TRUE, [row[i] EXCEPT !.status = "queued", !.error = "none"])
  /\ spent' = [spent EXCEPT !.retries = @ + 1]
  /\ UNCHANGED <<phases, pc, att, req, nextId>>

\* POST /:id/retry. The old token, lease and phases stay.
RetryIncident(i) ==
  /\ row[i].status = "failed"
  /\ spent.retries < MaxRetries
  /\ UpdateRow(i, TRUE, [row[i] EXCEPT
       !.status = "queued", !.attempts = 0, !.error = "none"])
  /\ spent' = [spent EXCEPT !.retries = @ + 1]
  /\ UNCHANGED <<phases, pc, att, req, nextId>>

Next ==
  \/ \E w \in Workers : Work(w) \/ Crash(w) \/ Restart(w)
  \/ \E i \in Ids : Expire(i) \/ DeleteIncident(i) \/ RetryIncident(i)
  \/ \E r \in Requests : \/ \E e \in Events, o \in Outcomes : InsertIncident(r, e, o)
                         \/ SelectDuplicate(r)
                         \/ Close(r)

Spec == Init /\ [][Next]_vars

\* The 3 s timer keeps every live worker going, a dead process is restarted,
\* and time passes. Nobody is obliged to submit, delete or retry.
Fairness ==
  /\ \A w \in Workers : WF_vars(Work(w)) /\ WF_vars(Restart(w))
  /\ \A i \in Ids : WF_vars(Expire(i))

FairSpec == Spec /\ Fairness

-----------------------------------------------------------------------------
(* What the queue promises.                                                *)

\* No incident is claimed more than three times between two retries, and one
\* under investigation has been claimed (attempts, worker.ts:22-27).
AttemptsBounded ==
  \A i \in Ids : /\ row[i].attempts <= MaxAttempts
                 /\ row[i].status = "investigating" => row[i].attempts > 0

\* No two workers hold the token of the same row, whatever crashed, expired or
\* was retried meanwhile (the lease of worker.ts:23-28).
OneHolder ==
  \A i \in Ids : \A v, w \in Workers :
    /\ pc[v] \in Working /\ Holds(v, i)
    /\ pc[w] \in Working /\ Holds(w, i)
    => v = w

\* As long as leases outlast the work, no two workers are ever busy with the
\* same incident, not even after its deletion (worker.ts:14-15).
OneWorkerPerIncident ==
  \A v, w \in Workers :
    pc[v] \in Working /\ pc[w] \in Working /\ v # w => att[v].inc # att[w].inc

\* The report a human reviews is that of the attempt whose token the row
\* carries: a late worker cannot replace it with an older one (111-114).
ReportIsHolders ==
  \A i \in Ids : row[i].status = "review" =>
    row[i].report # NoToken /\ row[i].report = row[i].token

\* An incident handed to review shows every phase done, all of them inserted
\* and answered by the one attempt that wrote the report (63-114).
ReviewIsComplete ==
  \A i \in Ids : row[i].status = "review" =>
    /\ row[i].error = "none"
    /\ \A s \in Seqs : phases[i][s] =
         [status |-> "done", by |-> row[i].report, output |-> row[i].report]

\* A deleted incident never comes back and gains no phase rows, whatever the
\* worker that held it still does (routes.ts:59-61).
DeletedStaysDeleted ==
  [][\A i \in Ids : i < nextId /\ ~Present(i) =>
        ~Present(i)' /\ phases'[i] = NoPhases]_vars

\* While an investigation's lease is in force, only the worker holding it
\* touches the row; anyone else can only delete it (token guards, 33-38,
\* 111-114, 127-136).
LeaseProtectsRow ==
  [][\A i \in Ids :
       /\ row[i].status = "investigating" /\ row[i].lease = "held"
       /\ row'[i] # row[i] /\ Present(i)'
       => \/ row'[i] = [row[i] EXCEPT !.lease = "expired"]
          \/ \E w \in Workers : /\ pc'[w] # pc[w]
                                /\ att[w].inc = i /\ att[w].tok = row[i].token]_vars

\* The worker holding the lease token of incident i takes this step.
HolderSteps(i) ==
  \E w \in Workers : pc'[w] # pc[w] /\ att[w].inc = i /\ att[w].tok = row[i].token

\* The phase rows of an incident change only by its deletion or by the worker
\* that holds its lease token (the statements at 43, 66, 103 and 122 name no
\* token).
OnlyHolderWritesPhases ==
  [][\A i \in Ids : phases'[i] # phases[i] /\ Present(i)' => HolderSteps(i)]_vars

\* A phase row written by the attempt that owns the incident is cleared or
\* changed by that attempt alone: "Losing the lease must not overwrite the
\* progress of whoever now owns it." (worker.test.ts:84)
OwnersProgressStays ==
  [][\A i \in Ids, s \in Seqs :
       /\ phases[i][s].by = row[i].token /\ row[i].token # NoToken
       /\ phases'[i][s] # phases[i][s] /\ Present(i)'
       => HolderSteps(i)]_vars

\* An incident that was queued again is not handed to review before it has been
\* claimed again: "A retry re-runs every phase" (worker.ts:41).
\* The code does not keep this (README, section 3).
RetryRunsAgain ==
  [][\A i \in Ids : row[i].status = "queued" => row'[i].status # "review"]_vars

\* A 2xx answer names an incident that is stored for the reported event at the
\* moment of the answer (routes.ts:16-25). Only the form's duplicate may name
\* none (76), and then no incident of its event is stored.
AnswersAreStored ==
  [][\A r \in Requests :
       req[r].step # "answered" /\ req'[r].step = "answered" =>
         \/ /\ req'[r].id \in Ids
            /\ row'[req'[r].id].event = req'[r].event /\ row'[req'[r].id].status # "absent"
         \/ /\ req'[r].id = NoId /\ req'[r].event \in ManualEvents
            /\ \A i \in Ids : row'[i].event # req'[r].event]_vars

\* The lifecycle a reader of the incidents table sees.
Lifecycle == INSTANCE IntakeLifecycle WITH
  Incidents <- Ids,
  stage <- [i \in Ids |-> row[i].status],
  attempts <- [i \in Ids |-> row[i].attempts]

\* Seen from outside, the queue moves every incident along the lifecycle and
\* nowhere else: never from queued or failed to review, never out of review
\* except by deletion, never a fourth attempt (routes.ts and worker.ts).
FollowsLifecycle == Lifecycle!LifecycleSpec

Settled(i) == row[i].status \in {"review", "failed", "absent"}

\* Every incident queued or under investigation is eventually in review, failed
\* or deleted, although workers crash and statements fail.
EveryIncidentSettles ==
  \A i \in Ids : row[i].status \in {"queued", "investigating"} ~> Settled(i)

=============================================================================
