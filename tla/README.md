# IncidentOS: specifications, model checking and proofs

IncidentOS is an AI site-reliability engineer: incidents reach it through
signed webhooks or a form, a worker investigates them phase by phase with a
language model, and a second, interactive path streams the investigation of a
demo incident (or of a demo attack) to a dashboard while it repairs the code of
a demo service in a sandbox. The server is one Node process per instance
(`server/src`), the state is in Postgres (`server/src/db/schema.sql`), and a
Next.js application (`apps/web`) relays reports and shows the results. All
paths below are relative to `src/`.

## 1. Inventory

| Component | Code | State | Operations | Interacts with |
|---|---|---|---|---|
| Intake queue and worker | `server/src/incidents/worker.ts`, `routes.ts`, `phases.ts`, `db/schema.sql` 123-161 | rows of `incoming_incidents` and `incident_phases`; per process `busy` and the locals of `investigateNext` | reap, claim, clear phases, insert/record/fail a phase, renew lease, hand over, fail; insert (webhook, form), delete, retry | the model API, Postgres, other API processes |
| Intake validation | `server/src/incidents/intake.ts`, the webhooks of `routes.ts` | none | signature check, schema, anomaly detection over log lines | the queue's insert |
| Rate limiter and relay | `apps/web/lib/rateLimit.ts`, `lib/intakeWebhook.ts`, `app/api/report`, `app/api/logs` | key -> window table | take, prune; check, sign and forward, answer | intake, the report and shop pages |
| Run orchestration | `server/src/runner.ts`, `events.ts`, `recorder.ts`, `index.ts` | `current` (run per kind), each run's event list, subscribers, timers | start, abort, timeout, fall back to the recording, SSE subscribe/replay | agent, run persistence, dashboard |
| Run persistence | `server/src/db/store.ts`, `pool.ts` | `runs`, `run_events` and derived tables; the writer's promise queue and failure latch | begin, record, fold, finalize, flush | Postgres |
| Recording promotion, CLI | `scripts/promote-recording.ts`, `server/src/cli.ts` | recordings on disk | save, promote | run orchestration |
| Agent and reporting tools | `server/src/agent/*`, `tools/*` | conversation, `Findings`, measurements | phases, turns; hypothesis, evidence, root cause, location, patch, tests, assessment | sandbox, event stream |
| Read-only tools, charts | `tools/searchLogs.ts` ..., `timeline.ts`, `security/index.ts` | files | filter, limit, join | agent, pages |
| Sandbox | `server/src/sandbox.ts` | one working copy per kind of run on disk | prepare, resolve a path, run tests, simulations | the tools of every run of that kind |
| Demo payments service | `demo-data/repository/payments-api` | settlement queue, running totals, attempts per address | capture, drain, reset, refund, issue a token; two simulations | the sandbox |
| Dashboard state | `apps/web/lib/useInvestigation.ts`, `playback.ts` | the reducer's state, the EventSource | reduce, start, reconnect, replay | SSE route |
| Incident page | `apps/web/app/dashboard/incident-analysis/page.tsx` | list, selection, detail, form, ids deleted | poll, select, report, delete, retry | intake routes |
| Accounts and sessions | `server/src/auth/*`, `apps/web/middleware.ts`, sign-in, sign-up, dashboard layout | `users`, the cookie, the page | sign up, in, out, `/me`, seed, redirect | Postgres, all pages |
| Generators, landing, charts, console | `scripts`, `components`, `app/page.tsx` | none kept | - | - |

What is hard here:

* **Concurrency.** Any number of API processes run the worker loop against the
  same two tables. Exclusion rests on one lease token and one `lease_until`
  column; every statement of the worker is separated from the next by an await,
  model calls take minutes, and rows can be reclaimed, retried, reaped or
  deleted in between. In one process, `startRun` aborts the previous run
  without waiting for it, and two runs share a directory. bcrypt is awaited
  between reading and writing `users`; React runs effects some time after the
  state they depend on was set.
* **Failure.** A process may die between any two statements; a statement may be
  refused, or commit while its answer is lost; the catch block's own statements
  may fail. Live runs time out and fall back to a recording on the same stream.
  A relay gives up on a call that may still arrive. An error in an async
  handler ends the process.
* **Ordering and duplication.** Reporters and forms send again; browsers
  reconnect and receive the history again; events are persisted through a queue
  of promises, and three readers fold them on their own.
* **Limits.** Three attempts per incident, sliding-window rate limits with a
  bounded key table, two copies of a token throttle's numbers.

What makes each component correct is listed with its module below, and, hazard
by hazard with the line where it bites, under `hazards` in `PROJECT.json`.

## 2. Modules

| Module | Role |
|---|---|
| `IntakeQueue` | the queue tables, the worker loop of any number of processes, the routes; crashes, failed statements, lease expiry |
| `IntakeLifecycle` | abstract specification: the life of one incident as a reader of the table sees it |
| `IntakeQueue_proofs` | inductive invariant `IInv`; the safety theorems, the completeness of reviews and the refinement that rest on it |
| `Reporting`, `Reporting_proofs` | the way of a stranger's report into the queue: forms, relays, limiter, signed webhooks |
| `RunWriter`, `RunWriter_proofs` | the statement queue of each run, its failure latch, the rows it leaves; its inductive invariant and theorems |
| `InvestigationRun`, `InvestigationRun_proofs` | runs of one process: start, supersede, time out, fall back, replay, record, promote; the agent's control; the sandbox directories |
| `AgentTools`, `AgentTools_proofs` | what one run establishes: tools with their guards, findings, measurements, and the two readers that rebuild the findings |
| `Lookups` | the tools that read and the two charts, beside `AgentTools` |
| `Dashboard` | one analysis page (hook, reducer, EventSource, reveal of the charts) and the SSE route it follows |
| `IncidentPage` | the page of reported incidents: two polling effects, a form, deletion and retry |
| `Pages_proofs` | the invariants and theorems of both pages |
| `Accounts`, `Accounts_proofs` | the process and its pool, users, sign-up to sign-out, cookies, the redirects of the pages |
| `Settlement`, `TokenThrottle`, `PaymentsApi`, `PaymentsApi_proofs` | the demo service's captures and refunds; its token endpoint; the processes that run them, with both simulations |
| `MC*` | constants for TLC |

A definition whose comment begins with "Faulty" is a plausible wrong version of
the definition after it; no action uses it. `PROJECT.json` names, for every
property, the one that breaks it.

### 2.1 `IntakeQueue` and `IntakeLifecycle`

| Model | Code |
|---|---|
| `row[i]` | one row of `incoming_incidents`; `"absent"` before insertion and after deletion; `created_at` order is the order of ids |
| `phases[i][s]` | the `incident_phases` row with `seq = s`; `by`/`output` name the attempt (by its lease token) that inserted it and whose text it holds |
| `pc[w]`, `att[w]` | where process `w` stands in `investigateNext`, with its local incident, token and `seq`; `"idle"` is between two ticks (`busy` is false) |
| `req[r]` | one HTTP request inside `insertIncident` |
| `Reap` `Claim` `ClearPhases` `InsertPhase` `CallModel` `RecordPhase` `RenewLease` `Review` `FailPhase` `FailIncident` | the statements of `investigateNext`, in that order |
| `InsertIncident` `SelectDuplicate` `DeleteIncident` `RetryIncident` | the statements of the routes |
| `Crash` `Restart` `Expire` | the environment |

One SQL statement is one step. A statement may succeed, be refused without
effect, or take effect while its answer is lost; the code cannot tell the last
two apart. `lease_until` is abstracted to NULL, in the future or in the past,
and `Expire` moves it. The constant `LeaseOutlastsWork` says whether the lease
of a live worker can expire: the code sets five minutes (`worker.ts:9`) and
renews it between phases, a model call has a limit of its own, but a process
that was suspended, or a query that hung, may still outlive the lease. Both
cases are checked. Lease tokens are model values; a claim takes one that is
used nowhere, as `randomUUID` does.

`SelectDuplicate` reads the row that the insert met. When it is gone, the webhooks
dereference nothing and answer 503 (`routes.ts:44`, 53), while the form's route
answers 200 with no incident (76): `ManualEvents` are the events of the form.

Phases and the report are not told apart by text: what matters is which attempt
wrote them.

`IntakeLifecycle` keeps only `stage` and `attempts` of each incident. Its
refinement mapping is the status and the attempts column; a deleted incident is
absent.

### 2.2 `RunWriter`

`emitted[r]` is the event stream of run `r`, `chain[r]` the statements in the
promise chain of its writer, `run`, `stored` and `folded` the rows of `runs`,
`run_events` and the derived tables. `Record` queues the two parts of
`record()` (store, then fold); `Execute`, `Fail` and `Skip` are the three ways
a queued statement goes (`enqueue`, 22-38); `Finalize` and `Flush` are the
`finally` block of the runner; `Kill` is the death of the process. The run is
left open: it may emit any sequence in which nothing follows a fatal error and
only a second `resolved` follows a `resolved`, the shape in which the runs of
`InvestigationRun` end.

A fold of one event may be several statements of one `enqueue`; they are one
step here, since the properties only tell apart whether the event reached the
derived tables. Without a pool nothing is written and nothing promised.

### 2.3 `InvestigationRun`

| Model | Code |
|---|---|
| `run[r]` | the locals of `startRun`, of the driver (`runInvestigation`, `runAttackInvestigation`) and of `runPhase`; `pc` is the await it stands at |
| `events[r]` | the run's `EventStream`, without the events that only tell of progress |
| `current[k]` | the map of `runner.ts:20`: the run an abort reaches |
| `sandbox[k]` | the directory of a kind, as the set of runs whose patches it holds |
| `saved`, `fallback` | `recordings/` and `recordings/fallback.json` |
| `useDemo` | how the process was configured |

Node runs one callback at a time, so a step is what happens between two awaits.
`EnterPhase`, `AfterTurn`, `AfterPhase`, `Verify`, `Conclude`, `Return`, `Throw`
and `Fallback` are the code in between, as operators from a run to the run and
the events it goes on with; the actions are the awaits that return
(`Prepare`, `ModelThrows`, `EndTurn`, `Pause`, `CallTools`, `ToolReturns`,
`Measure`, `Save`, `Replay`), the two timers (`Timeout`, and the sleeps of
`Replay`), and the outside world (`StartRun`, `Promote`).

What the model answers and what the tests say is left open; of the tools, only
a root cause, a patch and a test result remain; `AgentTools` has them all. The
code location an attack's patch needs is part of the root cause here. The baseline
measurement runs beside the agent and is read once; it is left out.

### 2.4 `AgentTools`

| Model | Code |
|---|---|
| `findings` | the `Findings` the tools of one run write (`tools/types.ts`): hypotheses, evidence for and against, the cause, patches, tests |
| `page`, `tables` | what the page's reducer and `RunWriter.fold` make of the run's events |
| `baseline`, `before`, `after` | the measurement beside the agent and the two a report compares, as the number of patches in the code each saw |
| `tree` | what a check of the sandbox's code would say; after a patch, anything |
| `pc`, `at` | the phase of the driver; the events of the recording replayed |

Here the model may call any tool in any phase but the report: what order there
is comes from the guards of the tools. A refused call changes nothing. Each
accepting tool is an action and emits its event; `Store` and `Show` are the two
readers that fold it. The baseline simulation reads the directory at some moment
between its start and the end of the prove phase, with the patches of that
moment. `Throw` is the fallback to the recording, with which an
incident's page starts again and its tables do not. The abandoned attempt's
remaining call, which may still write after an abort, is `InvestigationRun`'s.

### 2.5 `Lookups`

The tools that read and the charts are functions of files, and operators here:
`SearchLogs`, `SearchCode`, `Metrics`, `KubernetesEvents`, `DeploymentHistory`,
`AuthAttempts`, `SecurityEvents`, `LogTail`, `Timeline`, `Health`,
`AttackAnalysis`. They are compared with what they are said to answer over every file of the bound.
A time is a sequence (minute, second) and a time of less precision a prefix of
it, compared as the code compares the strings; bounds of both precisions are
asked for. `AnswersAreComplete` says what the code leaves out, `EndIsIncluded` what
its description says it does not. The
module extends `AgentTools` because its run is where an agent calls them; they
change none of its state.

### 2.6 `Dashboard`

| Model | Code |
|---|---|
| `stream[r]`, `gen[r]` | the run's `EventStream`, and where the agent or the replay that fills it stands |
| `current` | the run `getRun` finds; any other is a 404 |
| `conn[r]` | the page's EventSource for run `r`: a cursor into `stream[r]`, because a subscription starts with the whole history and frames arrive in order; `done` is the frame after a terminal event |
| `view` | `InvestigationState`: lists as counts, tool calls as pending or not |
| `page` | the kind of page, the POST under way, `sourceRef` |

`Reduce` and `VisibleCount` are the two pure functions, as operators. `Click`,
`Answered`, `PostFails` are `start`; `Deliver`, `Done`, `Refused` the three
listeners; `Connect` the route; `Drop` and `Kill` a lost connection and a
restarted server. The run is coarser than in `InvestigationRun`: it emits phases
in order, one tool call at a time, an end that fits its tests, and may break at
any point and start over from the recording. Runs the page does not follow
(`StartsElsewhere`), or whose source it closed (`Forget`), emit nothing here.
Percentages are exact; the code's floating-point product may floor one lower.
An agent awaits each tool before it calls the next, so tools have no names.

### 2.7 `Reporting`

| Model | Code |
|---|---|
| `hits`, `now` | the limiter's table, key -> times, and the clock (`rateLimit.ts`) |
| `Budgets`, `Key` | the limits of both relays, of one caller and of everyone; the key a budget is kept under |
| `open[c]`, `answer` | the request of a client the relay serves; the text a reporter reads last |
| `calls` | calls of the webhooks under way, by the event id they carry |
| `stored` | the events with a row in `incoming_incidents`: what `IntakeQueue` starts from |
| `admitted` | history: what passed the limits, and when |

Who a caller is, a header says (`report/route.ts:72-75`), which the caller
may choose; keys are strings put together from a prefix and that header, so two
budgets may share one. A caller here is a sequence of parts, `<<"logs", "a">>` the
one whose reports are counted where the log batches of `<<"a">>` are.

`Take` and `Prune` are `rateLimit.ts`; `Spend` is the two limits one after the
other, the first of which is used up also when the second refuses; `PostReport`, `ReportFromShop`, `SendLogs`
the callers; `Relay` signs and calls (`intakeWebhook.ts`), `GiveUp` is its
timeout, after which the call may still arrive; `Decline` and `Insert` are the
webhook, with its signature check, schema and `DetectAnomaly`; `Return` the answer on
its way back, whose body may be lost: `AnswerTexts` has what is then told. A form is the
lengths of its fields and the bytes of a character. The event id is minted per
relayed request, so a retry is a second event.

### 2.8 `Accounts`

`accounts` is `users`, `cookie[b]` the session token of a browser, `page[b]`
the page a visitor is on or on the way to and how far it is: going through the
middleware, asking `/me`, answered, shown; `job[b]` the form's request while
bcrypt runs; `api`, `database`, `ready` are the process, Postgres and whether
the pool came up. `Boot` and `SeedDemoUser` are `index.ts` and the seed;
`SignUp`/`CreateUser` and `SignIn`/`Compare` the two halves of the routes around
bcrypt; `Me` reads the row and answers; the answer may be lost, and the account
deleted, before `Arrive` shows the page or sends the visitor elsewhere;
`Middleware`, `GuestPage`, `Dashboard` say where. `existed[b]` is history: the
accounts there were when the layout began to ask. An async handler that throws is a `Crash`: Express 4 does
not catch it. `Outage` and `Delete` are the operator's.

### 2.9 `IncidentPage`

`poll` is the request or timer of each of the two effects, `dirty` the effects
whose dependencies changed since they ran: React runs them (`Commit`) some time
after the state was set, and an answer (`ShowList`, `ShowDetail`) may come in
between. An answer to a torn-down effect is ignored by its own flag, so only
the request of the running effect is kept. A timer and the request it leads to
are one step. `form` has the idempotency key the form keeps in its dataset.
`Create`, `Remove`, `Requeue` are the API, `Created`, `Deleted`, `Retried` what
the page does with the answers. Clicks find the effects of earlier clicks run.

### 2.10 `Settlement`, `TokenThrottle`, `PaymentsApi`

The service the agent repairs. `Settlement` has `processPayment`, the queue and
the running totals with their two ways of being cleared, and refunds in half
units; a payment has an id, which may be sent again, and an entry of the queue is
what the running code pushes: the request, with the payment in its body, or,
after a patch, a summary of it. `drainSettlementBatch` hands over the entries as
they are; `OnTop` is what a reader of summaries finds. `TokenThrottle` has
`issueToken` with its sliding window and the replay of the campaign. `PaymentsApi` runs them: a service asked for payments, one
asked for tokens, and the two simulations. A service is asked for one of the two
because their state is disjoint. The simulations may run patched code, which is
not in the repository: `keeps` is what the patched queue retains of a request,
`lockAfter`, `lockAnswer` and `limit` are the throttle's lockout, what it answers,
and the limit after a patch. The answer of a lock is any of the refusals, since
the regression test asks for none of them in particular
(`tests/auth-lockout.test.ts:42`).

## 3. Runs

| Run | Instance | Shows |
|---|---|---|
| `intake_recovery` | 2 workers (one without a key), 1 incident, 2 phases, 3 crashes, 1 refused statement, 1 retry, leases outlast work | `OneWorkerPerIncident`, `ReviewIsComplete`, the refinement `FollowsLifecycle`, `EveryIncidentSettles` |
| `intake_zombie` | 2 workers, 2 requests with an event of the form, 2 incidents, 1 phase, any fault, 1 retry, deletions, leases expire at any time | `ReportIsHolders`, `LeaseProtectsRow` survive a worker that outlives its lease; `DeletedStaysDeleted`, `AnswersAreStored` |
| `intake_zombie_phases` | 1 incident, 2 phases, no fault at all, leases expire at any time | **violated**: `OwnersProgressStays` |
| `writer` | 1 run of 5 events, one failed statement, one kill | `TimelineHasNoHoles`, `RowTellsTimeline`, `FinishedIsHonest`, `RunsLeaveRunning` |
| `run_overlap` | 2 runs of any kinds, 1 turn of up to 2 tool calls, live or demo mode, recordings by promotion | `ReplayIsWhole`, `IncidentRunsTell`, `ResolvedAttackIsGreen`, `EveryRunEnds` |
| `run_inherits` | 2 live runs, 2 turns | **violated**: `NeverInherits` |
| `agent_tools` | 3 hypotheses, 2 pieces of evidence each, 2 patches, a recording of 5 findings; files of up to 3 lines or 2 minutes | `ReadersAgree`, `FallbackStartsOver`, `VerdictsAreEarned`, `FixIsMeasuredLast`, `AnswersAreComplete`, `ChartsAgree` |
| `dashboard` | pages of both kinds, 2 runs, 1 tool call, 1 lost connection or restart, series of 2 points | `ReplayLooksLive`, `CaughtUpAgrees`, `RevealNeverShrinks`, `PageSettles` |
| `reporting` | 2 callers, the reports of one counted with the log batches of the other, limits 2 (reports) and 1 (logs), a table of 1 key, 2 sends, forms on and over each bound | `BudgetKept`, `WaitIsEnough`, `AnswersTellTruth` |
| `accounts` | 2 visitors with one address, the seeded one, 2 rows, any crash, outage, deletion, lost answer, fair loading | `AccountsAreDistinct`, `EntryNeedsAnAccount`, `NoRedirectLoop` |
| `incident_page` | 2 rows, 2 forms, 2 keys, any answer lost | `DeletedStaysGone`, `DetailIsSelected`, `OneRowPerForm`, `ListCatchesUp` |
| `payments` | 3 captures, 2 ids, 2 currencies; 2 addresses, 3 accounts, a campaign of 16 attempts with 3 hits; lockouts after 0 to 3 failures, with any answer | `BooksAgree`, `RefundsWithinCapture`, `ThrottleHolds`, `SimulationsTellTheFix` |

### What the violated runs show

Each is one line of `findings` in `PROJECT.json`, with the sentence of the
repository that the run contradicts.

* `intake_zombie_phases`: the statements on `incident_phases` (`worker.ts:43`,
  102-105, 119-126) carry no lease token. A worker that lost its lease between
  its claim and its first statement deletes the phase row that its successor has
  inserted.
* `run_inherits`: `startRun` does not wait for the run it aborts, and the tool
  calls of a message go on whatever the signal says, so a patch of the old run
  can land in the directory the new run has just reset.

### Formulas the code does not keep

The modules also state, next to what holds, what the repository says and its code
does not keep. No listed run checks these; each has a configuration with which
TLC finds a trace, e.g. `tlc -config MCReportingRetry.cfg MCReporting`.

| Formula | Configuration | The sentence, and what the trace shows |
|---|---|---|
| `RetryRunsAgain` | `MCIntakeZombieRetry` | "A retry re-runs every phase" (`worker.ts:41`). Neither the reap nor the retry (`routes.ts:89`) takes the lease token off the row; the worker of the reaped attempt, still running, hands the retried row to review, and no phase runs again. |
| `BaselineIsUnpatched` | `MCAgentBaseline` | "Baseline memory has to be measured before the agent touches anything." (`investigator.ts:50`; `attackInvestigator.ts:49`.) The simulation runs beside the agent (53, 74), and a patch may come before it reads the code. |
| `ReportedFixPasses` | `MCAgentUntested` | "The fix is verified. Write the incident report." (`prompts.ts:80`.) Green tests are not invalidated by a later patch (`applyPatch.ts:99-102`), and the report phase (`investigator.ts:120`) is entered for code no test has seen. |
| `EndIsIncluded` | `MCAgentEnd` | "only lines at or before this are returned" (`searchLogs.ts:36`). Times are compared as strings (66), so every line of a minute is later than an end that is that minute. |
| `ReconnectShowsTheRun` | `MCDashboardReconnect` | "a client that connects late — or reconnects — sees the whole investigation" (`index.ts:133-135`). The history is folded into the state that already has it (`useInvestigation.ts:332`): its lists double. |
| `ResolvedShowsAll` | `MCDashboardResolved` | "fully shown once resolved" (`docs/HLD.md:23`). `visibleCount` asks for the phase before the status (`playback.ts:29`): the charts of a resolved attack are empty. |
| `RetrySucceeds` | `MCReportingRetry` | "Round up so the retry they are told about actually succeeds" (`report/route.ts:79`). The caller's own budget is spent before the ceiling is asked, and is not given back. |
| `NothingMeansNone` | `MCReportingNothing` | "The detector decides; this route reports what it decided" (`logs/route.ts:105`). An answer whose body is lost is read as one that detected nothing (107). |
| `SettlementReadsCaptures` | `MCSettlementReads` | "settlement only ever reads the id, the amount and the currency" (`transactions.ts:11-12`). The drained entries are the queued requests, whatever the cast says (42), and have the payment in their body. |
| `CapturedOnce` | `MCCapturedOnce` | "Idempotency key, also used as the transaction id." (`types.ts:7`.) No capture looks for an earlier one of its id. |

### Smaller disagreements

Seen while modelling, without a formula of their own.

* Runs. A superseded live incident run treats the abort like a timeout and
  replays the recording up to `resolved`, while `runner.ts:138` speaks of aborted
  runs that emit no terminal event. A live incident run whose tests stayed red
  ends with `resolved` (`runner.ts:118`), is recorded, and passes the check of
  `demo:promote` for a verified fix (`README.md:289`). `store.ts:187-190` lists a process kill
  among the ends `finalize` covers, but the process that dies is the one that
  queues it: the last disjunct of `RunsLeaveRunning`. After a fallback the
  tables keep the abandoned attempt's findings (`FallbackStartsOver`).
* Tools and measurements. A vitest that wrote no report counts as no failure
  (`runTests.ts:52`). An attack may be patched after its replay
  was measured. A patch that only tightens the limit per address passes the
  check of the attack replay (`attackInvestigator.ts:101`) with no account
  locked. `search_code`'s count stops at its limit unannounced
  (`searchCode.ts:48-62`); the summary "in range" of `get_auth_attempts`
  (`getAuthAttempts.ts:74`) is of the whole file; `get_deployment_history` gives a redeployed version
  the status of its earlier deployment (59).
* Dashboard. An attack run whose tests stayed red ends without a terminal
  event, so its page says "running" until the connection breaks (`EndedSilently`
  in `PageSettles`). The page closes its source after the driver's
  `resolved`, whose duration is 0, and never sees the runner's second one.
* Reports. `README.md:105` has three reports per IP, the code five
  (`report/route.ts:34`). A caller that names itself `__global__` shares the key of
  everyone's ceiling, and one that names itself `logs:` and an address fills that
  address's log budget; the wait a refusal names is then not enough, which
  `WaitIsEnough` exempts. A body of 12 000 characters may exceed
  32 kB. "Unreachable" may still be stored, and the retry is a second incident.
* Accounts. A query that fails in a route of `auth/routes.ts` (60, 86, 100)
  ends the process, though `pool.ts:12-15` wants the server to go on without a
  database. `/me` answers 401 and clears the cookie when the pool is missing; a
  sign-out whose request fails leaves the cookie; a deleted account "stops being
  able to act" at `/me` only. Browser and middleware that reach different APIs
  could send a visitor in circles.
* Incident page. A form edited and sent again after a lost answer keeps the
  first text. A creation answered after Cancel and a new form closes the new
  one. Retry's failure is shown under whichever incident is selected.
* Payments. A refund of less than one unit gives 0, though "refund amount must
  be positive" (`refunds.ts:41-45`). A lock that answers `mfa_required` is taken by the
  replay for a password that fits, and one that answers `rate_limited` for the
  limit of an address, so that no account counts as locked; the regression test
  accepts both.

### Bounds, and why they are enough

* Two workers: the exclusion is between the holder and one that takes over; a
  third adds another successor of the same shape, and the exclusion properties
  are proved for any number. Two incidents where ids, deletion and re-submission
  matter, one where attempts and phases do; two phases tell the first, the next
  and the last apart; three crashes exhaust `MaxAttempts = 3`. Six tokens are
  no hidden bound of the passing runs: a claim always finds one that is fresh.
  `TokensSuffice` of `MCIntakeQueue` says so; no cfg lists it, since it is about the
  instances and not about the code, but TLC finds it true of both when it is
  added. Two requests tell the one that inserted from the one that
  selects; their event is the form's, which may be answered without an incident. A
  webhook's, which may not, is that of `intake_recovery`, and `AnswersAreStored` is
  proved for any mixture.
* One failed statement at any point: the failure latch and the catch block
  react to the first, and the statements of the catch block may be the one.
* Two runs: `current` holds one per kind, so a run is superseded by one other.
  One phase before the verification: those before it have the same control. One
  turn with two calls tells the next call from the end of the message and of the
  phase; `run_inherits` needs two turns. `AgentTools` has all phases.
* Three hypotheses: the cause, a tested and an untested alternative. Two
  patches: one before a measurement and one after. The recording shares an id
  with the live run. Three lines put a line before, within and after a range and
  a limit below the matches; two minutes with every partial series have each
  sample present in one file and missing in another.
* `Dashboard`: with two points the reveal's caps of neighbouring phases lie one
  point apart; one call tells a count that restarts from one that does not; what
  a second lost connection changes is relative to the first.
* `Reporting`: a table of one key is pruned with a live key in it; a window of two
  ticks can be left between two hits; two reports of one caller and a log batch
  of the other share a key whose limits are 2 and 1.
* `Accounts`: two sign-ups for one address, beside the seed's. Two rows: the
  address, deleted and taken again. One address does: rows of different addresses
  meet nowhere in the code, and the two safety properties are proved for any number.
* `IncidentPage`: two rows tell the selected one from the one before, two forms
  and two keys a resubmission from a new form.
* `payments`: the campaign keeps the proportions of `attack-sim.ts`: an address
  makes just as many attempts in a window as the limit allows, and the guesses
  before a hit fit into one. Lockouts reach from none to as many failures as
  there are guesses before a hit.

### Fairness

* `IntakeQueue`: the worker's timer fires and each of its statements returns
  (`Work`), a dead process is started again (`Restart`), time passes (`Expire`).
  Nobody must submit, delete or retry. Weak fairness is enough: each stays
  enabled until taken. A hung query (the pool sets no statement timeout) is
  excluded by `WF(Work)`; it would stop that process's queue.
* `RunWriter`: a promise chain goes on while the process lives; runs end, as
  `EveryRunEnds` shows.
* `InvestigationRun`: every await ends: requests have the SDK's timeout, tools
  run child processes with limits, sleeps elapse. Nothing is assumed of the
  run's own timeout: `EveryRunEnds` rests on the turn limit.
* `Dashboard`: the POST settles, frames in flight arrive and the browser
  retries a lost connection (`Connection`), runs go on (`Run`). Nobody must
  click, and no failure must happen.
* `Accounts`: a page that is on the way loads (`Middleware`) and the session
  fetch of a page ends, with an answer or without (`Me`, `Arrive`).
* `IncidentPage`: React commits (`Commit`, weak); a request made again every
  few seconds is answered some time and its answer shown, though some are lost
  (`Read("list")`, `ShowList`, strong: each failure disables them for a moment).

## 4. Proofs

Every theorem holds for all values of the constants that the named assumptions
of the modules allow.

`IntakeQueue_proofs` proves that `IInv` is inductive:

    IInv == TypeOK /\ LocalsOK /\ AttemptsCount /\ TokensDistinct /\ AbsentBlank

`LocalsOK` ties a worker's locals to where it stands, `AttemptsCount` bounds
what a claim may add to, `TokensDistinct` says no two workers and no two rows
share a token, `AbsentBlank` that an id not stored has a blank row and no
phases. The safety properties are not inductive without it: that a lease has one
holder, say, needs that a fresh token is really held by nobody.
From it follow `TypeOK`, `AttemptsBounded`, `OneHolder` (these two are left to
the proofs, no run checks them), `ReportIsHolders`, `LeaseProtectsRow`,
`DeletedStaysDeleted` and `AnswersAreStored`, the last through what each
statement of a request may answer: an answer without an incident is given to the
form alone, and when no row of its event is there. Assuming `LeaseOutlastsWork`,
`OneWorkerPerIncident` holds, and, assuming also that no answer is lost,
`IntakeQueue` implements `IntakeLifecycle`. These rest on a second invariant,
`HoldersWork`: the worker busy with a stored incident holds its lease. The
second assumption is needed: a lost answer of the hand-over lets the catch block
move a reviewed incident to failed.

`ReviewIsComplete` under `LeaseOutlastsWork` needs

    ReviewInv == HoldersWork /\ AllPhasesFit /\ ErrorCleared /\ ReviewIsComplete

`AllPhasesFit` says, for a worker at each statement, which phases of its
incident are done by its attempt, which one is running and that none follows;
nobody else writes them meanwhile, because of `HoldersWork`. Without the
assumption the property is false, and `intake_zombie` does not ask for it: a worker
that outlived its lease writes into its successor's phases. That is what
`intake_zombie_phases` shows, and the lease is the only reason why it does not
happen otherwise: assuming `LeaseOutlastsWork`, the same `OwnersProgressStays`
is a theorem (`HolderWritesPhases`), also with crashes, failed statements and lost
answers. It follows from the stronger `OnlyHolderWritesPhases`, that nobody
without the lease writes a phase at all, which no run checks.

`RunWriter_proofs` rests on one observation: the statements of a run have fixed
places (begin 0, store of event `s` at `2s+1`, its fold at `2s+2`, finalize
last), and the chain always holds the rest of that script from some place on.
What the tables hold is then a function of that place, which is the invariant
`Good(r)`; types, `FindingsAreStored` (proved only), `TimelineHasNoHoles`,
`RowTellsTimeline` and `FinishedIsHonest` follow for any number of runs, events,
failures and kills.

`AgentTools_proofs` proves

    IInv == TypeOK /\ ReadersAgree /\ CauseIsListed /\ VerdictsAreEarned /\ MeasuredInOrder

inductive. A verdict on the page is earned only if the page agrees with the
findings the guards look at, so `ReadersAgree` is part of the argument for
`VerdictsAreEarned`; `CauseIsListed` is what makes the count of two hypotheses
mean a competitor of the cause; `MeasuredInOrder` gives, for every phase, which
measurements can exist, from which `FixIsMeasuredLast` follows. It says nothing of
how old the code of the earlier measurement is beyond that it is no newer:
`BaselineIsUnpatched` is false (section 3).

`FallbackStartsOver` has its own invariant, `FallbackInv`: during a replay the page
is what a page makes of the recording's first `at` events, and the tables hold
the live run's findings and that page's together (`Both`). The page is a recursive
function of the recording; `TapeShows` proves that it satisfies its equation, by
the least number for which it would not.

`InvestigationRun_proofs` proves

    IInv == RunTypes /\ (\A r \in Runs : Good(run[r], events[r])) /\ Linked

`Good` relates one run to its stream: before the switch no `demo_mode`, after it
the recording up to where the replay stands (`Replays`); for an attack, what `tests`
says was the last test told, and nothing but a green one leads to a report
(`AttackTold`); for an incident, that it does not end untold (`IncidentTold`). The
code between two awaits is a set of operators that call each other
(`EnterPhase`, `AfterTurn`, `AfterPhase`, `Verify`, `Conclude`, `Return`, `Throw`,
`Fallback`), and each has a lemma that it leads from a working run to a good one,
in the order of the calls; an action then only adds its own events. `Linked` is
what an abort needs: it reaches the newest run of its kind, so that a replay
which was cut short was superseded. Assumed of the recordings, those a process
starts with and those it is given, is that they are recorded runs (`Recording`): no
`demo_mode` in them, a resolution at their end.

`Reporting_proofs` proves two invariants. `LimiterInv` gives every admission that is
still in the window a place of its own among the times that the table keeps for
its key: an injection, from which the budget follows by counting. Pruning,
filtering and appending are shown to move these places (`Keeps`, `Grows`) and to
leave the times ascending, so that what a filter keeps is a tail. Since a key is
pruned only when nothing of it is live, and the window that starts at any tick
was the current one at some moment, `BudgetKept` holds of every window. Nothing
is assumed of the keys: budgets may share one, and the times of a shared key are
the places of each of its budgets. `WaitIsEnough` follows from the order of the
times and the rounding up of seconds, for every budget whose key no larger
budget fills. `AnswerInv` follows an event through admission, call, row and
answer, each event in at most one place, from which `AnswersTellTruth`; that
`nothing` was told says nothing of the row, and the property does not claim it.

`PaymentsApi_proofs`: `BooksAgree`, which compares the payments themselves and
whose ids may repeat, and `RefundsWithinCapture` are inductive with
the types, once `Tally`, a recursive function, is shown to satisfy its equation
and to grow with the captures (`TallyAppend`). `ThrottleHolds` is about the verified
attempts of an address, of which the code keeps no record: its own list has the
refused ones too and is pruned. `ThrottleInv` compares the two from the end: each
verified attempt that still counts is no later than the recorded one in its
place (`Backs`). An attempt is verified only if less than the limit are recorded
in the window, so fewer than that were verified in it, and the spacing (`Spaced`)
goes on. The replay's clock jumps from slot to slot: `SlotsAscend` shows that the
slots never go back in time, for every campaign.

`SimulationsTellTheFix` is no property of every campaign. `ReplayAssumption` states
what `attack-sim.ts` chose its numbers for: one source for each address, intervals
of which no more than the limit fit into a window, guesses that fall into one
window with the password they precede, in slots of no other hit, and lockouts
that need no more of them. The script's own numbers meet them (2.2 s and 30 attempts a minute; 65
guesses within 47 s; hits at slots 3031, 3355 and 3557). From them `ReplayInv`
is inductive: of one address the recorded times are slots an interval apart
(`SlotsApart`, from the round and the source that each slot is of), so the limit is
never met; the guesses made so far before a hit are the last failures of its
account and all later than the window's start (`Guessed`), so that a lockout
has counted them when the password comes.

`Accounts_proofs`: types, `AccountsAreDistinct` and the action property
`EntryNeedsAnAccount`. The last needs an invariant, since a page is shown steps
after its row was read: `EntryInv` says that the account a page was answered with
is one of those there were when the layout began to ask (`existed`), and that a
session being checked is of such an account or of one that is gone. `Holder` is read in the step that inserts (the unique
index), so the distinctness is inductive with the types; the lemmas are about
sequences of rows that grow and lose rows.

`Pages_proofs`, of `Dashboard`:

    IInv == TypeOK /\ StreamInv /\ SourceInv /\ CursorInv /\ FirstInv /\ CatchUpInv

`StreamInv` is about the run (phases rise, results follow a phase, the generator
stands where its events say), `SourceInv` about the browser (one live source, of
the run the page shows), `CursorInv` about the frames (no terminal event before
the cursor, the last frame delivered is terminal exactly when the source is
done). `FirstInv` says that the view over a page's first connection is, but for
the demo flag, the fold of the recording in what was delivered: a replay that
starts over shows what a live run shows (`ReplayLooksLive`). After a lost
connection the view is ahead of the history that is sent again: `CatchUpInv` says
that a field in which the view differs from the fold of what was delivered since
is one that an event still to come sets, so that none of these fields differs
once the history is through (`CaughtUpAgrees`). The lists are not among them: they
double (`ReconnectShowsTheRun`). `RevealNeverShrinks`, an action property, follows
from `FirstInv`, since phases rise and each phase starts where the charts were.
The fold is a recursive function, and `FoldedIs` shows that it satisfies its equation.

The same module, of `IncidentPage`:

    IncidentIInv == IncidentTypeOK /\ DeletedStaysGone /\ DetailFollows /\ KeysFollow /\ OneRowPerForm

inductive. `DetailFollows`: unless the detail's effect is about to run again,
its request is for the selected incident. `KeysFollow`: rows, the form and the
submission under way agree on the key that goes with a form's number; that the
table has no row of a key therefore means it has none of the form. It follows
that `DeletedStaysGone`, `DetailIsSelected` and `OneRowPerForm` hold for any
number of incidents, forms and keys.

Only model-checked: liveness (`EveryIncidentSettles`, `RunsLeaveRunning`,
`EveryRunEnds`, `PageSettles`, `NoRedirectLoop`, `ListCatchesUp`), which is out
of the prover's reach; the look-ups and charts, which are folds and
selections of the community modules over files. Induction over data is done where
a definition is a recursive function of this project: the library's induction
theorems cannot be instantiated, but the least element of a set of naturals
(`LeastElement`, from well-foundedness) serves.

## 5. Not modelled

* SQL statements are atomic; `SELECT ... FOR UPDATE SKIP LOCKED` therefore
  never skips. A skipped row would be taken on a later tick.
* `GET /:id` reads incident and phases in two statements; the answers of reads
  are not state.
* Run ids are the time in milliseconds and could collide (`runner.ts:55`); runs
  have identities of their own in the model.
* The memory simulation's verdict: it compares readings of `process.memoryUsage`
  before and after a run, which are no state of the program. What the model has
  of it is the queue, with what each entry retains.
* A connection to Postgres that hangs; a sandbox preparation that fails
  half-way; the parsing of the simulations' and the test runner's output; leaving
  the analysis page during its POST; the text of prompts, reports, narration.
* bcrypt, JWT, HMAC, React's scheduler and Express are modelled by how the code
  uses them.
* The components listed `not_modelled` in `PROJECT.json`: the health snapshot of
  the demo service, the generators of fixture files, and pages that only draw
  (landing, console, charts, panels). They keep no state that anything waits
  for, so there is no behaviour of theirs to check.

## 6. Plan

1. Proofs: lemmas on what the look-ups select.
2. `InvestigationRun` composed with `RunWriter`: the rows of a run that fell
   back, statement by statement.
3. A refinement from `AgentTools` with `InvestigationRun`'s runs as its abstract
   specification: the tools as `ToolOutcomes`.
