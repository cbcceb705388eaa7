------------------------------ MODULE Reporting ------------------------------
(***************************************************************************)
(* How strangers reach the queue: the report form, the shop's report and   *)
(* its log button (app/report, app/shop), the two relays that limit and    *)
(* sign on their behalf (app/api/report, app/api/logs, lib/rateLimit.ts,   *)
(* lib/intakeWebhook.ts), and the webhooks they call (incidents/routes.ts, *)
(* intake.ts) up to the row they insert, whose life is IntakeQueue's.      *)
(*                                                                         *)
(* The relay limits before it reads the body, and both limits before it    *)
(* waits for anything, so admitting is one step. A call that it has given  *)
(* up may still arrive.                                                    *)
(*                                                                         *)
(* A caller is the name in a header of its own choice, here a sequence of  *)
(* parts, of which both relays make keys of one table: so one caller may   *)
(* share a key with another, or with everyone.                             *)
(***************************************************************************)
EXTENDS Naturals, Sequences, FiniteSets

CONSTANTS
  Clients,        \* callers: what X-Forwarded-For names, or "direct"
  Limit,          \* PER_IP_LIMIT of each relay
  Ceiling,        \* GLOBAL_LIMIT of each relay
  Window,         \* PER_IP_WINDOW_MS = GLOBAL_WINDOW_MS, in ticks
  Second,         \* ticks of one second
  SignatureLife,  \* the replay window of a signature, in ticks
  MaxKeys,        \* MAX_KEYS
  Forms,          \* the reports considered
  MaxTime,        \* bound: ticks
  MaxSends        \* bound: requests admitted

Routes == {"report", "logs"}
Everyone == <<>>  \* an empty name is no caller's
MaxBodyBytes == 32000

ASSUME ReportingAssumption ==
  /\ Everyone \notin Clients
  /\ Limit \in [Routes -> Nat \ {0}] /\ Ceiling \in [Routes -> Nat \ {0}]
  /\ Window \in Nat \ {0} /\ Second \in Nat \ {0} /\ SignatureLife \in Nat
  /\ MaxKeys \in Nat /\ MaxTime \in Nat /\ MaxSends \in Nat
  /\ Forms \subseteq [title: Nat, service: Nat, description: Nat, width: 1..3]

VARIABLES
  now,       \* the clock of every process
  hits,      \* the limiter's table: key -> times of the hits it counted
  open,      \* the request of each client that the relay is serving
  answer,    \* the last answer of a relay: received, nothing (detected), refused (429,
             \* 413, 400), failed
  calls,     \* the calls of the webhooks, by the event they carry
  stored,    \* the events with a row in incoming_incidents
  admitted   \* history: the requests that passed the limits

vars == <<now, hits, open, answer, calls, stored, admitted>>

Init ==
  /\ now = 0
  /\ hits = << >>
  /\ open = [c \in Clients |-> [pc |-> "idle"]]
  /\ answer = [text |-> "none", event |-> 0]
  /\ calls = << >>
  /\ stored = {} /\ admitted = <<>>

-----------------------------------------------------------------------------
(* lib/rateLimit.ts                                                        *)

\* The times ascend, so what the filter leaves is a tail of them.
Live(times, t) ==
  SubSeq(times, Cardinality({i \in DOMAIN times : t - times[i] >= Window}) + 1, Len(times))

\* Faulty: the whole table goes.
PruneAll(table, t) == << >>

Prune(table, t) ==
  [k \in {key \in DOMAIN table : Live(table[key], t) # <<>>} |-> Live(table[k], t)]

\* Faulty: rounded down.
SecondsShort(ticks) == ticks \div Second

\* Math.max(1, Math.ceil(...))
Seconds(ticks) == IF ticks = 0 THEN 1 ELSE (ticks + Second - 1) \div Second

Take(table, key, limit, t) ==
  LET known == IF Cardinality(DOMAIN table) > MaxKeys THEN Prune(table, t) ELSE table
      times == IF key \in DOMAIN known THEN Live(known[key], t) ELSE <<>>
      ok    == Len(times) < limit
      kept  == IF ok THEN Append(times, t) ELSE times
  IN [ok   |-> ok,
      hits |-> [k \in DOMAIN known \cup {key} |-> IF k = key THEN kept ELSE known[k]],
      wait |-> IF ok THEN 0 ELSE Seconds(Window - (t - times[1]))]

\* A budget is a relay's, for one caller or for everyone. Keys are strings: the
\* log relay's begin with "logs:", and nothing stops a caller's name from that.
Budgets == Routes \X (Clients \cup {Everyone})
LimitOf(b) == IF b[2] = Everyone THEN Ceiling[b[1]] ELSE Limit[b[1]]
Key(b) ==
  LET name == IF b[2] = Everyone THEN <<"__global__">> ELSE b[2]
  IN IF b[1] = "report" THEN name ELSE <<"logs">> \o name

TakeOf(table, b, t) == Take(table, Key(b), LimitOf(b), t)

\* Both budgets are spent in turn: a request that the second refuses has used
\* a place of the first.
Spend(table, route, c, t) ==
  LET mine == TakeOf(table, <<route, c>>, t)
  IN IF mine.ok THEN TakeOf(mine.hits, <<route, Everyone>>, t) ELSE mine

-----------------------------------------------------------------------------
(* The three copies of the bounds on a report, over trimmed lengths.       *)

PageAccepts(f) ==
  f.title \in 3..200 /\ f.service \in 1..100 /\ f.description \in 10..12000

RelayAccepts(f) ==
  f.title \in 3..200 /\ f.service \in 1..100 /\ f.description \in 10..12000

SchemaAccepts(f) ==
  f.title \in 3..200 /\ f.service \in 1..100 /\ f.description \in 10..12000

\* Characters take one to three bytes; the JSON around them is left out.
Bytes(f) == (f.title + f.service + f.description) * f.width

-----------------------------------------------------------------------------
(* detectAnomaly, and the one batch the log relay sends: seconds ago,      *)
(* level, and whether the message tells of a crash or of memory.           *)

Line(ago, level, crash) == [ago |-> ago, level |-> level, crash |-> crash]

Template ==
  << Line(240, "info", FALSE), Line(215, "warn", FALSE), Line(190, "warn", FALSE),
     Line(165, "error", FALSE), Line(140, "error", FALSE), Line(120, "warn", FALSE),
     Line(100, "error", FALSE), Line(80, "error", TRUE), Line(60, "error", TRUE),
     Line(45, "error", FALSE), Line(30, "error", FALSE), Line(15, "fatal", FALSE),
     Line(5, "info", FALSE) >>

DetectAnomaly(batch) ==
  LET lines  == DOMAIN batch
      errors == Cardinality({n \in lines : batch[n].level \in {"error", "fatal"}})
      fatal  == \E n \in lines : batch[n].level = "fatal"
      crash  == \E n \in lines : batch[n].crash
  IN CASE \E n, m \in lines : batch[n].ago - batch[m].ago > 300 -> "invalid"
       [] fatal -> "critical"
       [] crash \/ (errors >= 5 /\ 5 * errors >= Len(batch)) -> "high"
       [] OTHER -> "none"

-----------------------------------------------------------------------------
(* The relays.                                                             *)

Tell(c, text, e) ==
  /\ open' = [open EXCEPT ![c] = [pc |-> "idle"]]
  /\ answer' = [text |-> text, event |-> e]

Refuse(c, take) ==
  /\ hits' = take.hits
  /\ Tell(c, "refused", 0)
  /\ UNCHANGED admitted

Admit(c, route, request) ==
  LET spent == Spend(hits, route, c, now)
  IN IF ~spent.ok THEN Refuse(c, spent)
     ELSE /\ Len(admitted) < MaxSends
          /\ admitted' = Append(admitted, [route |-> route, client |-> c, at |-> now])
          /\ hits' = spent.hits
          /\ open' = [open EXCEPT ![c] = request]
          /\ UNCHANGED answer

\* POST /api/report: a declared length is checked before the limits.
PostReport(c, form) ==
  /\ open[c].pc = "idle"
  /\ \/ /\ Bytes(form) > MaxBodyBytes
        /\ Tell(c, "refused", 0)
        /\ UNCHANGED <<hits, admitted>>
     \/ Admit(c, "report", [pc |-> "body", form |-> form, event |-> Len(admitted) + 1])
  /\ UNCHANGED <<now, calls, stored>>

\* /report checks what it sends, the shop does not.
SubmitReport(c)   == \E form \in Forms : PageAccepts(form) /\ PostReport(c, form)
ReportFromShop(c) == \E form \in Forms : PostReport(c, form)

\* postSignedWebhook, with an event id of this submission's own.
Call(e, route, form) ==
  calls' = [x \in DOMAIN calls \cup {e} |->
              IF x = e THEN [route |-> route, form |-> form, signed |-> now, pc |-> "sent"] ELSE calls[x]]

\* The body has arrived.
Relay(c) ==
  LET r == open[c] IN
  /\ r.pc = "body"
  /\ IF Bytes(r.form) > MaxBodyBytes THEN Tell(c, "refused", r.event) /\ UNCHANGED calls
     ELSE IF ~RelayAccepts(r.form) THEN Tell(c, "refused", r.event) /\ UNCHANGED calls
     ELSE /\ Call(r.event, "report", r.form)
          /\ open' = [open EXCEPT ![c] = [pc |-> "waiting", event |-> r.event]]
          /\ UNCHANGED answer
  /\ UNCHANGED <<now, hits, stored, admitted>>

\* POST /api/logs: the caller supplies nothing.
SendLogs(c) ==
  LET e == Len(admitted) + 1 IN
  /\ open[c].pc = "idle"
  /\ Admit(c, "logs", [pc |-> "waiting", event |-> e])
  /\ IF admitted' # admitted THEN Call(e, "logs", Template) ELSE UNCHANGED calls
  /\ UNCHANGED <<now, stored>>

\* Faulty: any answer will do.
AnswerTextsAny(route, pc) == {"received"}

\* The log relay takes a body that is lost on the way for one that detects nothing.
AnswerTexts(route, pc) ==
  CASE pc = "accepted" -> IF route = "logs" THEN {"received", "nothing"} ELSE {"received"}
    [] pc = "quiet"    -> {"nothing"}
    [] OTHER           -> {"failed"}

Without(e) == [x \in DOMAIN calls \ {e} |-> calls[x]]

\* The webhook has answered.
Return(c) ==
  LET e == open[c].event IN
  /\ open[c].pc = "waiting" /\ calls[e].pc # "sent"
  /\ \E text \in AnswerTexts(calls[e].route, calls[e].pc) :
       Tell(c, text, IF text = "failed" THEN 0 ELSE e)
  /\ calls' = Without(e)
  /\ UNCHANGED <<now, hits, stored, admitted>>

\* The call failed, or took more than ten seconds.
GiveUp(c) ==
  /\ open[c].pc = "waiting"
  /\ Tell(c, "failed", 0)
  /\ UNCHANGED <<now, hits, calls, stored, admitted>>

-----------------------------------------------------------------------------
(* The webhooks.                                                           *)

\* An answer to a relay that has given up goes nowhere.
Reply(e, status) ==
  calls' = IF \E c \in Clients : open[c].pc = "waiting" /\ open[c].event = e
           THEN [calls EXCEPT ![e] = [pc |-> status, route |-> @.route]] ELSE Without(e)

\* The checks in their order; without a pool, or when the statement fails, 503.
Refused(k) ==
  IF now - k.signed > SignatureLife THEN {"unauthorized"}
  ELSE {"unavailable"}
       \cup (IF k.route = "report"
             THEN (IF SchemaAccepts(k.form) THEN {} ELSE {"invalid"})
             ELSE CASE DetectAnomaly(k.form) = "invalid" -> {"invalid"}
                    [] DetectAnomaly(k.form) = "none" -> {"quiet"}
                    [] OTHER -> {})

Decline(e) ==
  /\ calls[e].pc = "sent"
  /\ \E status \in Refused(calls[e]) : Reply(e, status)
  /\ UNCHANGED <<now, hits, open, answer, stored, admitted>>

\* insertIncident: the answer to the statement may be lost.
Insert(e) ==
  /\ calls[e].pc = "sent" /\ Refused(calls[e]) = {"unavailable"}
  /\ stored' = stored \cup {e}
  /\ \E status \in {"accepted", "unavailable"} : Reply(e, status)
  /\ UNCHANGED <<now, hits, open, answer, admitted>>

Tick ==
  /\ now < MaxTime
  /\ now' = now + 1
  /\ UNCHANGED <<hits, open, answer, calls, stored, admitted>>

Next ==
  \/ \E c \in Clients : \/ SubmitReport(c) \/ ReportFromShop(c) \/ Relay(c)
                        \/ SendLogs(c) \/ Return(c) \/ GiveUp(c)
  \/ \E e \in DOMAIN calls : Decline(e) \/ Insert(e)
  \/ Tick

Spec == Init /\ [][Next]_vars

-----------------------------------------------------------------------------
(* What the reporting path promises.                                       *)

Admissions(P(_), t) ==
  Cardinality({n \in DOMAIN admitted : /\ P(admitted[n])
                                       /\ admitted[n].at \in t..(t + Window - 1)})

\* No window of ten minutes, wherever it starts, admits more than the limit of
\* one caller or of everyone, whatever the table forgot when it was pruned and
\* in whatever order both relays used it (rateLimit.ts, report/route.ts:34-38).
BudgetKept ==
  \A route \in Routes : \A t \in 0..now :
    /\ Admissions(LAMBDA a : a.route = route, t) <= Ceiling[route]
    /\ \A c \in Clients : Admissions(LAMBDA a : a.route = route /\ a.client = c, t) <= Limit[route]

\* Whoever would be refused now, and waits as long as the refusal says, finds
\* room in the budget that refused unless others take it meanwhile
\* (rateLimit.ts:44-46), or the key is that of a larger budget too, which may have
\* put more times into it than this one allows.
WaitIsEnough ==
  \A b \in Budgets :
    LET refusal == TakeOf(hits, b, now) IN
    ~refusal.ok =>
      \/ Len(Live(hits[Key(b)], now + refusal.wait * Second)) < LimitOf(b)
      \/ \E d \in Budgets : Key(d) = Key(b) /\ LimitOf(d) > LimitOf(b)

\* "Round up so the retry they are told about actually succeeds"
\* (report/route.ts:79): a report that is refused, and sent again after the wait it
\* was told, is admitted if nobody else came meanwhile.
\* The code does not keep this (README, section 3).
RetrySucceeds ==
  \A c \in Clients :
    LET refusal == Spend(hits, "report", c, now) IN
    ~refusal.ok => Spend(refusal.hits, "report", c, now + refusal.wait * Second).ok

\* A reporter who reads that the report was received, or an incident raised,
\* has a row in the queue; one who was refused has none. One who reads that it
\* could not be filed, or that nothing was detected, may have one all the same.
AnswersTellTruth ==
  /\ answer.text = "received" => answer.event \in stored
  /\ answer.text = "refused" => answer.event \notin stored

\* "The detector decides; this route reports what it decided" (logs/route.ts:105):
\* whoever is told that nothing was detected has no incident.
\* The code does not keep this (README, section 3).
NothingMeansNone == answer.text = "nothing" => answer.event \notin stored

=============================================================================
