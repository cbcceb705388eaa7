----------------------------- MODULE Dashboard -----------------------------
(***************************************************************************)
(* One analysis page of the dashboard: the hook useInvestigation with its  *)
(* reducer and its EventSource (apps/web/lib/useInvestigation.ts), the     *)
(* reveal of the charts (playback.ts), and the server's side of it: the    *)
(* route that streams a run (index.ts) and the streams themselves.         *)
(*                                                                         *)
(* A run is left open, but emits only what a run of its kind can emit:     *)
(* phases in order, tool calls one at a time, a report after green tests.  *)
(* A connection is a cursor into the run's stream; frames arrive in order. *)
(***************************************************************************)
EXTENDS Naturals, Sequences, FiniteSetsExt

CONSTANTS
  Kinds,       \* the kinds of page looked at, among "incident" and "attack"
  MaxRuns,     \* bound: runs ever started
  MaxCalls,    \* bound: tool calls over all runs
  MaxFailures, \* bound: connections lost and deaths of the server process
  Tellings,    \* what a tool tells between its call and its result, among Telling
  Total        \* points of the series a chart reveals

Telling == {"nothing", "item", "red", "green"}

ASSUME DashboardAssumption ==
  /\ Tellings \subseteq Telling
  /\ Kinds \subseteq {"incident", "attack"}
  /\ {MaxRuns, MaxCalls, MaxFailures, Total} \subseteq Nat

Runs == 1..MaxRuns
NoRun == 0
Phases == 1..6     \* investigate, hypothesize, prove, fix, verify, report
NoPhase == 0

\* "item" stands for the types the page appends to a list (hypothesis,
\* evidence, patch, thinking, narration), "test" for those of which it keeps the
\* latest; "fatal" is an error with fatal set. The argument is the phase, whether
\* the tests are green, or whether the duration is the real one.
Type == {"started", "demo_mode", "phase", "tool_call", "tool_result", "item", "test",
         "error", "fatal", "resolved"}
Event == [type: Type, arg: 0..6]
E(type) == [type |-> type, arg |-> 0]
Ev(type, arg) == [type |-> type, arg |-> arg]

Terminal(e) == e.type \in {"resolved", "fatal"}

VARIABLES
  stream,   \* stream[r]: the events of run r
  gen,      \* gen[r]: where the agent or the replay behind it stands
  current,  \* the run getRun finds
  conn,     \* conn[r]: the page's EventSource for run r
  view,     \* the hook's state
  page,     \* the rest of the page: its kind, a POST under way, the run it shows
  spent     \* tool calls and failures so far (bounds only)

vars == <<stream, gen, current, conn, view, page, spent>>

\* state: none, live, replay, stopping (a replay that was aborted) or over. assessed:
\* the attack driver's second entry to the verify phase has happened.
NoGen == [state |-> "none", phase |-> NoPhase, busy |-> FALSE, green |-> FALSE, assessed |-> FALSE]

\* state: none, connecting, open or closed. at: the next event this connection
\* delivers; done: its next frame is "done".
NoConn == [state |-> "none", at |-> 1, done |-> FALSE, opened |-> 0]
Closed == [NoConn EXCEPT !.state = "closed"]

\* status: idle, running, resolved or failed. tools: whether each tool call of the
\* activity list is pending.
InitialView(s) == [status |-> s, demo |-> FALSE, phase |-> NoPhase, count |-> 0, tools |-> <<>>,
                   items |-> 0, test |-> "none", error |-> FALSE, duration |-> 0]

\* source is sourceRef; run is the last run the page was given.
Init ==
  /\ stream = [r \in Runs |-> <<>>]
  /\ gen = [r \in Runs |-> NoGen]
  /\ current = NoRun
  /\ conn = [r \in Runs |-> NoConn]
  /\ view = InitialView("idle")
  /\ page \in [kind: Kinds, asking: {FALSE}, source: {NoRun}, run: {NoRun}]
  /\ spent = [calls |-> 0, failures |-> 0]

-----------------------------------------------------------------------------
(* The runs, as far as their events go.                                    *)

browser == <<conn, view, page>>

Emit(r, events) == stream' = [stream EXCEPT ![r] = @ \o events]
Incident == page.kind = "incident"

Unused(r) == gen[r].state = "none" /\ \A q \in Runs : q < r => gen[q].state # "none"

\* startRun aborts the run it replaces; only a replay notices between its events.
Superseded == [q \in Runs |-> IF q = current /\ gen[q].state = "replay"
                               THEN [gen[q] EXCEPT !.state = "stopping"] ELSE gen[q]]

Left == [NoGen EXCEPT !.state = "over"]

\* How a run begins: live, in demo mode, or with neither a key nor a recording.
Beginnings ==
  LET began(state, e) == [state |-> state, event |-> E(e)]
  IN {began("live", "started"), began("over", "fatal")}
     \cup (IF Incident THEN {began("replay", "demo_mode")} ELSE {})

Begin(r) ==
  /\ Unused(r)
  /\ \E b \in Beginnings :
       /\ gen' = [Superseded EXCEPT ![r] = [NoGen EXCEPT !.state = b.state]]
       /\ Emit(r, <<b.event>>)
  /\ current' = r

Under(r) == gen[r].state \in {"live", "replay"} /\ ~gen[r].busy

\* The report is written for green tests only. A recording starts over. Without
\* an assessment the attack driver enters the verify phase twice.
NextPhase(r) ==
  LET again == IF gen[r].state = "replay" /\ gen[r].phase = NoPhase THEN <<E("started")>> ELSE <<>>
  IN
  /\ Under(r)
  /\ \E p \in Phases :
       /\ p = gen[r].phase + 1 \/ (~Incident /\ p = 5 /\ gen[r].phase = 5 /\ ~gen[r].assessed)
       /\ p = 6 => gen[r].green
       /\ gen' = [gen EXCEPT ![r].phase = p, ![r].assessed = (p = gen[r].phase)]
       /\ Emit(r, again \o <<Ev("phase", p)>>)
  /\ UNCHANGED <<current, browser, spent>>

MayCall(g) == g.phase \in 1..4 \/ g.assessed

CallTool(r) ==
  /\ Under(r) /\ MayCall(gen[r]) /\ spent.calls < MaxCalls
  /\ spent' = [spent EXCEPT !.calls = @ + 1]
  /\ gen' = [gen EXCEPT ![r].busy = TRUE]
  /\ Emit(r, <<E("tool_call")>>)
  /\ UNCHANGED <<current, browser>>

Told(t) == CASE t = "nothing" -> <<>>
             [] t = "item" -> <<E("item")>>
             [] t = "red" -> <<Ev("test", 0)>>
             [] t = "green" -> <<Ev("test", 1)>>

ToolReturns(r) ==
  /\ gen[r].state \in {"live", "replay"} /\ gen[r].busy
  /\ \E t \in Tellings :
       /\ Emit(r, Told(t) \o <<E("tool_result")>>)
       /\ gen' = [gen EXCEPT ![r].busy = FALSE,
                             ![r].green = t = "green" \/ (@ /\ t # "red")]
  /\ UNCHANGED <<current, browser, spent>>

\* The driver's resolved has duration 0; the runner adds its own for an incident.
Resolutions == IF Incident THEN <<Ev("resolved", 0), Ev("resolved", 1)>> ELSE <<Ev("resolved", 0)>>

Finish(r) ==
  /\ Under(r) /\ gen[r].phase = 6
  /\ gen' = [gen EXCEPT ![r].state = "over"]
  /\ Emit(r, Resolutions)
  /\ UNCHANGED <<current, browser, spent>>

\* Tests never green: an error that is not fatal. An attack run ends on it.
EndUnverified(r) ==
  /\ Under(r) /\ gen[r].phase = 5 /\ ~gen[r].green
  /\ gen' = [gen EXCEPT ![r].state = "over"]
  /\ Emit(r, <<E("error")>> \o IF Incident THEN <<Ev("resolved", 1)>> ELSE <<>>)
  /\ UNCHANGED <<current, browser, spent>>

\* The agent throws: the recording takes over from its beginning, or a fatal
\* error if there is none, as for every attack.
Break(r) ==
  /\ Under(r) /\ gen[r].state = "live"
  /\ \/ /\ Incident
        /\ gen' = [gen EXCEPT ![r] = [NoGen EXCEPT !.state = "replay"]]
        /\ Emit(r, <<E("demo_mode")>>)
     \/ /\ gen' = [gen EXCEPT ![r].state = "over"]
        /\ Emit(r, <<E("fatal")>>)
  /\ UNCHANGED <<current, browser, spent>>

\* An aborted replay wakes from its pause, emits the event it paused for, stops.
StopReplay(r) ==
  LET g == gen[r]
      upcoming == IF g.busy THEN {Head(Told(t) \o <<E("tool_result")>>) : t \in Tellings}
                  ELSE IF g.phase = NoPhase THEN {E("started")}
                  ELSE {e \in Event :
                          \/ e = Ev("phase", g.phase + 1) /\ (g.phase + 1 = 6 => g.green)
                          \/ e = E("tool_call") /\ MayCall(g)
                          \/ e = E("error") /\ g.phase = 5 /\ ~g.green
                          \/ e = Ev("resolved", 0) /\ g.phase = 6}
  IN
  /\ g.state = "stopping"
  /\ \E e \in upcoming : Emit(r, <<e>>)
  /\ gen' = [gen EXCEPT ![r].state = "over"]
  /\ UNCHANGED <<current, browser, spent>>

Run(r) ==
  \/ NextPhase(r) \/ CallTool(r) \/ ToolReturns(r) \/ Finish(r) \/ EndUnverified(r)
  \/ Break(r) \/ StopReplay(r)

\* A run starts that this page does not follow, and whose events are therefore
\* left out: getRun forgets the one it follows.
StartsElsewhere(r) ==
  /\ Unused(r)
  /\ gen' = [Superseded EXCEPT ![r] = Left]
  /\ current' = r
  /\ UNCHANGED stream

OtherStarts(r) ==
  /\ StartsElsewhere(r)
  /\ UNCHANGED <<browser, spent>>

-----------------------------------------------------------------------------
(* The view.                                                               *)

\* Faulty: the timeline stays.
SwitchToDemoUncleared(v) == [v EXCEPT !.demo = TRUE, !.status = "running"]
\* The recording replays from the beginning: the timeline is cleared.
SwitchToDemo(v) == [InitialView("running") EXCEPT !.demo = TRUE]

\* Faulty: the count of the previous phase stays.
EnterPhaseUncounted(v, p) == [v EXCEPT !.phase = p]
EnterPhase(v, p) == [v EXCEPT !.phase = p, !.count = 0]

\* Faulty: only the message is kept.
FailNoStatus(v) == [v EXCEPT !.error = TRUE]
Fail(v) == [v EXCEPT !.error = TRUE, !.status = "failed"]

\* A result settles the last pending call; calls come one at a time, so their
\* names are left out.
LastPending(tools) == Max({0} \cup {i \in DOMAIN tools : tools[i]})

Reduce(v, e) ==
  CASE e.type = "started" -> [v EXCEPT !.status = "running"]
    [] e.type = "demo_mode" -> SwitchToDemo(v)
    [] e.type = "phase" -> EnterPhase(v, e.arg)
    [] e.type = "tool_call" -> [v EXCEPT !.tools = Append(@, TRUE)]
    [] e.type = "tool_result" ->
         [v EXCEPT !.tools = [i \in DOMAIN @ |-> @[i] /\ i # LastPending(@)], !.count = @ + 1]
    [] e.type = "item" -> [v EXCEPT !.items = @ + 1]
    [] e.type = "test" -> [v EXCEPT !.test = IF e.arg = 1 THEN "green" ELSE "red"]
    [] e.type = "error" -> [v EXCEPT !.error = TRUE]
    [] e.type = "fatal" -> Fail(v)
    [] e.type = "resolved" -> [v EXCEPT !.status = "resolved", !.phase = NoPhase, !.duration = e.arg]

\* The share of a series revealed once a phase is reached, in percent.
Percent == <<35, 55, 75, 90, 100, 100>>
Base(p) == IF p \in Phases THEN (Total * Percent[p]) \div 100 ELSE Total
\* Faulty: capped by the whole series only.
VisibleCountUncapped(v) ==
  IF v.status = "idle" \/ v.phase = NoPhase THEN 0
  ELSE IF v.status = "resolved" \/ Base(v.phase) + v.count > Total THEN Total
  ELSE Base(v.phase) + v.count
\* Points revealed: the phase's base, one more for each tool call in it, at most
\* the base of the phase that follows.
VisibleCount(v) ==
  IF v.status = "idle" \/ v.phase = NoPhase THEN 0
  ELSE IF v.status = "resolved" THEN Total
  ELSE LET count == Base(v.phase) + v.count
           nextBase == Base(v.phase + 1)
       IN IF count < nextBase THEN count ELSE nextBase

-----------------------------------------------------------------------------
(* The page and its connection.                                            *)

runs == <<stream, gen, current>>

\* A run whose source is closed for good reaches nobody: its events are dropped
\* from here on, though the run itself goes on.
Forget ==
  /\ stream' = [r \in Runs |-> IF conn'[r].state = "closed" THEN <<>> ELSE stream[r]]
  /\ gen' = [r \in Runs |-> IF conn'[r].state = "closed" THEN Left ELSE gen[r]]
  /\ UNCHANGED current

\* stop(): closes the source the ref holds.
Stopped == [r \in Runs |-> IF r = page.source THEN Closed ELSE conn[r]]

\* The button is disabled while the status is running.
Click ==
  /\ view.status # "running"
  /\ conn' = Stopped
  /\ Forget
  /\ view' = InitialView("running")
  /\ page' = [page EXCEPT !.asking = TRUE, !.source = NoRun, !.run = NoRun]
  /\ UNCHANGED spent

\* The POST is answered with the run it started, and the page opens a source.
Answered(r) ==
  /\ page.asking
  /\ Begin(r)
  /\ conn' = [conn EXCEPT ![r].state = "connecting"]
  /\ page' = [page EXCEPT !.asking = FALSE, !.source = r, !.run = r]
  /\ UNCHANGED <<view, spent>>

\* The POST fails, before or after the server started a run.
PostFails ==
  /\ page.asking
  /\ (\E r \in Runs : StartsElsewhere(r)) \/ UNCHANGED runs
  /\ view' = [view EXCEPT !.status = "failed", !.error = TRUE]
  /\ page' = [page EXCEPT !.asking = FALSE]
  /\ UNCHANGED <<conn, spent>>

\* A subscription starts with everything emitted so far.
Connect(r) ==
  /\ conn[r].state = "connecting" /\ current = r
  /\ conn' = [conn EXCEPT ![r] = [state |-> "open", at |-> 1, done |-> FALSE, opened |-> @.opened + 1]]
  /\ UNCHANGED <<runs, view, page, spent>>

\* 404: the server has no such run (any more), and the browser gives up.
Refused(r) ==
  /\ conn[r].state = "connecting" /\ current # r
  /\ conn' = [conn EXCEPT ![r] = Closed]
  /\ view' = IF view.status = "resolved" THEN view
             ELSE [view EXCEPT !.status = "failed", !.error = TRUE]
  /\ Forget
  /\ UNCHANGED <<page, spent>>

Deliver(r) ==
  /\ conn[r].state = "open" /\ ~conn[r].done /\ conn[r].at <= Len(stream[r])
  /\ LET e == stream[r][conn[r].at]
     IN /\ view' = Reduce(view, e)
        /\ conn' = [conn EXCEPT ![r].at = @ + 1, ![r].done = Terminal(e)]
  /\ UNCHANGED <<runs, page, spent>>

\* The "done" frame: stop().
Done(r) ==
  /\ conn[r].state = "open" /\ conn[r].done
  /\ conn' = Stopped
  /\ Forget
  /\ page' = [page EXCEPT !.source = NoRun]
  /\ UNCHANGED <<view, spent>>

\* A connection breaks; the browser reconnects.
Drop(r) ==
  /\ conn[r].state = "open" /\ spent.failures < MaxFailures
  /\ spent' = [spent EXCEPT !.failures = @ + 1]
  /\ conn' = [conn EXCEPT ![r].state = "connecting"]
  /\ UNCHANGED <<runs, view, page>>

\* The server process dies with its runs and comes back without any.
Kill ==
  /\ current # NoRun /\ spent.failures < MaxFailures
  /\ spent' = [spent EXCEPT !.failures = @ + 1]
  /\ gen' = [r \in Runs |-> IF gen[r].state = "none" THEN gen[r] ELSE [gen[r] EXCEPT !.state = "over"]]
  /\ current' = NoRun
  /\ conn' = [r \in Runs |-> IF conn[r].state = "open" THEN [conn[r] EXCEPT !.state = "connecting"]
                             ELSE conn[r]]
  /\ UNCHANGED <<stream, view, page>>

Connection(r) == Connect(r) \/ Refused(r) \/ Deliver(r) \/ Done(r)

Next ==
  \/ Click \/ PostFails \/ Kill
  \/ \E r \in Runs : Run(r) \/ OtherStarts(r) \/ Answered(r) \/ Connection(r) \/ Drop(r)

\* Runs move on, frames and answers arrive, the browser retries. Nothing is
\* assumed of the user, of other pages, or of failures.
Fairness ==
  /\ WF_vars(PostFails \/ \E r \in Runs : Answered(r))
  /\ \A r \in Runs : WF_vars(Run(r)) /\ WF_vars(Connection(r))

Spec == Init /\ [][Next]_vars /\ Fairness

-----------------------------------------------------------------------------
(* Properties.                                                             *)

Folded(events) ==
  LET after[n \in 0..Len(events)] ==
        IF n = 0 THEN InitialView("running") ELSE Reduce(after[n - 1], events[n])
  IN after[Len(events)]
Delivered(r) == SubSeq(stream[r], 1, conn[r].at - 1)
Shown == page.run # NoRun /\ conn[page.run].opened > 0 /\ conn[page.run].state = "open"

\* The run as it would be without the switch: what follows the last demo_mode.
Recording(events) ==
  LET switch == Max({0} \cup {i \in DOMAIN events : events[i].type = "demo_mode"})
  IN SubSeq(events, switch + 1, Len(events))

\* "replaying a recording produces exactly the same UI as the live run that
\* produced it" (useInvestigation.ts:88): over one connection, the view of a run
\* that fell back is, at every event, the view of its recording alone.
ReplayLooksLive ==
  Shown /\ conn[page.run].opened = 1
    => [view EXCEPT !.demo = FALSE] = Folded(Recording(Delivered(page.run)))

\* Over any number of connections, once the history has been delivered again the
\* page tells the same status, phase, progress, tests, error and duration as a
\* page that was connected all along. Its lists are not among them.
CaughtUpAgrees ==
  LET r == page.run
      all == Folded(Delivered(r))
  IN Shown /\ (conn[r].done \/ conn[r].at > Len(stream[r]))
       => \A f \in {"status", "demo", "phase", "count", "test", "error", "duration"} : view[f] = all[f]

\* The lists too: "a client that connects late — or reconnects — sees the whole
\* investigation" (index.ts:133-135), which has each call and each finding once.
\* The code does not keep this (README, section 3).
ReconnectShowsTheRun ==
  LET r == page.run
  IN Shown /\ (conn[r].done \/ conn[r].at > Len(stream[r])) => view = Folded(Delivered(r))

\* "fully shown once resolved" (docs/HLD.md:23): what visibleCount answers for a
\* page of attacks, the only one with charts that are revealed, that says resolved.
\* The code does not keep this (README, section 3).
ResolvedShowsAll ==
  page.kind = "attack" /\ view.status = "resolved" => VisibleCount(view) = Total

\* A chart never loses points while events of one connection arrive, except at
\* the switch to the recording, which starts over, and at the end.
RevealNeverShrinks ==
  [][(\E r \in Runs : Deliver(r) /\ conn[r].opened = 1
                      /\ stream[r][conn[r].at].type \notin {"demo_mode", "resolved"})
       => VisibleCount(view) <= VisibleCount(view')]_vars

\* A page that says "running" stops saying so: the run ends in an event that
\* tells it, or the connection gives up. The exception is a run that ended
\* without telling: an attack whose tests stayed red, or a replay stopped short.
EndedSilently ==
  /\ page.run # NoRun /\ conn[page.run].state = "open" /\ gen[page.run].state = "over"
  /\ \A i \in DOMAIN stream[page.run] : ~Terminal(stream[page.run][i])
PageSettles == view.status = "running" ~> (view.status # "running" \/ EndedSilently)

=============================================================================
