-------------------------- MODULE InvestigationRun --------------------------
(***************************************************************************)
(* The interactive investigations of one server process: startRun and its  *)
(* timeout, abort and fallback (runner.ts), the event stream of each run   *)
(* (events.ts), its recording and replay (recorder.ts), and the control of *)
(* the agent that drives it (agent/*.ts), with the sandbox directory each  *)
(* kind of run works in (sandbox.ts).                                      *)
(*                                                                         *)
(* Node runs one callback at a time: one action is what happens between    *)
(* two awaits. What the model says is left open; of the tools, only what   *)
(* they write to the findings and the sandbox is kept.                     *)
(***************************************************************************)
EXTENDS Naturals, Sequences, FiniteSets

CONSTANTS
  MaxRuns,      \* bound: runs ever started
  NumPhases,    \* phases of the conversation before the verification
  MaxTurns,     \* MAX_ITERATIONS_PER_PHASE
  MaxCalls,     \* bound: tool calls in one message of the model
  DemoModes,    \* subset of BOOLEAN: whether DEMO_MODE is set or no API key is
  Tapes         \* the recordings fallback.json may hold at start; <<>> for none

Runs == 1..MaxRuns
NoRun == 0
Kinds == {"incident", "attack"}
ReportPhase == NumPhases + 1
AssessPhase == NumPhases + 2

\* Events that only tell of progress (phase, thinking, narration, tool_call,
\* tool_result, hypothesis, evidence, root_cause, measurements) are left out.
Event == {"started", "patch", "test_red", "test_green", "report",
          "error", "fatal", "demo_mode", "resolved"}

\* What a stream tells.
Told(e) == {e[n] : n \in 1..Len(e)}

\* A recording is a live run that was promoted: resolved, and no replay itself.
Recording(t) == t \in Seq(Event) /\ "resolved" \in Told(t) /\ "demo_mode" \notin Told(t)

ASSUME RunAssumption ==
  /\ MaxRuns \in Nat /\ NumPhases \in Nat \ {0} /\ MaxTurns \in Nat \ {0}
  /\ MaxCalls \in Nat \ {0}
  /\ DemoModes \subseteq BOOLEAN
  /\ \A t \in Tapes : t = <<>> \/ Recording(t)

VARIABLES
  useDemo,   \* how the process was started
  run,       \* run[r]: where run r stands; of its tests, the patches they saw
  events,    \* events[r]: what its stream emitted
  current,   \* current[k]: the run of kind k that abort reaches
  sandbox,   \* sandbox[k]: the runs whose patches are in the directory of k
  saved,     \* the runs with a file in recordings/
  fallback   \* the events in recordings/fallback.json; <<>> for none

vars == <<useDemo, run, events, current, sandbox, saved, fallback>>

Live == {"prepare", "model", "tool", "verify", "save"}

NewRun(k) == [kind |-> k, pc |-> "none", phase |-> 0, turns |-> 0, calls |-> 0,
              aborted |-> FALSE, rootCause |-> FALSE, patched |-> FALSE,
              tests |-> "none", tree |-> {}, tape |-> <<>>, at |-> 0]

Init ==
  /\ useDemo \in DemoModes
  /\ run = [r \in Runs |-> NewRun("incident")]
  /\ events = [r \in Runs |-> <<>>]
  /\ current = [k \in Kinds |-> NoRun]
  /\ sandbox = [k \in Kinds |-> {}]
  /\ saved = {}
  /\ fallback \in Tapes

-----------------------------------------------------------------------------
(* How the code between two awaits goes on: a run and what it emits.       *)

Result(x, emitted) == [run |-> x, emits |-> emitted]
After(emitted, result) == [result EXCEPT !.emits = emitted \o @]

\* Run r goes on as `result`, and everything it emits reaches its stream.
Continue(r, result) ==
  /\ run' = [run EXCEPT ![r] = result.run]
  /\ events' = [events EXCEPT ![r] = @ \o result.emits]

Done(x) == [x EXCEPT !.pc = "done"]

\* Faulty: the replay goes on under the run's own abort, already fired.
FallbackAborted(x) ==
  IF fallback = <<>> THEN Result(Done(x), <<"fatal">>)
  ELSE Result([x EXCEPT !.pc = "replay", !.tape = fallback], <<"demo_mode">>)

\* runFallback: the recording from its beginning, under an abort of its own.
Fallback(x) ==
  IF fallback = <<>> THEN Result(Done(x), <<"fatal">>)
  ELSE Result([x EXCEPT !.pc = "replay", !.tape = fallback, !.aborted = FALSE],
              <<"demo_mode">>)

\* The live agent throws: an incident falls back, an attack does not.
Throw(x) == IF x.kind = "incident" THEN Fallback(x) ELSE Result(Done(x), <<"fatal">>)

\* runPhase up to its first request to the model.
EnterPhase(x, p) ==
  IF x.aborted THEN Throw(x)
  ELSE Result([x EXCEPT !.pc = "model", !.phase = p, !.turns = 0], <<>>)

\* Faulty: resolved whatever the tests of an attack said.
ReturnResolved(x) ==
  Result([x EXCEPT !.pc = IF x.kind = "incident" THEN "save" ELSE "done"], <<"resolved">>)

\* The driver returns. For an incident, the runner adds its own resolved.
Return(x) ==
  IF x.kind = "incident" THEN Result([x EXCEPT !.pc = "save"], <<"resolved">>)
  ELSE Result(Done(x), <<>>)

\* Green tests earn the report phase; without, the driver ends on an error.
Conclude(x) ==
  IF x.tests = "green" THEN EnterPhase(x, ReportPhase)
  ELSE After(<<"error">>, Return(x))

\* After the measurement, an attack not assessed yet has a phase for it.
AfterVerify(x) ==
  {Conclude(x)} \cup (IF x.kind = "attack" THEN {EnterPhase(x, AssessPhase)} ELSE {})

Verify(x) ==
  IF x.aborted THEN {Throw(x)}
  ELSE AfterVerify(x) \cup (IF x.patched THEN {Result([x EXCEPT !.pc = "verify"], <<>>)} ELSE {})

\* runPhase returned.
AfterPhase(x) ==
  CASE x.phase < NumPhases   -> {EnterPhase(x, x.phase + 1)}
    [] x.phase = NumPhases   -> Verify(x)
    [] x.phase = AssessPhase -> {Conclude(x)}
    [] x.phase = ReportPhase -> {After(e \o <<"resolved">>, Return(x)) : e \in {<<>>, <<"report">>}}

\* The loop takes another turn, unless the run was aborted; at the limit, the
\* phase is over.
AfterTurn(x) ==
  IF x.turns + 1 = MaxTurns THEN AfterPhase(x)
  ELSE IF x.aborted THEN {Throw(x)}
  ELSE {Result([x EXCEPT !.pc = "model", !.turns = @ + 1], <<>>)}

-----------------------------------------------------------------------------
(* The runner.                                                             *)

\* POST /api/investigations, /api/attack-investigations: the previous run of
\* the kind is told to stop, not waited for.
StartRun(k) ==
  \E r \in Runs :
    /\ run[r].pc = "none" /\ \A q \in Runs : q < r => run[q].pc # "none"
    /\ LET first == IF ~useDemo THEN Result([NewRun(k) EXCEPT !.pc = "prepare"], <<"started">>)
                    ELSE IF k = "incident" THEN Fallback(NewRun(k))
                    ELSE Result(Done(NewRun(k)), <<"fatal">>)
           old == current[k]
       IN /\ run' = [q \in Runs |-> IF q = r THEN first.run
                                    ELSE IF q = old THEN [run[q] EXCEPT !.aborted = TRUE]
                                    ELSE run[q]]
          /\ events' = [events EXCEPT ![r] = first.emits]
    /\ current' = [current EXCEPT ![k] = r]
    /\ UNCHANGED <<useDemo, sandbox, saved, fallback>>

\* Faulty: the timeout switches to the recording while the agent goes on.
TimeoutSwitches(r) ==
  /\ run[r].pc \in Live \ {"save"} /\ ~run[r].aborted /\ run[r].kind = "incident"
  /\ run' = [run EXCEPT ![r].aborted = TRUE]
  /\ events' = [events EXCEPT ![r] = Append(@, "demo_mode")]
  /\ UNCHANGED <<useDemo, current, sandbox, saved, fallback>>

\* INVESTIGATION_TIMEOUT_MS, ATTACK_TIMEOUT_MS.
Timeout(r) ==
  /\ run[r].pc \in Live /\ ~run[r].aborted
  /\ run' = [run EXCEPT ![r].aborted = TRUE]
  /\ UNCHANGED <<useDemo, events, current, sandbox, saved, fallback>>

\* saveRecording; an error of it is ignored.
Save(r) ==
  /\ run[r].pc = "save"
  /\ saved' \in {saved, saved \cup {r}}
  /\ Continue(r, Result(Done(run[r]), <<>>))
  /\ UNCHANGED <<useDemo, current, sandbox, fallback>>

\* replay wakes from its sleep, emits, and looks at the abort only then.
Replay(r) ==
  LET x == run[r]
      n == x.at + 1
      over == n = Len(x.tape) \/ x.aborted
  IN
  /\ x.pc = "replay"
  /\ Continue(r, Result([x EXCEPT !.at = n, !.pc = IF over THEN "done" ELSE @], <<x.tape[n]>>))
  /\ UNCHANGED <<useDemo, current, sandbox, saved, fallback>>

Emitted(r) == Told(events[r])

\* pnpm demo:promote; there is no patch without a root cause.
Promote(r) ==
  /\ r \in saved
  /\ {"resolved", "patch"} \subseteq Emitted(r)
  /\ fallback' = events[r]
  /\ UNCHANGED <<useDemo, run, events, current, sandbox, saved>>

-----------------------------------------------------------------------------
(* The agent.                                                              *)

\* prepareSandbox: the directory is pristine again, or the copy fails.
Prepare(r) ==
  /\ run[r].pc = "prepare"
  /\ \/ /\ sandbox' = [sandbox EXCEPT ![run[r].kind] = {}]
        /\ Continue(r, EnterPhase(run[r], 1))
     \/ /\ Continue(r, Throw(run[r]))
        /\ UNCHANGED sandbox
  /\ UNCHANGED <<useDemo, current, saved, fallback>>

\* Faulty: the signal is not handed to the request, which an abort leaves waiting.
ModelThrowsUnaborted(r) ==
  /\ run[r].pc = "model" /\ ~run[r].aborted
  /\ Continue(r, Throw(run[r]))
  /\ UNCHANGED <<useDemo, current, sandbox, saved, fallback>>

\* The request is aborted, the API fails, the model refuses or is cut off.
ModelThrows(r) ==
  /\ run[r].pc = "model"
  /\ Continue(r, Throw(run[r]))
  /\ UNCHANGED <<useDemo, current, sandbox, saved, fallback>>

\* A message without tool calls ends the phase.
EndTurn(r) ==
  /\ run[r].pc = "model" /\ ~run[r].aborted
  /\ \E result \in AfterPhase(run[r]) : Continue(r, result)
  /\ UNCHANGED <<useDemo, current, sandbox, saved, fallback>>

\* A paused message uses up a turn.
Pause(r) ==
  /\ run[r].pc = "model" /\ ~run[r].aborted
  /\ \E result \in AfterTurn(run[r]) : Continue(r, result)
  /\ UNCHANGED <<useDemo, current, sandbox, saved, fallback>>

\* A message with tool calls: the first one starts. The report has none.
CallTools(r) ==
  /\ run[r].pc = "model" /\ ~run[r].aborted /\ run[r].phase # ReportPhase
  /\ Continue(r, Result([run[r] EXCEPT !.pc = "tool", !.calls = 1], <<>>))
  /\ UNCHANGED <<useDemo, current, sandbox, saved, fallback>>

\* What a tool leaves in the findings, with the event that tells of it.
ToolOutcomes(x) ==
  {Result(x, <<>>), Result([x EXCEPT !.rootCause = TRUE], <<>>)}
  \cup {Result([x EXCEPT !.tests = t, !.tree = sandbox[x.kind]],
               <<IF t = "green" THEN "test_green" ELSE "test_red">>) : t \in {"red", "green"}}
  \cup (IF x.rootCause THEN {Result([x EXCEPT !.patched = TRUE], <<"patch">>)} ELSE {})

\* A tool returns. Next comes another call of the same message, whether or not
\* the run was aborted meanwhile, or the end of the turn.
ToolReturns(r) ==
  /\ run[r].pc = "tool"
  /\ \E outcome \in ToolOutcomes(run[r]) :
       LET y == outcome.run
           told == outcome.emits
       IN /\ \/ /\ y.calls < MaxCalls
                /\ Continue(r, Result([y EXCEPT !.calls = @ + 1], told))
             \/ \E result \in AfterTurn(y) : Continue(r, After(told, result))
          /\ sandbox' = IF told = <<"patch">>
                        THEN [sandbox EXCEPT ![y.kind] = @ \cup {r}] ELSE sandbox
  /\ UNCHANGED <<useDemo, current, saved, fallback>>

\* The measurement of the patched code returns, or fails and is left out.
Measure(r) ==
  /\ run[r].pc = "verify"
  /\ \E result \in AfterVerify(run[r]) : Continue(r, result)
  /\ UNCHANGED <<useDemo, current, sandbox, saved, fallback>>

Advance(r) ==
  \/ Prepare(r) \/ ModelThrows(r) \/ EndTurn(r) \/ Pause(r) \/ CallTools(r) \/ ToolReturns(r)
  \/ Measure(r) \/ Save(r) \/ Replay(r)

Next ==
  \/ \E k \in Kinds : StartRun(k)
  \/ \E r \in Runs : Advance(r) \/ Timeout(r) \/ Promote(r)

Spec == Init /\ [][Next]_vars

\* Every await ends: requests, tools and timers have time limits of their own.
Fairness == \A r \in Runs : WF_vars(Advance(r))

FairSpec == Spec /\ Fairness

-----------------------------------------------------------------------------
(* What a run promises.                                                    *)

\* From the switch on, the stream is the recording from its beginning and
\* nothing else: "the recording replays the investigation from the beginning
\* rather than resuming it" (runner.ts:36-42).
ReplayIsWhole ==
  \A r \in Runs : \A n \in 1..Len(events[r]) :
    events[r][n] = "demo_mode" =>
      SubSeq(events[r], n + 1, Len(events[r])) = SubSeq(run[r].tape, 1, run[r].at)

Superseded(r) == \E q \in Runs : q > r /\ run[q].pc # "none" /\ run[q].kind = run[r].kind

\* An incident run that no other run superseded ends by telling so, whatever
\* fails or times out: resolved or a fatal error reaches the client.
IncidentRunsTell ==
  \A r \in Runs :
    run[r].pc = "done" /\ run[r].kind = "incident" /\ ~Superseded(r)
      => Emitted(r) \cap {"resolved", "fatal"} # {}

\* An attack run is resolved only on the word of green tests, the last ones it
\* ran (attackInvestigator.ts:118-133).
ResolvedAttackIsGreen ==
  \A r \in Runs : run[r].kind = "attack" /\ "resolved" \in Emitted(r)
    => /\ run[r].tests = "green" /\ Emitted(r) \cap {"fatal", "error"} = {}
       /\ LET tests == {n \in 1..Len(events[r]) : events[r][n] \in {"test_red", "test_green"}}
          IN \E n \in tests : events[r][n] = "test_green" /\ \A m \in tests : m <= n

\* Every run that was started ends.
EveryRunEnds == \A r \in Runs : run[r].pc # "none" ~> run[r].pc = "done"

-----------------------------------------------------------------------------
(* What comments and documents say, and the code does not do.              *)

\* "so a run never inherits a previous run's patch" (sandbox.ts:24-25).
NeverInherits ==
  \A r \in Runs : run[r].tests # "none" /\ ~Superseded(r) => run[r].tree \subseteq {r}

=============================================================================
