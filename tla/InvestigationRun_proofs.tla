----------------------- MODULE InvestigationRun_proofs -----------------------
(***************************************************************************)
(* For any number of runs, phases, turns and calls: a replay is the whole  *)
(* recording and nothing else, an incident run that nothing superseded     *)
(* tells how it ended, and an attack is resolved on green tests only.      *)
(*                                                                         *)
(* The invariant is one predicate of a run and its stream, Good, kept by   *)
(* every way the code goes on between two awaits, and the few facts that   *)
(* relate runs to each other, Linked.                                      *)
(***************************************************************************)
EXTENDS InvestigationRun, SequenceTheorems, TLAPS

Working == {"prepare", "model", "tool", "verify"}
Tests == {"none", "red", "green"}
TestEvents == {"test_red", "test_green"}

RunRecord ==
  [kind: Kinds, pc: Live \cup {"none", "replay", "done"}, phase: 0..AssessPhase,
   turns: Nat, calls: Nat, aborted: BOOLEAN, rootCause: BOOLEAN, patched: BOOLEAN,
   tests: Tests, tree: SUBSET Runs, tape: Seq(Event), at: Nat]

RunTypes ==
  /\ run \in [Runs -> RunRecord]
  /\ events \in [Runs -> Seq(Event)]
  /\ current \in [Kinds -> Runs \cup {NoRun}]
  /\ sandbox \in [Kinds -> SUBSET Runs]
  /\ saved \in SUBSET Runs
  /\ fallback = <<>> \/ Recording(fallback)

-----------------------------------------------------------------------------
(* What holds of a run x and its stream e.                                 *)

\* The last tests the stream tells of were green.
GreenLast(e) ==
  \E n \in 1..Len(e) : /\ e[n] = "test_green"
                       /\ \A m \in n + 1..Len(e) : e[m] \notin TestEvents

\* Before the switch no demo_mode; after it, the recording up to where it is.
Aligned(e, tape, at) ==
  LET switch == Len(e) - at IN
  /\ at \in 0..Len(tape) /\ switch \in 1..Len(e)
  /\ e[switch] = "demo_mode"
  /\ \A n \in 1..switch - 1 : e[n] # "demo_mode"
  /\ \A n \in 1..at : e[switch + n] = tape[n]

Replays(x, e) ==
  /\ x.tape = <<>> => x.pc # "replay" /\ x.at = 0 /\ "demo_mode" \notin Told(e)
  /\ x.tape # <<>> => /\ x.pc \in {"replay", "done"}
                      /\ Recording(x.tape) /\ Aligned(e, x.tape, x.at)
  /\ x.pc = "replay" => x.at < Len(x.tape)

AttackTold(x, e) ==
  /\ x.pc \notin {"save", "replay"}
  /\ x.tests = "green" => GreenLast(e)
  /\ x.phase = ReportPhase => x.tests = "green" /\ x.pc # "tool"
  /\ x.pc # "done" => Told(e) \cap {"resolved", "fatal", "error"} = {}
  /\ "resolved" \in Told(e) => x.tests = "green" /\ Told(e) \cap {"fatal", "error"} = {}

IncidentTold(x, e) ==
  /\ x.pc = "save" => "resolved" \in Told(e)
  /\ x.pc = "done" /\ x.tape = <<>> => Told(e) \cap {"resolved", "fatal"} # {}
  /\ x.pc = "done" /\ x.tape # <<>> => x.aborted \/ x.at = Len(x.tape)

Good(x, e) ==
  /\ Replays(x, e)
  /\ x.kind = "attack" => AttackTold(x, e)
  /\ x.kind = "incident" => IncidentTold(x, e)

Started(r) == run[r].pc # "none"

\* What relates a run to the others: runs start in order, abort reaches the
\* last of its kind, a replay is cut short only by a newer run, and what is
\* saved is a live run that is over.
Linked ==
  /\ \A r, q \in Runs : q < r /\ Started(r) => Started(q)
  /\ \A k \in Kinds : current[k] \in Runs => Started(current[k]) /\ run[current[k]].kind = k
  /\ \A r \in Runs : run[r].tape # <<>> /\ run[r].aborted => Superseded(r)
  /\ \A r \in saved : run[r].pc = "done" /\ run[r].tape = <<>>

IInv == RunTypes /\ (\A r \in Runs : Good(run[r], events[r])) /\ Linked

-----------------------------------------------------------------------------
(* Streams.                                                                *)

LEMMA ToldConcat ==
  ASSUME NEW e \in Seq(Event), NEW s \in Seq(Event)
  PROVE  e \o s \in Seq(Event) /\ Told(e \o s) = Told(e) \cup Told(s)
<1>1. e \o s \in Seq(Event) /\ Len(e \o s) = Len(e) + Len(s)
  OBVIOUS
<1>2. ASSUME NEW n \in 1..Len(e) + Len(s)
      PROVE  (e \o s)[n] \in Told(e) \cup Told(s)
  <2>1. CASE n <= Len(e)
    BY <2>1 DEF Told
  <2>2. CASE n > Len(e)
    <3>1. n - Len(e) \in 1..Len(s) /\ (e \o s)[n] = s[n - Len(e)]
      BY <2>2
    <3>. QED  BY <3>1 DEF Told
  <2>. QED  BY <2>1, <2>2
<1>3. ASSUME NEW n \in 1..Len(e)
      PROVE  e[n] \in Told(e \o s)
  <2>1. n \in 1..Len(e \o s) /\ (e \o s)[n] = e[n]
    BY <1>1
  <2>. QED  BY <2>1 DEF Told
<1>4. ASSUME NEW n \in 1..Len(s)
      PROVE  s[n] \in Told(e \o s)
  <2>1. Len(e) + n \in 1..Len(e \o s) /\ (e \o s)[Len(e) + n] = s[n]
    BY <1>1
  <2>. QED  BY <2>1 DEF Told
<1>. QED  BY <1>1, <1>2, <1>3, <1>4 DEF Told

LEMMA ToldShort ==
  /\ Told(<<>>) = {}
  /\ \A a \in Event : <<a>> \in Seq(Event) /\ Told(<<a>>) = {a}
  /\ \A a, b \in Event : <<a, b>> \in Seq(Event) /\ Told(<<a, b>>) = {a, b}
BY DEF Told

LEMMA EventNames ==
  {"started", "patch", "test_red", "test_green", "report", "error", "fatal",
   "demo_mode", "resolved"} \subseteq Event
BY DEF Event

LEMMA ToldOne ==
  ASSUME NEW e \in Seq(Event), NEW a \in Event
  PROVE  /\ <<a>> \in Seq(Event) /\ e \o <<a>> \in Seq(Event)
         /\ Told(e \o <<a>>) = Told(e) \cup {a}
<1>1. <<a>> \in Seq(Event) /\ Told(<<a>>) = {a}
  BY ToldShort
<1>. QED  BY <1>1, ToldConcat

\* Green tests stay the last ones until there are others.
LEMMA GreenKept ==
  ASSUME NEW e \in Seq(Event), NEW s \in Seq(Event),
         GreenLast(e), Told(s) \cap TestEvents = {}
  PROVE  GreenLast(e \o s)
<1>1. PICK n \in 1..Len(e) : /\ e[n] = "test_green"
                             /\ \A m \in n + 1..Len(e) : e[m] \notin TestEvents
  BY DEF GreenLast
<1>2. n \in 1..Len(e \o s) /\ (e \o s)[n] = "test_green"
  BY <1>1
<1>3. ASSUME NEW m \in n + 1..Len(e \o s)
      PROVE  (e \o s)[m] \notin TestEvents
  <2>1. CASE m <= Len(e)
    BY <1>1, <2>1
  <2>2. CASE m > Len(e)
    <3>1. m - Len(e) \in 1..Len(s) /\ (e \o s)[m] = s[m - Len(e)]
      BY <2>2
    <3>. QED  BY <3>1 DEF Told
  <2>. QED  BY <2>1, <2>2
<1>. QED  BY <1>2, <1>3 DEF GreenLast

LEMMA GreenNow ==
  ASSUME NEW e \in Seq(Event)
  PROVE  GreenLast(e \o <<"test_green">>)
<1>1. LET f == e \o <<"test_green">> IN
        /\ Len(f) = Len(e) + 1 /\ f[Len(e) + 1] = "test_green"
  OBVIOUS
<1>. QED  BY <1>1 DEF GreenLast

\* The switch, and one event of the recording more.
LEMMA AlignedStart ==
  ASSUME NEW e \in Seq(Event), NEW tape \in Seq(Event), "demo_mode" \notin Told(e)
  PROVE  Aligned(e \o <<"demo_mode">>, tape, 0)
<1>1. LET f == e \o <<"demo_mode">> IN
        /\ Len(f) = Len(e) + 1 /\ f[Len(e) + 1] = "demo_mode"
        /\ \A n \in 1..Len(e) : f[n] = e[n]
  OBVIOUS
<1>. QED  BY <1>1 DEF Aligned, Told

LEMMA AlignedNext ==
  ASSUME NEW e \in Seq(Event), NEW tape \in Seq(Event), NEW at \in Nat,
         Aligned(e, tape, at), at < Len(tape)
  PROVE  Aligned(e \o <<tape[at + 1]>>, tape, at + 1)
<1>. DEFINE f == e \o <<tape[at + 1]>>
            switch == Len(e) - at
<1>1. /\ Len(f) = Len(e) + 1 /\ f[Len(e) + 1] = tape[at + 1]
      /\ \A n \in 1..Len(e) : f[n] = e[n]
  OBVIOUS
<1>2. switch = Len(f) - (at + 1) /\ at + 1 \in 0..Len(tape) /\ switch \in 1..Len(f)
  BY <1>1 DEF Aligned
<1>3. f[switch] = "demo_mode" /\ \A n \in 1..switch - 1 : f[n] # "demo_mode"
  BY <1>1 DEF Aligned
<1>4. ASSUME NEW n \in 1..at + 1
      PROVE  f[switch + n] = tape[n]
  <2>1. CASE n <= at
    BY <1>1, <2>1 DEF Aligned
  <2>2. CASE n = at + 1
    BY <1>1, <2>2 DEF Aligned
  <2>3. n <= at \/ n = at + 1
    OBVIOUS
  <2>. QED  BY <2>1, <2>2, <2>3
<1>. QED  BY <1>2, <1>3, <1>4 DEF Aligned

-----------------------------------------------------------------------------
(* How the code goes on between two awaits.                                *)

\* Run x with stream e may go on as `result`.
Goes(x, e, result) ==
  /\ result \in [run: RunRecord, emits: Seq(Event)]
  /\ result.run.kind = x.kind /\ result.run.pc # "none"
  /\ Good(result.run, e \o result.emits)
  /\ result.run.tape # <<>> /\ result.run.aborted => x.tape # <<>> /\ x.aborted

LEMMA FallbackGoes ==
  ASSUME fallback = <<>> \/ Recording(fallback),
         NEW x \in RunRecord, NEW e \in Seq(Event),
         x.kind = "incident", x.tape = <<>>, Replays(x, e)
  PROVE  Goes(x, e, Fallback(x))
<1>1. CASE fallback = <<>>
  <2>. DEFINE y == [x EXCEPT !.pc = "done"]
  <2>1. Fallback(x) = Result(y, <<"fatal">>)
    BY <1>1 DEF Fallback, Done
  <2>2. y \in RunRecord /\ y.kind = x.kind /\ y.tape = <<>> /\ y.at = x.at /\ y.pc = "done"
    BY DEF RunRecord
  <2>. HIDE DEF y
  <2>3. e \o <<"fatal">> \in Seq(Event) /\ Told(e \o <<"fatal">>) = Told(e) \cup {"fatal"}
    BY ToldOne, EventNames
  <2>4. Replays(y, e \o <<"fatal">>)
    BY <2>2, <2>3 DEF Replays
  <2>5. IncidentTold(y, e \o <<"fatal">>)
    BY <2>2, <2>3 DEF IncidentTold
  <2>. QED  BY <2>1, <2>2, <2>4, <2>5, ToldOne, EventNames DEF Goes, Good, Result
<1>2. CASE Recording(fallback) /\ fallback # <<>>
  <2>. DEFINE y == [x EXCEPT !.pc = "replay", !.tape = fallback, !.aborted = FALSE]
  <2>1. Fallback(x) = Result(y, <<"demo_mode">>)
    BY <1>2 DEF Fallback
  <2>2. y \in RunRecord /\ y.kind = x.kind /\ y.pc = "replay" /\ y.tape = fallback
        /\ y.at = 0 /\ y.aborted = FALSE
    BY <1>2 DEF RunRecord, Recording, Replays
  <2>. HIDE DEF y
  <2>3. Aligned(e \o <<"demo_mode">>, fallback, 0)
    BY <1>2, AlignedStart DEF Replays, Recording
  <2>4. 0 < Len(fallback)
    BY <1>2 DEF Recording
  <2>5. Replays(y, e \o <<"demo_mode">>)
    BY <1>2, <2>2, <2>3, <2>4 DEF Replays
  <2>6. IncidentTold(y, e \o <<"demo_mode">>)
    BY <2>2 DEF IncidentTold
  <2>7. <<"demo_mode">> \in Seq(Event)
    BY ToldOne, EventNames
  <2>. QED  BY <2>1, <2>2, <2>5, <2>6, <2>7 DEF Goes, Good, Result
<1>. QED  BY <1>1, <1>2

\* A run at work: prepared, waiting for the model or a tool, or measuring.
Works(x, e) == x \in RunRecord /\ e \in Seq(Event) /\ x.pc \in Working /\ Good(x, e)

FallbackFit == fallback = <<>> \/ Recording(fallback)

LEMMA WorksLive ==
  ASSUME NEW x, NEW e, Works(x, e)
  PROVE  /\ x \in RunRecord /\ e \in Seq(Event) /\ x.kind \in Kinds /\ x.tape = <<>>
         /\ Replays(x, e) /\ "demo_mode" \notin Told(e)
         /\ x.kind = "attack" => /\ AttackTold(x, e)
                                 /\ Told(e) \cap {"resolved", "fatal", "error"} = {}
BY DEF Works, Working, Good, Replays, AttackTold, RunRecord

\* What a run tells next, and how it stands then, when it stays live or ends.
LEMMA LiveGoes ==
  ASSUME NEW x, NEW e, Works(x, e), NEW y \in RunRecord, NEW s \in Seq(Event),
         y.kind = x.kind, y.tape = <<>>, y.at = x.at,
         y.pc \in Working \cup {"save", "done"}, "demo_mode" \notin Told(s),
         x.kind = "attack" => AttackTold(y, e \o s),
         x.kind = "incident" => IncidentTold(y, e \o s)
  PROVE  Goes(x, e, Result(y, s))
<1>1. Replays(x, e) /\ x.tape = <<>> /\ "demo_mode" \notin Told(e) /\ e \in Seq(Event)
  BY WorksLive
<1>2. "demo_mode" \notin Told(e \o s)
  BY <1>1, ToldConcat
<1>3. Replays(y, e \o s)
  BY <1>1, <1>2 DEF Replays, Working
<1>. QED  BY <1>3 DEF Goes, Good, Result, Working

LEMMA ThrowGoes ==
  ASSUME FallbackFit, NEW x, NEW e, Works(x, e)
  PROVE  Goes(x, e, Throw(x))
<1>0. x \in RunRecord /\ x.tape = <<>>
  BY WorksLive
<1>1. CASE x.kind = "incident"
  BY <1>1, FallbackGoes, WorksLive DEF Throw, FallbackFit
<1>2. CASE x.kind = "attack"
  <2>. DEFINE y == [x EXCEPT !.pc = "done"]
  <2>1. Throw(x) = Result(y, <<"fatal">>)
    BY <1>2 DEF Throw, Done
  <2>2. y \in RunRecord /\ y.kind = x.kind /\ y.tape = <<>> /\ y.at = x.at /\ y.pc = "done"
        /\ y.tests = x.tests /\ y.phase = x.phase
    BY <1>0 DEF RunRecord
  <2>3. /\ <<"fatal">> \in Seq(Event) /\ Told(<<"fatal">>) = {"fatal"}
        /\ Told(e \o <<"fatal">>) = Told(e) \cup {"fatal"}
    BY ToldOne, ToldShort, EventNames, WorksLive
  <2>4. x.tests = "green" => GreenLast(e \o <<"fatal">>)
    BY <1>2, <2>3, GreenKept, WorksLive DEF AttackTold, TestEvents
  <2>. HIDE DEF y
  <2>5. AttackTold(y, e \o <<"fatal">>)
    BY <1>2, <2>2, <2>3, <2>4, WorksLive DEF AttackTold
  <2>. QED  BY <1>2, <2>1, <2>2, <2>3, <2>5, LiveGoes
<1>. QED  BY <1>1, <1>2, WorksLive DEF Kinds

LEMMA EnterPhaseGoes ==
  ASSUME FallbackFit, NEW x, NEW e, Works(x, e), NEW p \in 1..AssessPhase,
         p = ReportPhase => x.tests = "green"
  PROVE  Goes(x, e, EnterPhase(x, p))
<1>0. x \in RunRecord /\ x.tape = <<>>
  BY WorksLive
<1>1. CASE x.aborted
  BY <1>1, ThrowGoes DEF EnterPhase
<1>2. CASE ~x.aborted
  <2>. DEFINE y == [x EXCEPT !.pc = "model", !.phase = p, !.turns = 0]
  <2>1. EnterPhase(x, p) = Result(y, <<>>)
    BY <1>2 DEF EnterPhase
  <2>2. y \in RunRecord /\ y.kind = x.kind /\ y.tape = <<>> /\ y.at = x.at /\ y.pc = "model"
        /\ y.tests = x.tests /\ y.phase = p
    <3>1. p \in 0..AssessPhase
      BY RunAssumption DEF AssessPhase
    <3>. QED  BY <1>0, <3>1 DEF RunRecord, Live
  <2>. HIDE DEF y
  <2>3. e \o <<>> = e /\ <<>> \in Seq(Event) /\ Told(<<>>) = {}
    BY ToldShort, WorksLive
  <2>4. x.kind = "attack" => AttackTold(y, e)
    BY <2>2, WorksLive DEF AttackTold
  <2>5. IncidentTold(y, e)
    BY <2>2 DEF IncidentTold
  <2>. QED  BY <2>1, <2>2, <2>3, <2>4, <2>5, LiveGoes DEF Working
<1>. QED  BY <1>1, <1>2

LEMMA AfterResult ==
  ASSUME NEW x, NEW s \in Seq(Event), NEW t \in Seq(Event)
  PROVE  After(s, Result(x, t)) = Result(x, s \o t)
<1>. DEFINE u == s \o t
<1>1. After(s, Result(x, t)) = [[run |-> x, emits |-> t] EXCEPT !.emits = u]
  BY DEF After, Result
<1>. HIDE DEF u
<1>2. [[run |-> x, emits |-> t] EXCEPT !.emits = u] = [run |-> x, emits |-> u]
  OBVIOUS
<1>. QED  BY <1>1, <1>2 DEF Result, u

\* The driver returns; what it told before may be resolved, on green tests.
LEMMA ReturnGoes ==
  ASSUME NEW x, NEW e, Works(x, e), NEW s \in Seq(Event),
         Told(s) \subseteq {"error", "report", "resolved"},
         x.kind = "attack" /\ "resolved" \in Told(s)
           => x.tests = "green" /\ "error" \notin Told(s)
  PROVE  Goes(x, e, After(s, Return(x)))
<1>0. x \in RunRecord /\ x.tape = <<>>
  BY WorksLive
<1>1. CASE x.kind = "incident"
  <2>. DEFINE y == [x EXCEPT !.pc = "save"]
              t == s \o <<"resolved">>
  <2>1. After(s, Return(x)) = Result(y, t)
    <3>1. Return(x) = Result(y, <<"resolved">>)
      BY <1>1 DEF Return
    <3>2. <<"resolved">> \in Seq(Event)
      BY ToldShort, EventNames
    <3>. QED  BY <3>1, <3>2, AfterResult
  <2>2. y \in RunRecord /\ y.kind = x.kind /\ y.tape = <<>> /\ y.at = x.at /\ y.pc = "save"
    BY <1>0 DEF RunRecord, Live
  <2>3. t \in Seq(Event) /\ Told(t) = Told(s) \cup {"resolved"}
    BY ToldOne, EventNames
  <2>. HIDE DEF y, t
  <2>4. "resolved" \in Told(e \o t)
    BY <2>3, ToldConcat, WorksLive
  <2>5. IncidentTold(y, e \o t)
    BY <2>2, <2>4 DEF IncidentTold
  <2>. QED  BY <1>1, <2>1, <2>2, <2>3, <2>5, LiveGoes
<1>2. CASE x.kind = "attack"
  <2>. DEFINE y == [x EXCEPT !.pc = "done"]
  <2>1. After(s, Return(x)) = Result(y, s)
    <3>1. Return(x) = Result(y, <<>>)
      BY <1>2 DEF Return, Done
    <3>2. <<>> \in Seq(Event) /\ s \o <<>> = s
      OBVIOUS
    <3>. HIDE DEF y
    <3>. QED  BY <3>1, <3>2, AfterResult
  <2>2. y \in RunRecord /\ y.kind = x.kind /\ y.tape = <<>> /\ y.at = x.at /\ y.pc = "done"
        /\ y.tests = x.tests /\ y.phase = x.phase
    BY <1>0 DEF RunRecord
  <2>. HIDE DEF y
  <2>3. Told(e \o s) = Told(e) \cup Told(s)
    BY ToldConcat, WorksLive
  <2>4. x.tests = "green" => GreenLast(e \o s)
    BY <1>2, GreenKept, WorksLive DEF AttackTold, TestEvents
  <2>5. AttackTold(y, e \o s)
    BY <1>2, <2>2, <2>3, <2>4, WorksLive DEF AttackTold
  <2>. QED  BY <1>2, <2>1, <2>2, <2>5, LiveGoes
<1>. QED  BY <1>1, <1>2, WorksLive DEF Kinds

LEMMA ConcludeGoes ==
  ASSUME FallbackFit, NEW x, NEW e, Works(x, e)
  PROVE  Goes(x, e, Conclude(x))
<1>1. CASE x.tests = "green"
  <2>1. ReportPhase \in 1..AssessPhase
    BY RunAssumption DEF ReportPhase, AssessPhase
  <2>. QED  BY <1>1, <2>1, EnterPhaseGoes DEF Conclude
<1>2. CASE x.tests # "green"
  <2>1. <<"error">> \in Seq(Event) /\ Told(<<"error">>) = {"error"}
    BY ToldShort, EventNames
  <2>. QED  BY <1>2, <2>1, ReturnGoes DEF Conclude
<1>. QED  BY <1>1, <1>2

LEMMA AfterVerifyGoes ==
  ASSUME FallbackFit, NEW x, NEW e, Works(x, e), NEW result \in AfterVerify(x)
  PROVE  Goes(x, e, result)
<1>1. AssessPhase \in 1..AssessPhase /\ AssessPhase # ReportPhase
  BY RunAssumption DEF ReportPhase, AssessPhase
<1>2. Goes(x, e, EnterPhase(x, AssessPhase))
  BY <1>1, EnterPhaseGoes
<1>. QED  BY <1>2, ConcludeGoes DEF AfterVerify

LEMMA VerifyGoes ==
  ASSUME FallbackFit, NEW x, NEW e, Works(x, e), NEW result \in Verify(x)
  PROVE  Goes(x, e, result)
<1>. DEFINE y == [x EXCEPT !.pc = "verify"]
<1>1. y \in RunRecord /\ y.kind = x.kind /\ y.tape = <<>> /\ y.at = x.at /\ y.pc = "verify"
      /\ y.tests = x.tests /\ y.phase = x.phase
  BY WorksLive DEF RunRecord, Live
<1>2. e \o <<>> = e /\ <<>> \in Seq(Event) /\ Told(<<>>) = {}
  BY ToldShort, WorksLive
<1>3. x.kind = "attack" => AttackTold(y, e)
  BY <1>1, WorksLive DEF AttackTold
<1>4. IncidentTold(y, e)
  BY <1>1 DEF IncidentTold
<1>5. Goes(x, e, Result(y, <<>>))
  BY <1>1, <1>2, <1>3, <1>4, LiveGoes DEF Working
<1>. QED  BY <1>5, ThrowGoes, AfterVerifyGoes DEF Verify

LEMMA AfterPhaseGoes ==
  ASSUME FallbackFit, NEW x, NEW e, Works(x, e), NEW result \in AfterPhase(x)
  PROVE  Goes(x, e, result)
<1>0. /\ x.phase \in 0..AssessPhase /\ NumPhases \in Nat \ {0}
      /\ ReportPhase = NumPhases + 1 /\ AssessPhase = NumPhases + 2
  BY WorksLive, RunAssumption DEF RunRecord, ReportPhase, AssessPhase
<1>1. CASE x.phase < NumPhases
  <2>1. x.phase + 1 \in 1..AssessPhase /\ x.phase + 1 # ReportPhase
    BY <1>0, <1>1
  <2>2. result = EnterPhase(x, x.phase + 1)
    BY <1>0, <1>1 DEF AfterPhase
  <2>. QED  BY <2>1, <2>2, EnterPhaseGoes
<1>2. CASE x.phase = NumPhases
  <2>1. result \in Verify(x)
    BY <1>0, <1>2 DEF AfterPhase
  <2>. QED  BY <2>1, VerifyGoes
<1>3. CASE x.phase = AssessPhase
  <2>1. result = Conclude(x)
    BY <1>0, <1>3 DEF AfterPhase
  <2>. QED  BY <2>1, ConcludeGoes
<1>4. CASE x.phase = ReportPhase
  <2>1. PICK t \in {<<>>, <<"report">>} : result = After(t \o <<"resolved">>, Return(x))
    BY <1>0, <1>4 DEF AfterPhase
  <2>2. t \in Seq(Event) /\ Told(t) \subseteq {"report"}
    <3>1. "report" \in Event
      BY EventNames
    <3>2. <<"report">> \in Seq(Event) /\ Told(<<"report">>) = {"report"}
      BY <3>1, ToldShort
    <3>3. <<>> \in Seq(Event) /\ Told(<<>>) = {}
      BY ToldShort
    <3>. QED  BY <3>2, <3>3
  <2>3. /\ t \o <<"resolved">> \in Seq(Event)
        /\ Told(t \o <<"resolved">>) = Told(t) \cup {"resolved"}
    BY <2>2, ToldOne, EventNames
  <2>4. x.kind = "attack" => x.tests = "green"
    BY <1>4, WorksLive DEF AttackTold
  <2>. QED  BY <2>1, <2>2, <2>3, <2>4, ReturnGoes
<1>5. \/ x.phase < NumPhases \/ x.phase = NumPhases
      \/ x.phase = ReportPhase \/ x.phase = AssessPhase
  BY <1>0
<1>. QED  BY <1>1, <1>2, <1>3, <1>4, <1>5

LEMMA AfterTurnGoes ==
  ASSUME FallbackFit, NEW x, NEW e, Works(x, e), NEW result \in AfterTurn(x)
  PROVE  Goes(x, e, result)
<1>1. CASE x.turns + 1 = MaxTurns
  BY <1>1, AfterPhaseGoes DEF AfterTurn
<1>2. CASE x.turns + 1 # MaxTurns /\ x.aborted
  BY <1>2, ThrowGoes DEF AfterTurn
<1>3. CASE x.turns + 1 # MaxTurns /\ ~x.aborted
  <2>. DEFINE y == [x EXCEPT !.pc = "model", !.turns = x.turns + 1]
  <2>0. x \in RunRecord /\ x.tape = <<>>
    BY WorksLive
  <2>1. result = Result(y, <<>>)
    BY <1>3 DEF AfterTurn
  <2>2. y \in RunRecord /\ y.kind = x.kind /\ y.tape = <<>> /\ y.at = x.at /\ y.pc = "model"
        /\ y.tests = x.tests /\ y.phase = x.phase
    <3>1. x.turns + 1 \in Nat
      BY <2>0 DEF RunRecord
    <3>. QED  BY <2>0, <3>1 DEF RunRecord, Live
  <2>. HIDE DEF y
  <2>3. e \o <<>> = e /\ <<>> \in Seq(Event) /\ Told(<<>>) = {}
    BY ToldShort, WorksLive
  <2>4. x.kind = "attack" => AttackTold(y, e)
    BY <2>2, WorksLive DEF AttackTold
  <2>5. IncidentTold(y, e)
    BY <2>2 DEF IncidentTold
  <2>. QED  BY <2>1, <2>2, <2>3, <2>4, <2>5, LiveGoes DEF Working
<1>. QED  BY <1>1, <1>2, <1>3

\* A tool returned: the run y it leaves is still at work, one event on.
LEMMA OutcomeWorks ==
  ASSUME RunTypes, NEW x, NEW e, Works(x, e), x.pc = "tool", NEW outcome \in ToolOutcomes(x)
  PROVE  /\ Works(outcome.run, e \o outcome.emits)
         /\ outcome.emits \in Seq(Event) /\ "demo_mode" \notin Told(outcome.emits)
         /\ outcome.run.kind = x.kind /\ outcome.run.pc = "tool"
<1>. DEFINE y == outcome.run
            s == outcome.emits
<1>0. x \in RunRecord /\ x.tape = <<>> /\ x.kind \in Kinds /\ sandbox[x.kind] \in SUBSET Runs
  BY WorksLive DEF RunTypes
<1>1. /\ y \in RunRecord /\ y.kind = x.kind /\ y.tape = <<>> /\ y.at = x.at /\ y.pc = "tool"
      /\ y.phase = x.phase
      /\ \/ s = <<>> /\ y.tests = x.tests
         \/ s = <<"patch">> /\ y.tests = x.tests
         \/ s = <<"test_green">> /\ y.tests = "green"
         \/ s = <<"test_red">> /\ y.tests = "red"
  <2>1. CASE outcome = Result(x, <<>>)
    BY <1>0, <2>1 DEF Result
  <2>2. CASE outcome = Result([x EXCEPT !.rootCause = TRUE], <<>>)
    BY <1>0, <2>2 DEF Result, RunRecord
  <2>3. CASE outcome = Result([x EXCEPT !.patched = TRUE], <<"patch">>)
    BY <1>0, <2>3 DEF Result, RunRecord
  <2>4. ASSUME NEW t \in {"red", "green"},
               outcome = Result([x EXCEPT !.tests = t, !.tree = sandbox[x.kind]],
                                <<IF t = "green" THEN "test_green" ELSE "test_red">>)
        PROVE  <1>1
    <3>. DEFINE z == [x EXCEPT !.tests = t, !.tree = sandbox[x.kind]]
    <3>1. z \in RunRecord /\ z.kind = x.kind /\ z.tape = <<>> /\ z.at = x.at /\ z.pc = "tool"
          /\ z.phase = x.phase /\ z.tests = t
      BY <1>0 DEF RunRecord, Tests
    <3>. HIDE DEF z
    <3>2. y = z /\ s = <<IF t = "green" THEN "test_green" ELSE "test_red">>
      BY <2>4 DEF Result, z
    <3>. QED  BY <3>1, <3>2
  <2>. QED  BY <2>1, <2>2, <2>3, <2>4 DEF ToolOutcomes
<1>. HIDE DEF y, s
<1>2. s \in Seq(Event) /\ Told(s) \subseteq {"patch", "test_green", "test_red"}
  <2>1. \A a \in {"patch", "test_green", "test_red"} :
          <<a>> \in Seq(Event) /\ Told(<<a>>) = {a}
    BY ToldShort, EventNames
  <2>2. <<>> \in Seq(Event) /\ Told(<<>>) = {}
    BY ToldShort
  <2>. QED  BY <1>1, <2>1, <2>2
<1>3. e \o s \in Seq(Event) /\ Told(e \o s) = Told(e) \cup Told(s)
  BY <1>2, ToldConcat, WorksLive
<1>4. Replays(y, e \o s)
  BY <1>0, <1>1, <1>2, <1>3, WorksLive DEF Replays
<1>5. ASSUME x.kind = "attack"
      PROVE  AttackTold(y, e \o s)
  <2>1. x.phase # ReportPhase /\ Told(e \o s) \cap {"resolved", "fatal", "error"} = {}
    BY <1>2, <1>3, <1>5, WorksLive DEF AttackTold
  <2>2. y.tests = "green" => GreenLast(e \o s)
    <3>1. CASE s \in {<<>>, <<"patch">>} /\ y.tests = x.tests
      <4>1. Told(s) \cap TestEvents = {}
        <5>1. "patch" \in Event
          BY EventNames
        <5>2. Told(<<>>) = {} /\ Told(<<"patch">>) = {"patch"}
          BY <5>1, ToldShort
        <5>. QED  BY <3>1, <5>2 DEF TestEvents
      <4>2. e \in Seq(Event) /\ (x.tests = "green" => GreenLast(e))
        BY <1>5, WorksLive DEF AttackTold
      <4>. QED  BY <1>2, <3>1, <4>1, <4>2, GreenKept
    <3>2. CASE s = <<"test_green">>
      BY <3>2, GreenNow, WorksLive
    <3>3. CASE y.tests = "red"
      BY <3>3
    <3>. QED  BY <1>1, <3>1, <3>2, <3>3
  <2>. QED  BY <1>1, <2>1, <2>2 DEF AttackTold
<1>6. IncidentTold(y, e \o s)
  BY <1>1 DEF IncidentTold
<1>7. Works(y, e \o s)
  BY <1>1, <1>3, <1>4, <1>5, <1>6 DEF Works, Working, Good
<1>. QED  BY <1>1, <1>2, <1>7 DEF y, s

\* What follows the tool's own event goes on from there.
LEMMA GoesAfter ==
  ASSUME NEW x, NEW y, NEW e \in Seq(Event), NEW s \in Seq(Event), NEW result,
         Goes(y, e \o s, result), y.kind = x.kind, y.tape = <<>>
  PROVE  /\ After(s, result).run = result.run
         /\ Goes(x, e, After(s, result))
<1>. DEFINE t == result.emits
            u == s \o t
<1>1. result \in [run: RunRecord, emits: Seq(Event)] /\ t \in Seq(Event)
  BY DEF Goes
<1>2. (e \o s) \o t = e \o u /\ u \in Seq(Event)
  BY <1>1, ConcatAssociative
<1>3. After(s, result) = [result EXCEPT !.emits = u]
  BY DEF After
<1>4. /\ After(s, result) \in [run: RunRecord, emits: Seq(Event)]
      /\ After(s, result).run = result.run /\ After(s, result).emits = u
  <2>. HIDE DEF u
  <2>. QED  BY <1>1, <1>2, <1>3
<1>. HIDE DEF u, t
<1>5. Good(result.run, e \o u) /\ result.run.kind = x.kind /\ result.run.pc # "none"
      /\ ~(result.run.tape # <<>> /\ result.run.aborted)
  BY <1>2 DEF Goes, t
<1>. QED  BY <1>4, <1>5 DEF Goes
-----------------------------------------------------------------------------
(* The steps.                                                              *)

LEMMA NewRunFit ==
  \A k \in Kinds : NewRun(k) \in RunRecord
<1>1. 0 \in 0..AssessPhase
  BY RunAssumption DEF AssessPhase
<1>. QED  BY <1>1 DEF NewRun, RunRecord, Tests

LEMMA InitKeeps == Init => IInv
<1>. SUFFICES ASSUME Init PROVE IInv
  OBVIOUS
<1>1. "incident" \in Kinds /\ "incident" # "attack"
  BY DEF Kinds
<1>2. RunTypes
  BY <1>1, NewRunFit, RunAssumption DEF RunTypes, Init, NoRun
<1>3. /\ NewRun("incident").kind = "incident" /\ NewRun("incident").pc = "none"
      /\ NewRun("incident").tape = <<>> /\ NewRun("incident").at = 0
  BY DEF NewRun
<1>4. Good(NewRun("incident"), <<>>)
  BY <1>1, <1>3, ToldShort DEF Good, Replays, IncidentTold
<1>5. NoRun \notin Runs
  BY RunAssumption DEF NoRun, Runs
<1>6. Linked
  BY <1>3, <1>5 DEF Linked, Started, Init
<1>. QED  BY <1>2, <1>4, <1>6 DEF IInv, Init

\* A run that goes on as it may keeps the invariant.
LEMMA ContinueKeeps ==
  ASSUME IInv, NEW r \in Runs, NEW result, Started(r), run[r].pc # "done",
         Goes(run[r], events[r], result), Continue(r, result),
         sandbox' \in [Kinds -> SUBSET Runs], current' = current, fallback' = fallback,
         saved' \in {saved, saved \cup {r}},
         r \in saved' => result.run.pc = "done" /\ result.run.tape = <<>>
  PROVE  IInv'
<1>. DEFINE y == result.run
            s == result.emits
<1>1. /\ y \in RunRecord /\ s \in Seq(Event) /\ y.kind = run[r].kind /\ y.pc # "none"
      /\ Good(y, events[r] \o s)
      /\ y.tape # <<>> /\ y.aborted => run[r].tape # <<>> /\ run[r].aborted
      /\ r \in saved' => y.pc = "done" /\ y.tape = <<>>
  BY DEF Goes
<1>2. run' = [run EXCEPT ![r] = y] /\ events' = [events EXCEPT ![r] = events[r] \o s]
  BY DEF Continue
<1>. HIDE DEF y, s
<1>3. RunTypes'
  <2>1. events[r] \o s \in Seq(Event)
    BY <1>1, ToldConcat DEF IInv, RunTypes
  <2>. QED  BY <1>1, <1>2, <2>1 DEF IInv, RunTypes
<1>4. /\ run'[r] = y /\ events'[r] = events[r] \o s
      /\ \A q \in Runs : q # r => run'[q] = run[q] /\ events'[q] = events[q]
  BY <1>2 DEF IInv, RunTypes
<1>5. \A q \in Runs : /\ Started(q)' <=> Started(q)
                      /\ run'[q].kind = run[q].kind
  BY <1>1, <1>4 DEF Started
<1>6. \A q \in Runs : Superseded(q) => Superseded(q)'
  BY <1>5 DEF Superseded, Started
<1>7. \A q \in Runs : Good(run[q], events[q])'
  BY <1>1, <1>4 DEF IInv
<1>8. Linked'
  <2>1. \A q \in Runs : (run[q].tape # <<>> /\ run[q].aborted => Superseded(q))'
    BY <1>1, <1>4, <1>6 DEF IInv, Linked
  <2>2. \A q \in saved' : run'[q].pc = "done" /\ run'[q].tape = <<>>
    BY <1>1, <1>4 DEF IInv, Linked, RunTypes
  <2>3. \A p, q \in Runs : q < p /\ Started(p)' => Started(q)'
    BY <1>5 DEF IInv, Linked
  <2>4. \A k \in Kinds : current'[k] \in Runs
           => Started(current[k])' /\ run'[current[k]].kind = k
    BY <1>5 DEF IInv, Linked
  <2>. QED  BY <2>1, <2>2, <2>3, <2>4 DEF Linked, Started
<1>. QED  BY <1>3, <1>7, <1>8 DEF IInv

\* A run at work goes on.
LEMMA WorkKeeps ==
  ASSUME IInv, NEW r \in Runs, run[r].pc \in Working, NEW result,
         Goes(run[r], events[r], result), Continue(r, result),
         sandbox' \in [Kinds -> SUBSET Runs], UNCHANGED <<current, fallback, saved>>
  PROVE  IInv'
<1>1. Started(r) /\ run[r].pc # "done" /\ r \notin saved
  BY DEF Working, Started, IInv, Linked
<1>. QED  BY <1>1, ContinueKeeps

LEMMA RunWorks ==
  ASSUME IInv, NEW r \in Runs, run[r].pc \in Working
  PROVE  Works(run[r], events[r]) /\ FallbackFit
BY DEF IInv, RunTypes, Works, FallbackFit

LEMMA PrepareKeeps ==
  ASSUME IInv, NEW r \in Runs, Prepare(r)
  PROVE  IInv'
<1>1. run[r].pc \in Working /\ UNCHANGED <<current, fallback, saved>>
  BY DEF Prepare, Working
<1>2. Works(run[r], events[r]) /\ FallbackFit
  BY <1>1, RunWorks
<1>3. sandbox' \in [Kinds -> SUBSET Runs]
  BY DEF Prepare, IInv, RunTypes
<1>4. 1 \in 1..AssessPhase /\ 1 # ReportPhase
  BY RunAssumption DEF AssessPhase, ReportPhase
<1>5. Goes(run[r], events[r], EnterPhase(run[r], 1)) /\ Goes(run[r], events[r], Throw(run[r]))
  BY <1>2, <1>4, EnterPhaseGoes, ThrowGoes
<1>. QED  BY <1>1, <1>3, <1>5, WorkKeeps DEF Prepare

LEMMA ModelKeeps ==
  ASSUME IInv, NEW r \in Runs, ModelThrows(r) \/ EndTurn(r) \/ Pause(r)
  PROVE  IInv'
<1>1. /\ run[r].pc \in Working /\ UNCHANGED <<current, fallback, saved>>
      /\ sandbox' \in [Kinds -> SUBSET Runs]
  BY DEF ModelThrows, EndTurn, Pause, Working, IInv, RunTypes
<1>2. Works(run[r], events[r]) /\ FallbackFit
  BY <1>1, RunWorks
<1>3. PICK result \in {Throw(run[r])} \cup AfterPhase(run[r]) \cup AfterTurn(run[r]) :
        Continue(r, result)
  BY DEF ModelThrows, EndTurn, Pause
<1>4. Goes(run[r], events[r], result)
  BY <1>2, ThrowGoes, AfterPhaseGoes, AfterTurnGoes
<1>. QED  BY <1>1, <1>3, <1>4, WorkKeeps

LEMMA CallToolsKeeps ==
  ASSUME IInv, NEW r \in Runs, CallTools(r)
  PROVE  IInv'
<1>. DEFINE x == run[r]
            e == events[r]
            y == [x EXCEPT !.pc = "tool", !.calls = 1]
<1>1. /\ x.pc \in Working /\ UNCHANGED <<current, fallback, saved>>
      /\ sandbox' \in [Kinds -> SUBSET Runs] /\ Continue(r, Result(y, <<>>))
      /\ x.phase # ReportPhase
  BY DEF CallTools, Working, IInv, RunTypes
<1>2. Works(x, e)
  BY <1>1, RunWorks
<1>3. x \in RunRecord /\ e \in Seq(Event) /\ x.tape = <<>>
  BY <1>2, WorksLive
<1>. HIDE DEF x, e
<1>4. y \in RunRecord /\ y.kind = x.kind /\ y.tape = <<>> /\ y.at = x.at /\ y.pc = "tool"
      /\ y.tests = x.tests /\ y.phase = x.phase
  BY <1>3 DEF RunRecord, Live
<1>. HIDE DEF y
<1>5. e \o <<>> = e /\ <<>> \in Seq(Event) /\ Told(<<>>) = {}
  BY <1>3, ToldShort
<1>6. x.kind = "attack" => AttackTold(y, e)
  BY <1>1, <1>2, <1>4, WorksLive DEF AttackTold
<1>7. IncidentTold(y, e)
  BY <1>4 DEF IncidentTold
<1>8. Goes(x, e, Result(y, <<>>))
  BY <1>2, <1>4, <1>5, <1>6, <1>7, LiveGoes DEF Working
<1>. QED  BY <1>1, <1>8, WorkKeeps DEF x, e

LEMMA ToolReturnsKeeps ==
  ASSUME IInv, NEW r \in Runs, ToolReturns(r)
  PROVE  IInv'
<1>. DEFINE x == run[r]
            e == events[r]
<1>1. x.pc = "tool" /\ UNCHANGED <<current, fallback, saved>>
  BY DEF ToolReturns
<1>2. Works(x, e) /\ FallbackFit /\ RunTypes
  BY <1>1, RunWorks DEF Working, IInv
<1>3. PICK outcome \in ToolOutcomes(x) :
        /\ \/ Continue(r, Result([outcome.run EXCEPT !.calls = @ + 1], outcome.emits))
           \/ \E result \in AfterTurn(outcome.run) :
                Continue(r, After(outcome.emits, result))
        /\ sandbox' = IF outcome.emits = <<"patch">>
                      THEN [sandbox EXCEPT ![outcome.run.kind] = @ \cup {r}] ELSE sandbox
  BY DEF ToolReturns
<1>. DEFINE y == outcome.run
            s == outcome.emits
<1>4. /\ Works(y, e \o s) /\ s \in Seq(Event) /\ "demo_mode" \notin Told(s)
      /\ y.kind = x.kind /\ y.pc = "tool" /\ e \in Seq(Event)
  BY <1>1, <1>2, OutcomeWorks, WorksLive
<1>5. sandbox' \in [Kinds -> SUBSET Runs]
  <2>1. y.kind \in Kinds
    BY <1>4, WorksLive
  <2>. QED  BY <1>2, <1>3, <2>1 DEF RunTypes
<1>6. CASE Continue(r, Result([y EXCEPT !.calls = @ + 1], s))
  <2>. DEFINE z == [y EXCEPT !.calls = @ + 1]
  <2>. HIDE DEF x, e, y, s
  <2>1. y \in RunRecord /\ y.tape = <<>>
    BY <1>4, WorksLive
  <2>2. z \in RunRecord /\ z.kind = y.kind /\ z.tape = <<>> /\ z.at = y.at /\ z.pc = "tool"
        /\ z.tests = y.tests /\ z.phase = y.phase
    <3>1. y.calls + 1 \in Nat
      BY <2>1 DEF RunRecord
    <3>. QED  BY <1>4, <2>1, <3>1 DEF RunRecord
  <2>. HIDE DEF z
  <2>3. (e \o s) \o <<>> = e \o s /\ <<>> \in Seq(Event) /\ Told(<<>>) = {}
        /\ s \o <<>> = s
    BY <1>4, ToldShort, WorksLive
  <2>4. y.kind = "attack" => AttackTold(z, e \o s)
    BY <1>4, <2>2, WorksLive DEF AttackTold
  <2>5. IncidentTold(z, e \o s)
    BY <2>2 DEF IncidentTold
  <2>6. Goes(y, e \o s, Result(z, <<>>))
    BY <1>4, <2>2, <2>3, <2>4, <2>5, LiveGoes DEF Working
  <2>7. Goes(x, e, Result(z, s))
    <3>1. After(s, Result(z, <<>>)) = Result(z, s)
      <4>1. After(s, Result(z, <<>>)) = Result(z, s \o <<>>)
        BY <1>4, <2>3, AfterResult
      <4>. QED  BY <2>3, <4>1
    <3>. QED  BY <1>4, <2>1, <2>6, <3>1, GoesAfter
  <2>. QED  BY <1>1, <1>5, <1>6, <2>7, WorkKeeps DEF x, e, z, Working
<1>7. ASSUME NEW result \in AfterTurn(y), Continue(r, After(s, result))
      PROVE  IInv'
  <2>. HIDE DEF y, s
  <2>1. Goes(y, e \o s, result) /\ y.tape = <<>>
    BY <1>2, <1>4, AfterTurnGoes, WorksLive
  <2>2. Goes(x, e, After(s, result))
    BY <1>4, <2>1, GoesAfter
  <2>. QED  BY <1>1, <1>5, <1>7, <2>2, WorkKeeps DEF Working
<1>. QED  BY <1>3, <1>6, <1>7

LEMMA MeasureKeeps ==
  ASSUME IInv, NEW r \in Runs, Measure(r)
  PROVE  IInv'
<1>1. /\ run[r].pc \in Working /\ UNCHANGED <<current, fallback, saved>>
      /\ sandbox' \in [Kinds -> SUBSET Runs]
  BY DEF Measure, Working, IInv, RunTypes
<1>2. Works(run[r], events[r]) /\ FallbackFit
  BY <1>1, RunWorks
<1>3. PICK result \in AfterVerify(run[r]) : Continue(r, result)
  BY DEF Measure
<1>. QED  BY <1>1, <1>2, <1>3, AfterVerifyGoes, WorkKeeps

\* The recording is saved, or that fails; the run is over either way.
LEMMA SaveKeeps ==
  ASSUME IInv, NEW r \in Runs, Save(r)
  PROVE  IInv'
<1>. DEFINE x == run[r]
            e == events[r]
            y == [x EXCEPT !.pc = "done"]
<1>1. /\ x.pc = "save" /\ Continue(r, Result(y, <<>>))
      /\ UNCHANGED <<current, fallback, sandbox>> /\ saved' \in {saved, saved \cup {r}}
  BY DEF Save, Done
<1>2. x \in RunRecord /\ e \in Seq(Event) /\ Good(x, e)
  BY DEF IInv, RunTypes
<1>. HIDE DEF x, e
<1>3. y \in RunRecord /\ y.kind = x.kind /\ y.tape = x.tape /\ y.at = x.at /\ y.pc = "done"
  BY <1>2 DEF RunRecord
<1>. HIDE DEF y
<1>4. x.kind = "incident" /\ x.tape = <<>>
  BY <1>1, <1>2 DEF Good, Replays, AttackTold, RunRecord, Kinds
<1>5. Good(y, e)
  BY <1>1, <1>2, <1>3, <1>4 DEF Good, Replays, IncidentTold
<1>6. e \o <<>> = e /\ <<>> \in Seq(Event)
  BY <1>2
<1>7. Goes(x, e, Result(y, <<>>)) /\ Result(y, <<>>).run = y
  BY <1>3, <1>4, <1>5, <1>6 DEF Goes, Result
<1>8. Started(r) /\ run[r].pc # "done" /\ sandbox' \in [Kinds -> SUBSET Runs]
  BY <1>1 DEF Started, IInv, RunTypes, x
<1>. QED  BY <1>1, <1>3, <1>4, <1>7, <1>8, ContinueKeeps DEF x, e

\* One event of the recording.
LEMMA ReplayKeeps ==
  ASSUME IInv, NEW r \in Runs, Replay(r)
  PROVE  IInv'
<1>. DEFINE x == run[r]
            e == events[r]
            n == x.at + 1
            pc == IF n = Len(x.tape) \/ x.aborted THEN "done" ELSE x.pc
            y == [x EXCEPT !.at = n, !.pc = pc]
            s == <<x.tape[n]>>
<1>1. /\ x.pc = "replay" /\ Continue(r, Result(y, s))
      /\ UNCHANGED <<current, fallback, sandbox, saved>>
  BY DEF Replay
<1>2. x \in RunRecord /\ e \in Seq(Event) /\ Good(x, e)
  BY DEF IInv, RunTypes
<1>. HIDE DEF x, e
<1>3. /\ x.kind = "incident" /\ x.tape # <<>> /\ x.at < Len(x.tape)
      /\ Recording(x.tape) /\ Aligned(e, x.tape, x.at)
      /\ x.tape \in Seq(Event) /\ x.at \in Nat
  BY <1>1, <1>2 DEF Good, Replays, AttackTold, RunRecord, Kinds
<1>4. n \in 1..Len(x.tape) /\ x.tape[n] \in Event /\ s \in Seq(Event)
  BY <1>3
<1>5. y \in RunRecord /\ y.kind = x.kind /\ y.tape = x.tape /\ y.at = n /\ y.pc = pc
      /\ y.aborted = x.aborted
  <2>1. pc \in Live \cup {"none", "replay", "done"} /\ n \in Nat
    BY <1>1, <1>4
  <2>. HIDE DEF pc, n
  <2>. QED  BY <1>2, <2>1 DEF RunRecord
<1>6. Aligned(e \o s, x.tape, n)
  BY <1>2, <1>3, AlignedNext
<1>. HIDE DEF y, s
<1>7. Replays(y, e \o s)
  BY <1>1, <1>3, <1>4, <1>5, <1>6 DEF Replays
<1>8. IncidentTold(y, e \o s)
  BY <1>1, <1>3, <1>5 DEF IncidentTold
<1>9. Goes(x, e, Result(y, s))
  BY <1>1, <1>3, <1>4, <1>5, <1>7, <1>8 DEF Goes, Good, Result
<1>10. /\ Started(r) /\ run[r].pc # "done" /\ sandbox' \in [Kinds -> SUBSET Runs]
       /\ r \notin saved
  BY <1>1 DEF Started, IInv, RunTypes, Linked, x
<1>. QED  BY <1>1, <1>9, <1>10, ContinueKeeps DEF x, e

\* An abort reaches a run.
LEMMA AbortGood ==
  ASSUME NEW x \in RunRecord, NEW e, Good(x, e)
  PROVE  LET y == [x EXCEPT !.aborted = TRUE] IN
         /\ y \in RunRecord /\ Good(y, e)
         /\ y.kind = x.kind /\ y.pc = x.pc /\ y.tape = x.tape /\ y.aborted
<1>. DEFINE y == [x EXCEPT !.aborted = TRUE]
<1>1. y \in RunRecord /\ y.kind = x.kind /\ y.pc = x.pc /\ y.tape = x.tape /\ y.aborted = TRUE
      /\ y.at = x.at /\ y.tests = x.tests /\ y.phase = x.phase
  BY DEF RunRecord
<1>. HIDE DEF y
<1>2. Good(y, e)
  BY <1>1 DEF Good, Replays, AttackTold, IncidentTold
<1>. QED  BY <1>1, <1>2 DEF y

LEMMA TimeoutKeeps ==
  ASSUME IInv, NEW r \in Runs, Timeout(r)
  PROVE  IInv'
<1>. DEFINE y == [run[r] EXCEPT !.aborted = TRUE]
<1>1. /\ run[r].pc \in Live /\ run' = [run EXCEPT ![r] = y]
      /\ UNCHANGED <<events, current, sandbox, saved, fallback>>
  BY DEF Timeout
<1>2. run[r] \in RunRecord /\ Good(run[r], events[r])
  BY DEF IInv, RunTypes
<1>3. y \in RunRecord /\ Good(y, events[r]) /\ y.kind = run[r].kind /\ y.pc = run[r].pc
      /\ y.tape = run[r].tape
  BY <1>2, AbortGood
<1>. HIDE DEF y
<1>4. run[r].tape = <<>>
  BY <1>1, <1>2 DEF Good, Replays, Live
<1>5. run'[r] = y /\ \A q \in Runs : q # r => run'[q] = run[q]
  BY <1>1 DEF IInv, RunTypes
<1>6. RunTypes'
  BY <1>1, <1>3 DEF IInv, RunTypes
<1>7. \A q \in Runs : Good(run[q], events[q])'
  BY <1>1, <1>3, <1>5 DEF IInv
<1>8. \A q \in Runs : run'[q].kind = run[q].kind /\ run'[q].pc = run[q].pc
                      /\ run'[q].tape = run[q].tape
  BY <1>3, <1>5
<1>9. \A q \in Runs : Superseded(q) => Superseded(q)'
  BY <1>8 DEF Superseded
<1>10. Linked'
  BY <1>1, <1>3, <1>4, <1>5, <1>8, <1>9 DEF IInv, RunTypes, Linked, Started
<1>. QED  BY <1>6, <1>7, <1>10 DEF IInv

\* Only a whole live run becomes the recording.
LEMMA PromoteKeeps ==
  ASSUME IInv, NEW r \in Runs, Promote(r)
  PROVE  IInv'
<1>1. run[r].tape = <<>> /\ Good(run[r], events[r]) /\ events[r] \in Seq(Event)
  BY DEF Promote, IInv, Linked, RunTypes
<1>2. Recording(events[r])
  BY <1>1 DEF Promote, Emitted, Good, Replays, Recording
<1>3. RunTypes' /\ Linked'
  BY <1>2 DEF Promote, IInv, RunTypes, Linked, Started, Superseded
<1>. QED  BY <1>3 DEF IInv, Promote

\* The first state of a new run, with what it tells at once.
LEMMA FirstGood ==
  ASSUME FallbackFit, NEW k \in Kinds, NEW first,
         \/ first = Result([NewRun(k) EXCEPT !.pc = "prepare"], <<"started">>)
         \/ k = "incident" /\ first = Fallback(NewRun(k))
         \/ k # "incident" /\ first = Result(Done(NewRun(k)), <<"fatal">>)
  PROVE  /\ first.run \in RunRecord /\ first.emits \in Seq(Event)
         /\ first.run.kind = k /\ first.run.pc # "none"
         /\ Good(first.run, first.emits)
         /\ ~(first.run.tape # <<>> /\ first.run.aborted)
<1>. DEFINE x == NewRun(k)
<1>1. /\ x \in RunRecord /\ x.kind = k /\ x.tape = <<>> /\ x.at = 0 /\ x.pc = "none"
      /\ x.tests = "none" /\ x.phase = 0 /\ x.aborted = FALSE
  BY NewRunFit DEF NewRun
<1>. HIDE DEF x
<1>2. /\ <<>> \in Seq(Event) /\ Told(<<>>) = {}
      /\ <<"started">> \in Seq(Event) /\ Told(<<"started">>) = {"started"}
      /\ <<"fatal">> \in Seq(Event) /\ Told(<<"fatal">>) = {"fatal"}
  BY ToldShort, EventNames
<1>3. CASE first = Result([x EXCEPT !.pc = "prepare"], <<"started">>)
  <2>. DEFINE y == [x EXCEPT !.pc = "prepare"]
  <2>1. y \in RunRecord /\ y.kind = k /\ y.tape = <<>> /\ y.at = 0 /\ y.pc = "prepare"
        /\ y.tests = "none" /\ y.phase = 0
    BY <1>1 DEF RunRecord, Live
  <2>. HIDE DEF y
  <2>2. first.run = y /\ first.emits = <<"started">>
    BY <1>3 DEF Result, y
  <2>3. Good(y, <<"started">>)
    BY <1>2, <2>1, RunAssumption DEF Good, Replays, AttackTold, IncidentTold, ReportPhase
  <2>. QED  BY <1>2, <2>1, <2>2, <2>3
<1>4. CASE k = "incident" /\ first = Fallback(x)
  <2>1. Replays(x, <<>>)
    BY <1>1, <1>2 DEF Replays
  <2>2. Goes(x, <<>>, first)
    BY <1>1, <1>2, <1>4, <2>1, FallbackGoes DEF FallbackFit
  <2>3. first.emits \in Seq(Event) /\ <<>> \o first.emits = first.emits
    BY <2>2 DEF Goes
  <2>. QED  BY <1>1, <2>2, <2>3 DEF Goes
<1>5. CASE k # "incident" /\ first = Result(Done(x), <<"fatal">>)
  <2>. DEFINE y == Done(x)
  <2>1. y \in RunRecord /\ y.kind = k /\ y.tape = <<>> /\ y.at = 0 /\ y.pc = "done"
        /\ y.tests = "none" /\ y.phase = 0
    BY <1>1 DEF RunRecord, Done
  <2>. HIDE DEF y
  <2>2. first.run = y /\ first.emits = <<"fatal">>
    BY <1>5 DEF Result, y
  <2>3. Good(y, <<"fatal">>)
    BY <1>2, <1>5, <2>1, RunAssumption DEF Good, Replays, AttackTold, ReportPhase
  <2>. QED  BY <1>2, <2>1, <2>2, <2>3
<1>. QED  BY <1>3, <1>4, <1>5 DEF x

\* The new run supersedes the one it aborts.
LEMMA StartRunKeeps ==
  ASSUME IInv, NEW k \in Kinds, StartRun(k)
  PROVE  IInv'
<1>. DEFINE first == IF ~useDemo
                     THEN Result([NewRun(k) EXCEPT !.pc = "prepare"], <<"started">>)
                     ELSE IF k = "incident" THEN Fallback(NewRun(k))
                     ELSE Result(Done(NewRun(k)), <<"fatal">>)
<1>1. PICK r \in Runs :
        /\ run[r].pc = "none" /\ \A q \in Runs : q < r => run[q].pc # "none"
        /\ run' = [q \in Runs |-> IF q = r THEN first.run
                                  ELSE IF q = current[k]
                                       THEN [run[q] EXCEPT !.aborted = TRUE]
                                       ELSE run[q]]
        /\ events' = [events EXCEPT ![r] = first.emits]
        /\ current' = [current EXCEPT ![k] = r]
  BY Zenon DEF StartRun
<1>2. \/ first = Result([NewRun(k) EXCEPT !.pc = "prepare"], <<"started">>)
      \/ k = "incident" /\ first = Fallback(NewRun(k))
      \/ k # "incident" /\ first = Result(Done(NewRun(k)), <<"fatal">>)
  OBVIOUS
<1>. HIDE DEF first
<1>. DEFINE y == first.run
            s == first.emits
            cut(q) == [run[q] EXCEPT !.aborted = TRUE]
<1>3. /\ y \in RunRecord /\ s \in Seq(Event) /\ y.kind = k /\ y.pc # "none"
      /\ Good(y, s) /\ ~(y.tape # <<>> /\ y.aborted)
  BY <1>2, FirstGood DEF IInv, RunTypes, FallbackFit
<1>4. \A q \in Runs : /\ cut(q) \in RunRecord /\ Good(cut(q), events[q])
                      /\ cut(q).kind = run[q].kind /\ cut(q).pc = run[q].pc
                      /\ cut(q).tape = run[q].tape
  BY AbortGood DEF IInv, RunTypes
<1>5. /\ run'[r] = y /\ events'[r] = s
      /\ \A q \in Runs : q # r => /\ run'[q] \in {run[q], cut(q)}
                                  /\ q # current[k] => run'[q] = run[q]
                                  /\ events'[q] = events[q]
  BY <1>1 DEF IInv, RunTypes
<1>6. UNCHANGED <<sandbox, saved, fallback>>
  BY DEF StartRun
<1>7. RunTypes'
  <2>1. run' \in [Runs -> RunRecord]
    <3>1. \A q \in Runs : run[q] \in RunRecord
      BY DEF IInv, RunTypes
    <3>. HIDE DEF y, s, cut
    <3>2. \A q \in Runs : run'[q] \in RunRecord
      BY <1>3, <1>4, <1>5, <3>1
    <3>3. run' = [q \in Runs |-> run'[q]]
      BY <1>1
    <3>. QED  BY <3>2, <3>3
  <2>2. events' \in [Runs -> Seq(Event)] /\ current' \in [Kinds -> Runs \cup {NoRun}]
    BY <1>1, <1>3 DEF IInv, RunTypes
  <2>. QED  BY <1>6, <2>1, <2>2 DEF IInv, RunTypes
<1>. HIDE DEF y, s, cut
<1>8. \A q \in Runs : Good(run[q], events[q])'
  BY <1>3, <1>4, <1>5 DEF IInv
<1>9. \A q \in Runs : q # r => run'[q].kind = run[q].kind /\ run'[q].pc = run[q].pc
                              /\ run'[q].tape = run[q].tape
  BY <1>4, <1>5
<1>10. /\ \A q \in Runs : Started(q)' <=> Started(q) \/ q = r
       /\ \A q \in Runs : q # r => run'[q].kind = run[q].kind
  BY <1>3, <1>5, <1>9 DEF Started
<1>11. \A q \in Runs : Started(q) => q < r
  <2>1. \A q \in Runs : r < q => ~Started(q)
    BY <1>1 DEF IInv, Linked, Started
  <2>. QED  BY <1>1, <2>1, RunAssumption DEF Started, Runs
<1>12. \A q \in Runs : q # r /\ Superseded(q) => Superseded(q)'
  <2>1. \A q, p \in Runs : p > q /\ Started(p) /\ run[p].kind = run[q].kind /\ q # r
          => /\ p > q /\ Started(p)' /\ (run[p].kind = run[q].kind)'
    BY <1>1, <1>10 DEF Started
  <2>. QED  BY <2>1 DEF Superseded, Started
<1>13. ASSUME NEW q \in Runs, (run[q].tape # <<>> /\ run[q].aborted)'
       PROVE  Superseded(q)'
  <2>1. q # r
    BY <1>3, <1>5, <1>13
  <2>2. CASE q = current[k]
    <3>1. Started(q) /\ run[q].kind = k
      BY <2>2 DEF IInv, Linked
    <3>2. r > q /\ run'[r].pc # "none" /\ run'[r].kind = run'[q].kind
      BY <1>3, <1>5, <1>9, <1>11, <2>1, <3>1 DEF Runs
    <3>. QED  BY <3>2 DEF Superseded
  <2>3. CASE q # current[k]
    <3>1. run[q].tape # <<>> /\ run[q].aborted
      BY <1>5, <1>13, <2>1, <2>3
    <3>. QED  BY <1>12, <2>1, <3>1 DEF IInv, Linked
  <2>. QED  BY <2>2, <2>3
<1>14. Linked'
  <2>1. \A p, q \in Runs : q < p /\ Started(p)' => Started(q)'
    <3>1. \A p, q \in Runs : q < p /\ Started(p) => Started(q)
      BY DEF IInv, Linked
    <3>. QED  BY <1>1, <1>10, <3>1 DEF Started
  <2>2. \A j \in Kinds : current'[j] \in Runs
          => Started(current[j])' /\ run'[current'[j]].kind = j
    <3>1. current'[k] = r /\ \A j \in Kinds : j # k => current'[j] = current[j]
      BY <1>1 DEF IInv, RunTypes
    <3>2. \A j \in Kinds : current[j] \in Runs
            => Started(current[j]) /\ run[current[j]].kind = j
      BY DEF IInv, Linked
    <3>3. \A j \in Kinds : j # k /\ current[j] \in Runs
            => current[j] # r /\ Started(current[j]) /\ run[current[j]].kind = j
      BY <1>1, <3>2 DEF Started
    <3>4. Started(r)' /\ run'[r].kind = k
      BY <1>3, <1>5, <1>10
    <3>. QED  BY <1>10, <3>1, <3>3, <3>4 DEF Started
  <2>3. \A q \in saved' : run'[q].pc = "done" /\ run'[q].tape = <<>>
    <3>1. \A q \in saved : q \in Runs /\ q # r /\ run[q].pc = "done" /\ run[q].tape = <<>>
      BY <1>1 DEF IInv, RunTypes, Linked
    <3>. QED  BY <1>6, <1>9, <3>1
  <2>. QED  BY <1>13, <2>1, <2>2, <2>3 DEF Linked, Started
<1>. QED  BY <1>7, <1>8, <1>14 DEF IInv

LEMMA NextKeeps == IInv /\ [Next]_vars => IInv'
<1>. SUFFICES ASSUME IInv, [Next]_vars PROVE IInv'
  OBVIOUS
<1>1. ASSUME NEW r \in Runs, Advance(r)
      PROVE  IInv'
  BY <1>1, PrepareKeeps, ModelKeeps, CallToolsKeeps, ToolReturnsKeeps, MeasureKeeps,
     SaveKeeps, ReplayKeeps DEF Advance
<1>2. CASE UNCHANGED vars
  BY <1>2 DEF vars, IInv, RunTypes, Linked, Started, Superseded
<1>. QED  BY <1>1, <1>2, StartRunKeeps, TimeoutKeeps, PromoteKeeps DEF Next

\* The inductive invariant of the interactive runs: Good of every run and its
\* stream, and what relates the runs (startRun, runFallback, replay, the agent).
THEOREM RunInvariant == Spec => []IInv
BY InitKeeps, NextKeeps, PTL DEF Spec

-----------------------------------------------------------------------------
(* What follows.                                                           *)

\* After the switch the stream is the recording from its beginning, and nothing
\* of the live run (runFallback, replay).
THEOREM ReplaysAreWhole == Spec => []ReplayIsWhole
<1>1. IInv => ReplayIsWhole
  <2>. SUFFICES ASSUME IInv, NEW r \in Runs, NEW n \in 1..Len(events[r]),
                       events[r][n] = "demo_mode"
                PROVE  SubSeq(events[r], n + 1, Len(events[r]))
                         = SubSeq(run[r].tape, 1, run[r].at)
    BY DEF ReplayIsWhole
  <2>. DEFINE e == events[r]
              t == run[r].tape
              at == run[r].at
  <2>1. e \in Seq(Event) /\ t \in Seq(Event) /\ at \in Nat /\ Replays(run[r], e)
    BY DEF IInv, RunTypes, Good, RunRecord
  <2>2. t # <<>> /\ Aligned(e, t, at) /\ "demo_mode" \notin Told(t)
    <3>1. "demo_mode" \in Told(e)
      <4>1. n \in 1..Len(e) /\ e[n] = "demo_mode"
        OBVIOUS
      <4>. HIDE DEF e
      <4>. QED  BY <4>1 DEF Told
    <3>2. run[r].tape # <<>>
      BY <2>1, <3>1 DEF Replays
    <3>3. Recording(run[r].tape) /\ Aligned(e, run[r].tape, run[r].at)
      BY <2>1, <3>2 DEF Replays
    <3>. HIDE DEF e
    <3>. QED  BY <3>2, <3>3 DEF Recording
  <2>. HIDE DEF e, t, at
  <2>3. n = Len(e) - at
    <3>1. \A i \in 1..at : e[Len(e) - at + i] # "demo_mode"
      <4>1. \A i \in 1..at : i \in 1..Len(t) /\ e[Len(e) - at + i] = t[i]
        BY <2>1, <2>2 DEF Aligned
      <4>2. \A i \in 1..Len(t) : t[i] # "demo_mode"
        BY <2>2 DEF Told
      <4>. QED  BY <4>1, <4>2
    <3>2. \A m \in 1..Len(e) - at - 1 : e[m] # "demo_mode"
      BY <2>2 DEF Aligned
    <3>3. n \in 1..Len(e) /\ e[n] = "demo_mode"
      BY DEF e
    <3>4. CASE n > Len(e) - at
      <4>1. n - (Len(e) - at) \in 1..at /\ Len(e) - at + (n - (Len(e) - at)) = n
        BY <2>1, <3>3, <3>4
      <4>. QED  BY <3>1, <3>3, <4>1
    <3>. QED  BY <2>1, <3>2, <3>3, <3>4
  <2>4. SubSeq(e, n + 1, Len(e)) = SubSeq(t, 1, at)
    <3>. DEFINE u == SubSeq(e, n + 1, Len(e))
                v == SubSeq(t, 1, at)
    <3>1. at <= Len(t) /\ n \in 1..Len(e) /\ Len(e) = n + at
      BY <2>1, <2>2, <2>3 DEF Aligned
    <3>2. u \in Seq(Event) /\ v \in Seq(Event) /\ Len(u) = at /\ Len(v) = at
      BY <2>1, <3>1, SubSeqProperties
    <3>3. \A i \in 1..at : u[i] = e[n + i] /\ v[i] = t[i] /\ e[n + i] = t[i]
      BY <2>1, <2>2, <2>3, <3>1, SubSeqProperties, SMTT(30) DEF Aligned
    <3>. HIDE DEF u, v
    <3>. QED  BY <3>2, <3>3, SeqEqual DEF u, v
  <2>. QED  BY <2>4 DEF e, t, at
<1>. QED  BY <1>1, RunInvariant, PTL

\* Every incident run that nothing superseded told resolved or a fatal error
\* when it ended (startRun, its catch and runFallback).
THEOREM IncidentsTell == Spec => []IncidentRunsTell
<1>1. IInv => IncidentRunsTell
  <2>. SUFFICES ASSUME IInv, NEW r \in Runs,
                       run[r].pc = "done", run[r].kind = "incident", ~Superseded(r)
                PROVE  Told(events[r]) \cap {"resolved", "fatal"} # {}
    BY DEF IncidentRunsTell, Emitted
  <2>. DEFINE e == events[r]
              x == run[r]
  <2>1. /\ e \in Seq(Event) /\ Replays(x, e) /\ IncidentTold(x, e)
        /\ x.pc = "done" /\ x.tape \in Seq(Event)
        /\ x.tape # <<>> => ~x.aborted
    BY DEF IInv, RunTypes, Good, RunRecord, Linked
  <2>. HIDE DEF e, x
  <2>2. CASE x.tape = <<>>
    BY <2>1, <2>2 DEF IncidentTold, e
  <2>3. CASE x.tape # <<>>
    <3>1. x.at = Len(x.tape) /\ Aligned(e, x.tape, x.at) /\ Recording(x.tape)
      BY <2>1, <2>3 DEF IncidentTold, Replays
    <3>2. PICK i \in 1..Len(x.tape) : x.tape[i] = "resolved"
      BY <3>1 DEF Recording, Told
    <3>3. Len(e) - x.at + i \in 1..Len(e) /\ e[Len(e) - x.at + i] = "resolved"
      BY <2>1, <3>1, <3>2 DEF Aligned
    <3>4. "resolved" \in Told(e)
      BY <3>3 DEF Told
    <3>. QED  BY <3>4 DEF e
  <2>. QED  BY <2>2, <2>3
<1>. QED  BY <1>1, RunInvariant, PTL

\* An attack run told resolved only when its last tests were green, and then
\* nothing of a failure (the driver's report phase).
THEOREM AttacksAreGreen == Spec => []ResolvedAttackIsGreen
<1>1. IInv => ResolvedAttackIsGreen
  <2>. SUFFICES ASSUME IInv, NEW r \in Runs,
                       run[r].kind = "attack", "resolved" \in Told(events[r])
                PROVE  /\ run[r].tests = "green"
                       /\ Told(events[r]) \cap {"fatal", "error"} = {}
                       /\ GreenLast(events[r]) /\ events[r] \in Seq(Event)
    <3>1. ASSUME NEW e \in Seq(Event), GreenLast(e)
          PROVE  LET tests == {n \in 1..Len(e) : e[n] \in {"test_red", "test_green"}}
                 IN \E n \in tests : e[n] = "test_green" /\ \A m \in tests : m <= n
      <4>1. PICK n \in 1..Len(e) : /\ e[n] = "test_green"
                                   /\ \A m \in n + 1..Len(e) : e[m] \notin TestEvents
        BY <3>1 DEF GreenLast
      <4>2. \A m \in 1..Len(e) : e[m] \in {"test_red", "test_green"} => m <= n
        BY <4>1 DEF TestEvents
      <4>. QED  BY <4>1, <4>2
    <3>. QED  BY <3>1 DEF ResolvedAttackIsGreen, Emitted
  <2>. QED  BY DEF IInv, RunTypes, Good, AttackTold
<1>. QED  BY <1>1, RunInvariant, PTL

=============================================================================
