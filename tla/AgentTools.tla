----------------------------- MODULE AgentTools -----------------------------
(***************************************************************************)
(* What one run establishes: the reporting tools and their guards          *)
(* (tools/report.ts, applyPatch.ts, runTests.ts, security/report*.ts), the *)
(* drivers that sequence the phases and take the measurements              *)
(* (agent/investigator.ts, attackInvestigator.ts), and the two readers who *)
(* rebuild the findings from the events: the page's reducer                *)
(* (useInvestigation.ts) and the derived tables (db/store.ts).             *)
(*                                                                         *)
(* A tool may be called in every phase but the report: only its own guard  *)
(* keeps the order. A refused call (unknown tool, bad arguments, a         *)
(* ToolError, a failure) changes nothing and is a stuttering step.         *)
(***************************************************************************)
EXTENDS Naturals, Sequences, FiniteSets

CONSTANTS
  Ids,          \* hypothesis ids the model may use
  NoId,
  MaxEvidence,  \* bound: pieces of evidence for, and against, one hypothesis
  MaxPatches,   \* bound: patches of one run
  RunKinds,     \* the kinds of run considered
  Tape          \* the findings in the recording of the fallback; <<>> for none

MinHypotheses == 2

TestOutcome == {"green", "red", "empty"}
Check == {"none", "ok", "bad"}
Quality == {"uncompiled", "red", "green"}

\* The events that tell of findings.
FindingEvent ==
  [type: {"hypothesis", "root_cause"}, id: Ids]
  \cup [type: {"evidence"}, id: Ids, supports: BOOLEAN]
  \cup [type: {"patch", "code_location", "attack_assessment", "uncompiled"}]
  \cup [type: {"test"}, outcome: TestOutcome]

ASSUME ToolAssumption ==
  /\ NoId \notin Ids
  /\ MaxEvidence \in Nat /\ MaxPatches \in Nat
  /\ RunKinds \subseteq {"incident", "attack"}
  /\ Tape \in Seq(FindingEvent)

VARIABLES
  kind,      \* findings.kind
  pc,        \* the phase, or the await, of the driver
  findings,  \* what the tools wrote
  page,      \* InvestigationState of a page that follows the run
  tables,    \* the rows derived from the run's events
  baseline,  \* the measurement that runs beside the agent
  before,    \* memoryBefore, attackBefore: the patches in the code it measured
  after,     \* memoryAfter, attackAfter
  tree,      \* what a check of the code in the sandbox would say
  at         \* events of the recording replayed

vars == <<kind, pc, findings, page, tables, baseline, before, after, tree, at>>

\* Faulty: the report phase may call tools.
WorkingInReport == {"investigate", "hypothesize", "prove", "fix", "assess", "report"}

Working == {"investigate", "hypothesize", "prove", "fix", "assess"}
Live == Working \cup {"measure", "report"}
Ended == {"resolved", "unverified", "fatal", "replayed"}

Count == [Ids -> Nat]
Case == [hyps: SUBSET Ids, pro: Count, con: Count, cause: Ids \cup {NoId}, patches: Nat,
         tests: TestOutcome \cup {"none"}, located: BOOLEAN, assessed: BOOLEAN]
Page == [case: Case, verdict: [Ids -> {"open", "confirmed", "eliminated"}],
         compiles: Check, suite: Check]

\* A measurement: the numbers of patches in the code it saw, none if it failed.
Reading == SUBSET Nat

NoCase == [hyps |-> {}, pro |-> [h \in Ids |-> 0], con |-> [h \in Ids |-> 0], cause |-> NoId,
           patches |-> 0, tests |-> "none", located |-> FALSE, assessed |-> FALSE]
NoPage == [case |-> NoCase, verdict |-> [h \in Ids |-> "open"], compiles |-> "none", suite |-> "none"]

TypeOK ==
  /\ kind \in RunKinds
  /\ pc \in Live \cup Ended \cup {"replay"}
  /\ findings \in Case /\ page \in Page /\ tables \in Case
  /\ baseline \in [running: BOOLEAN, reading: Reading]
  /\ before \in Reading /\ after \in Reading
  /\ tree \in Quality
  /\ at \in 0..Len(Tape)

Init ==
  /\ kind \in RunKinds
  /\ pc = "investigate"
  /\ findings = NoCase /\ page = NoPage /\ tables = NoCase
  /\ baseline = [running |-> TRUE, reading |-> {}]
  /\ before = {} /\ after = {} /\ at = 0
  /\ tree = "red"

-----------------------------------------------------------------------------
(* The readers.                                                            *)

\* Faulty: a second test result is left out (ON CONFLICT DO NOTHING).
StoreFirstTest(c, e) ==
  CASE e.type = "hypothesis" -> [c EXCEPT !.hyps = @ \cup {e.id}]
    [] e.type = "evidence" /\ e.supports  -> [c EXCEPT !.pro[e.id] = @ + 1]
    [] e.type = "evidence" /\ ~e.supports -> [c EXCEPT !.con[e.id] = @ + 1]
    [] e.type = "root_cause" -> [c EXCEPT !.cause = e.id]
    [] e.type = "patch" -> [c EXCEPT !.patches = @ + 1]
    [] e.type = "test" /\ c.tests = "none" -> [c EXCEPT !.tests = e.outcome]
    [] OTHER -> c

\* RunWriter.fold: upserts for what a run has one of, inserts for the rest;
\* locations and assessments have no table.
Store(c, e) ==
  CASE e.type = "hypothesis" -> [c EXCEPT !.hyps = @ \cup {e.id}]
    [] e.type = "evidence" /\ e.supports  -> [c EXCEPT !.pro[e.id] = @ + 1]
    [] e.type = "evidence" /\ ~e.supports -> [c EXCEPT !.con[e.id] = @ + 1]
    [] e.type = "root_cause" -> [c EXCEPT !.cause = e.id]
    [] e.type = "patch" -> [c EXCEPT !.patches = @ + 1]
    [] e.type = "test" -> [c EXCEPT !.tests = e.outcome]
    [] OTHER -> c

\* listRuns: what the list of runs tells of one, joined from the tables.
ListedRun(t) == [rootCause |-> t.cause, tests |-> t.tests]

\* reduce(): a root cause settles the verdict of the hypotheses listed so far.
\* A test event travels with the two checks of run_tests; no report of vitest
\* counts as no failure.
Show(p, e) ==
  CASE e.type = "hypothesis" -> [p EXCEPT !.case = Store(@, e), !.verdict[e.id] = "open"]
    [] e.type = "root_cause" ->
         [p EXCEPT !.case = Store(@, e),
                   !.verdict = [h \in Ids |-> IF h = e.id THEN "confirmed"
                                              ELSE IF h \in p.case.hyps THEN "eliminated" ELSE @[h]]]
    [] e.type = "uncompiled" -> [p EXCEPT !.compiles = "bad"]
    [] e.type = "test" -> [p EXCEPT !.case = Store(@, e), !.compiles = "ok",
                                    !.suite = IF e.outcome = "red" THEN "bad" ELSE "ok"]
    [] e.type = "code_location" -> [p EXCEPT !.case.located = TRUE]
    [] e.type = "attack_assessment" -> [p EXCEPT !.case.assessed = TRUE]
    [] OTHER -> [p EXCEPT !.case = Store(@, e)]

Emit(e) == page' = Show(page, e) /\ tables' = Store(tables, e)

-----------------------------------------------------------------------------
(* The tools. A tool is called in a phase of the agent's conversation.     *)

Registry(k) ==
  {"report_hypothesis", "report_evidence", "report_root_cause", "apply_patch", "run_tests"}
  \cup (IF k = "attack" THEN {"report_code_location", "report_attack_assessment"} ELSE {})

\* execute(): a tool of this kind of run is called, and accepts.
Called(tool) ==
  /\ pc \in Working /\ tool \in Registry(kind)
  /\ tool # "apply_patch" => UNCHANGED tree
  /\ UNCHANGED <<kind, pc, baseline, before, after, at>>

ReportHypothesis(h) ==
  /\ Called("report_hypothesis")
  /\ h \notin findings.hyps
  /\ findings' = [findings EXCEPT !.hyps = @ \cup {h}]
  /\ Emit([type |-> "hypothesis", id |-> h])

ReportEvidence(h, supports) ==
  /\ Called("report_evidence")
  /\ h \in findings.hyps
  /\ findings.pro[h] + findings.con[h] < MaxEvidence
  /\ findings' = IF supports THEN [findings EXCEPT !.pro[h] = @ + 1]
                             ELSE [findings EXCEPT !.con[h] = @ + 1]
  /\ Emit([type |-> "evidence", id |-> h, supports |-> supports])

Examined(c, h) == c.pro[h] + c.con[h] > 0

\* Faulty: alternatives nobody tested do not stand in the way.
CanConcludeUnexamined(h) ==
  /\ Cardinality(findings.hyps) >= MinHypotheses
  /\ h \in findings.hyps
  /\ findings.pro[h] >= 2

CanConclude(h) ==
  /\ Cardinality(findings.hyps) >= MinHypotheses
  /\ h \in findings.hyps
  /\ findings.pro[h] >= 2
  /\ \A g \in findings.hyps : Examined(findings, g)

\* A later root cause replaces an earlier one.
ReportRootCause(h) ==
  /\ Called("report_root_cause")
  /\ CanConclude(h)
  /\ findings' = [findings EXCEPT !.cause = h]
  /\ Emit([type |-> "root_cause", id |-> h])

ReportCodeLocation ==
  /\ Called("report_code_location")
  /\ findings.cause # NoId
  /\ findings' = [findings EXCEPT !.located = TRUE]
  /\ Emit([type |-> "code_location"])

ReportAttackAssessment ==
  /\ Called("report_attack_assessment")
  /\ findings' = [findings EXCEPT !.assessed = TRUE]
  /\ Emit([type |-> "attack_assessment"])

\* The text to replace occurs once, and the replacement changes it.
ApplyPatch ==
  /\ Called("apply_patch")
  /\ findings.cause # NoId
  /\ kind = "attack" => findings.located
  /\ findings.patches < MaxPatches
  /\ findings' = [findings EXCEPT !.patches = @ + 1]
  /\ tree' \in Quality
  /\ Emit([type |-> "patch"])

\* Code that does not compile, or a compiler that runs out of time, leaves the
\* last result; vitest may write no report.
RunTests ==
  /\ Called("run_tests")
  /\ \/ UNCHANGED findings /\ Emit([type |-> "uncompiled"])
     \/ \E o \in {tree, "empty"} \ {"uncompiled"} :
          findings' = [findings EXCEPT !.tests = o] /\ Emit([type |-> "test", outcome |-> o])

-----------------------------------------------------------------------------
(* The drivers.                                                            *)

Goto(next) == pc' = next

NextPhase ==
  /\ \/ pc = "investigate" /\ Goto("hypothesize")
     \/ pc = "hypothesize" /\ Goto("prove")
  /\ UNCHANGED <<kind, findings, page, tables, baseline, before, after, tree, at>>

\* The simulation started with the run reads the code of some moment.
MeasureBaseline ==
  /\ baseline.running
  /\ \E reading \in {{}, {findings.patches}} :
       baseline' = [running |-> FALSE, reading |-> reading]
  /\ UNCHANGED <<kind, pc, findings, page, tables, before, after, tree, at>>

CollectBaseline ==
  /\ pc = "prove" /\ ~baseline.running
  /\ before' = baseline.reading
  /\ Goto("fix")
  /\ UNCHANGED <<kind, findings, page, tables, baseline, after, tree, at>>

Conclude == IF findings.tests = "green" THEN "report" ELSE "unverified"
AfterVerify == IF kind = "attack" /\ ~findings.assessed THEN "assess" ELSE Conclude

EndFix ==
  /\ pc = "fix"
  /\ Goto(IF findings.patches > 0 /\ before # {} THEN "measure" ELSE AfterVerify)
  /\ UNCHANGED <<kind, findings, page, tables, baseline, before, after, tree, at>>

\* measureMemory, measureAttack; a failure leaves null.
Measure ==
  /\ pc = "measure"
  /\ after' \in {{}, {findings.patches}}
  /\ Goto(AfterVerify)
  /\ UNCHANGED <<kind, findings, page, tables, baseline, before, tree, at>>

EndAssess ==
  /\ pc = "assess"
  /\ Goto(Conclude)
  /\ UNCHANGED <<kind, findings, page, tables, baseline, before, after, tree, at>>

WriteReport ==
  /\ pc = "report"
  /\ Goto("resolved")
  /\ UNCHANGED <<kind, findings, page, tables, baseline, before, after, tree, at>>

\* Faulty: the page goes on from what it has.
ThrowKeepsPage ==
  /\ pc \in Live
  /\ Goto(IF kind = "incident" /\ Tape # <<>> THEN "replay" ELSE "fatal")
  /\ UNCHANGED <<kind, findings, page, tables, baseline, before, after, tree, at>>

\* The run throws or is aborted: an incident goes on with the recording, for
\* which the page starts again and the tables do not.
Throw ==
  /\ pc \in Live
  /\ IF kind = "incident" /\ Tape # <<>> THEN Goto("replay") /\ page' = NoPage
                                         ELSE Goto("fatal") /\ UNCHANGED page
  /\ UNCHANGED <<kind, findings, tables, baseline, before, after, tree, at>>

Replay ==
  /\ pc = "replay"
  /\ IF at = Len(Tape) THEN Goto("replayed") /\ UNCHANGED <<page, tables, at>>
     ELSE /\ at' = at + 1
          /\ Emit(Tape[at + 1])
          /\ UNCHANGED pc
  /\ UNCHANGED <<kind, findings, baseline, before, after, tree>>

CallTool ==
  \/ \E h \in Ids : \/ ReportHypothesis(h) \/ ReportRootCause(h)
                    \/ \E supports \in BOOLEAN : ReportEvidence(h, supports)
  \/ ReportCodeLocation \/ ReportAttackAssessment \/ ApplyPatch \/ RunTests

Drive == \/ NextPhase \/ MeasureBaseline \/ CollectBaseline \/ EndFix \/ Measure
         \/ EndAssess \/ WriteReport \/ Throw \/ Replay

Next == CallTool \/ Drive

Spec == Init /\ [][Next]_vars

-----------------------------------------------------------------------------
(* What the findings promise.                                              *)

\* Before the fallback, three accounts of the run agree: what the tools wrote,
\* what the page folded from the events, and what the tables hold ("the
\* findings below are all derivable from run_events", schema.sql:55-58). The
\* tables know nothing of locations and assessments.
ReadersAgree ==
  pc \notin {"replay", "replayed"} =>
    /\ page.case = findings
    /\ tables = [findings EXCEPT !.located = FALSE, !.assessed = FALSE]

PageOfTape[n \in 0..Len(Tape)] ==
  IF n = 0 THEN NoPage ELSE Show(PageOfTape[n - 1], Tape[n])

\* After it, the page shows the recording from its beginning and nothing of
\* the abandoned attempt (useInvestigation.ts:107-110), while the tables keep
\* both; the list of runs names the recording's cause and result as soon as
\* they are told, until then the abandoned ones.
FallbackStartsOver ==
  pc \in {"replay", "replayed"} =>
    /\ page = PageOfTape[at]
    /\ tables.hyps = findings.hyps \cup page.case.hyps
    /\ tables.patches = findings.patches + page.case.patches
    /\ ListedRun(tables) =
         [rootCause |-> IF page.case.cause # NoId THEN page.case.cause ELSE findings.cause,
          tests |-> IF page.case.tests # "none" THEN page.case.tests ELSE findings.tests]
    /\ \A h \in Ids : /\ tables.pro[h] = findings.pro[h] + page.case.pro[h]
                      /\ tables.con[h] = findings.con[h] + page.case.con[h]

\* No hypothesis is struck out on the page that nobody tested, none confirmed
\* without two pieces of support and a competitor, and nothing is patched
\* before some cause is confirmed and, for an attack, located: the ordering
\* rules of report.ts:4-13, whatever order the model calls the tools in.
VerdictsAreEarned ==
  pc \notin {"replay", "replayed"} =>
    /\ \A h \in Ids :
         /\ page.verdict[h] = "eliminated" => Examined(page.case, h)
         /\ page.verdict[h] = "confirmed" <=> h = page.case.cause
         /\ page.verdict[h] = "confirmed" =>
              page.case.pro[h] >= 2 /\ \E g \in page.case.hyps \ {h} : page.verdict[g] # "confirmed"
    /\ page.case.patches > 0 => /\ page.case.cause # NoId
                                /\ kind = "attack" => page.case.located

\* The measurement after the fix is of a patched code, and an incident's of the
\* code with every patch of the run: no patch comes between it and the report
\* (investigator.ts:85-97). An attack may be patched again by the assessment
\* that follows. The earlier one is never of newer code.
FixIsMeasuredLast ==
  /\ kind = "incident" => after \subseteq {findings.patches}
  /\ \A a \in after : a > 0 /\ \A b \in before : b <= a

\* The earlier one is of the code as it was: "Baseline memory has to be measured
\* before the agent touches anything" (investigator.ts:50), "Baseline attack
\* replay has to run against the unpatched code" (attackInvestigator.ts:49). The
\* code waits for it only after the prove phase, in which a patch is possible.
\* The code does not keep this (README, section 3).
BaselineIsUnpatched == before \subseteq {0}

\* "The fix is verified. Write the incident report." (prompts.ts:80): the code
\* that the report is about passes its tests.
\* The code does not keep this (README, section 3).
ReportedFixPasses == pc \in {"report", "resolved"} => tree = "green"

=============================================================================
