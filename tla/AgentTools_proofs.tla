-------------------------- MODULE AgentTools_proofs --------------------------
(***************************************************************************)
(* For any hypotheses, kinds of run, recordings and numbers of calls: the  *)
(* page and the tables agree with the findings, verdicts are earned, and   *)
(* the later measurement is of the last patch.                             *)
(***************************************************************************)
EXTENDS AgentTools, FiniteSetTheorems, WellFoundedInduction, TLAPS

\* The declared cause is one of the listed hypotheses.
CauseIsListed ==
  pc \notin {"replay", "replayed"} => page.case.cause \in page.case.hyps \cup {NoId}

\* Nothing is measured after the fix before the fix is over, and nothing that
\* was measured had more patches than there are.
MeasuredInOrder ==
  /\ pc \in {"investigate", "hypothesize", "prove", "fix", "measure"} => after = {}
  /\ kind = "incident" => pc # "assess" /\ after \subseteq {findings.patches}
  /\ pc = "measure" => findings.patches > 0
  /\ \A b \in before \cup baseline.reading : b <= findings.patches
  /\ \A b \in before : \A a \in after : b <= a
  /\ \A a \in after : a > 0

IInv == TypeOK /\ ReadersAgree /\ CauseIsListed /\ VerdictsAreEarned /\ MeasuredInOrder

LEMMA StoreType ==
  ASSUME NEW c \in Case, NEW e \in FindingEvent
  PROVE  Store(c, e) \in Case
<1>1. CASE e \in [type: {"hypothesis", "root_cause"}, id: Ids]
  BY <1>1 DEF Store, Case, Count
<1>2. CASE e \in [type: {"evidence"}, id: Ids, supports: BOOLEAN]
  <2>1. /\ [c.pro EXCEPT ![e.id] = @ + 1] \in Count
        /\ [c.con EXCEPT ![e.id] = @ + 1] \in Count
    BY <1>2 DEF Case, Count
  <2>2. CASE e.supports
    <3>1. Store(c, e) = [c EXCEPT !.pro[e.id] = @ + 1]
      BY <1>2, <2>2 DEF Store
    <3> QED BY <2>1, <3>1 DEF Case
  <2>3. CASE ~e.supports
    <3>1. Store(c, e) = [c EXCEPT !.con[e.id] = @ + 1]
      BY <1>2, <2>3 DEF Store
    <3> QED BY <2>1, <3>1 DEF Case
  <2> QED BY <2>2, <2>3
<1>3. CASE e \in [type: {"patch", "code_location", "attack_assessment", "uncompiled"}]
  BY <1>3 DEF Store, Case, Count
<1>4. CASE e \in [type: {"test"}, outcome: TestOutcome]
  BY <1>4 DEF Store, Case, Count
<1> QED BY <1>1, <1>2, <1>3, <1>4 DEF FindingEvent

LEMMA ShowType ==
  ASSUME NEW p \in Page, NEW e \in FindingEvent
  PROVE  Show(p, e) \in Page
<1>0. Store(p.case, e) \in Case
  BY StoreType DEF Page
<1>1. CASE e \in [type: {"hypothesis", "root_cause"}, id: Ids]
  BY <1>0, <1>1 DEF Show, Page
<1>2. CASE e \in [type: {"evidence"}, id: Ids, supports: BOOLEAN]
  BY <1>0, <1>2 DEF Show, Page
<1>3. CASE e \in [type: {"patch", "code_location", "attack_assessment", "uncompiled"}]
  BY <1>0, <1>3 DEF Show, Page, Case, Check
<1>4. CASE e \in [type: {"test"}, outcome: TestOutcome]
  BY <1>0, <1>4 DEF Show, Page, Check
<1> QED BY <1>1, <1>2, <1>3, <1>4 DEF FindingEvent

\* The invariant holds at the start.
LEMMA InitIInv == Init => IInv
<1> SUFFICES ASSUME Init PROVE IInv
  OBVIOUS
<1>1. NoCase \in Case /\ NoPage \in Page
  BY DEF NoCase, NoPage, Case, Page, Count, Check
<1>2. TypeOK
  BY <1>1, ToolAssumption DEF Init, TypeOK, Live, Working, Quality, Reading
<1>3. ReadersAgree /\ CauseIsListed
  <2>1. NoCase.located = FALSE /\ NoCase.assessed = FALSE /\ NoCase.cause = NoId /\ NoPage.case = NoCase
    BY DEF NoCase, NoPage
  <2>2. NoCase = [NoCase EXCEPT !.located = FALSE, !.assessed = FALSE]
    BY <1>1, <2>1 DEF Case
  <2> QED BY <2>1, <2>2 DEF Init, ReadersAgree, CauseIsListed
<1>5. MeasuredInOrder
  BY DEF Init, MeasuredInOrder
<1>4. VerdictsAreEarned
  <2>1. page.verdict = [h \in Ids |-> "open"] /\ page.case.cause = NoId /\ page.case.patches = 0
    BY DEF Init, NoPage, NoCase
  <2> QED BY <2>1, ToolAssumption DEF VerdictsAreEarned
<1> QED BY <1>2, <1>3, <1>4, <1>5 DEF IInv

\* A tool call leaves the run among those still told of its own events.
LEMMA ToolIsLive ==
  ASSUME TypeOK, NEW tool, Called(tool)
  PROVE  /\ pc \in Working /\ pc' = pc /\ pc \notin {"replay", "replayed"}
         /\ kind' = kind /\ baseline' = baseline /\ before' = before /\ after' = after /\ at' = at
         /\ tool # "apply_patch" => tree' = tree
BY DEF Called, Working

\* What a step that emits an event does to the types.
LEMMA EmitType ==
  ASSUME TypeOK, NEW e \in FindingEvent, Emit(e)
  PROVE  page' \in Page /\ tables' \in Case
BY StoreType, ShowType DEF TypeOK, Emit

\* Counting evidence.
LEMMA CountUp ==
  ASSUME NEW c \in Count, NEW h \in Ids
  PROVE  [c EXCEPT ![h] = @ + 1] \in Count
BY DEF Count

\* The types are kept by every step.
LEMMA TypeStep == TypeOK /\ [Next]_vars => TypeOK'
<1> SUFFICES ASSUME TypeOK, [Next]_vars PROVE TypeOK'
  OBVIOUS
<1> USE ToolAssumption
<1>1. ASSUME NEW h \in Ids, ReportHypothesis(h) PROVE TypeOK'
  <2>1. [type |-> "hypothesis", id |-> h] \in FindingEvent
    BY DEF FindingEvent
  <2>2. page' \in Page /\ tables' \in Case
    BY <1>1, <2>1, EmitType DEF ReportHypothesis
  <2>3. findings' \in Case
    BY <1>1 DEF ReportHypothesis, TypeOK, Case
  <2> QED BY <1>1, <2>2, <2>3 DEF ReportHypothesis, Called, TypeOK
<1>2. ASSUME NEW h \in Ids, NEW supports \in BOOLEAN, ReportEvidence(h, supports) PROVE TypeOK'
  <2>1. [type |-> "evidence", id |-> h, supports |-> supports] \in FindingEvent
    BY DEF FindingEvent
  <2>2. page' \in Page /\ tables' \in Case
    BY <1>2, <2>1, EmitType DEF ReportEvidence
  <2>3. findings' \in Case
    BY <1>2, CountUp DEF ReportEvidence, TypeOK, Case, Count
  <2> QED BY <1>2, <2>2, <2>3 DEF ReportEvidence, Called, TypeOK
<1>3. ASSUME NEW h \in Ids, ReportRootCause(h) PROVE TypeOK'
  <2>1. [type |-> "root_cause", id |-> h] \in FindingEvent
    BY DEF FindingEvent
  <2>2. page' \in Page /\ tables' \in Case
    BY <1>3, <2>1, EmitType DEF ReportRootCause
  <2>3. findings' \in Case
    BY <1>3 DEF ReportRootCause, TypeOK, Case
  <2> QED BY <1>3, <2>2, <2>3 DEF ReportRootCause, Called, TypeOK
<1>4. CASE ReportCodeLocation
  <2>1. [type |-> "code_location"] \in FindingEvent
    BY DEF FindingEvent
  <2>2. page' \in Page /\ tables' \in Case
    BY <1>4, <2>1, EmitType DEF ReportCodeLocation
  <2>3. findings' \in Case
    BY <1>4 DEF ReportCodeLocation, TypeOK, Case
  <2> QED BY <1>4, <2>2, <2>3 DEF ReportCodeLocation, Called, TypeOK
<1>5. CASE ReportAttackAssessment
  <2>1. [type |-> "attack_assessment"] \in FindingEvent
    BY DEF FindingEvent
  <2>2. page' \in Page /\ tables' \in Case
    BY <1>5, <2>1, EmitType DEF ReportAttackAssessment
  <2>3. findings' \in Case
    BY <1>5 DEF ReportAttackAssessment, TypeOK, Case
  <2> QED BY <1>5, <2>2, <2>3 DEF ReportAttackAssessment, Called, TypeOK
<1>6. CASE ApplyPatch
  <2>1. [type |-> "patch"] \in FindingEvent
    BY DEF FindingEvent
  <2>2. page' \in Page /\ tables' \in Case
    BY <1>6, <2>1, EmitType DEF ApplyPatch
  <2>3. findings' \in Case
    BY <1>6, SMTT(30) DEF ApplyPatch, TypeOK, Case
  <2> QED BY <1>6, <2>2, <2>3 DEF ApplyPatch, Called, TypeOK
<1>7. CASE RunTests
  <2>1. CASE UNCHANGED findings /\ Emit([type |-> "uncompiled"])
    <3>1. [type |-> "uncompiled"] \in FindingEvent
      BY DEF FindingEvent
    <3>2. page' \in Page /\ tables' \in Case
      BY <2>1, <3>1, EmitType
    <3> QED BY <1>7, <2>1, <3>2 DEF RunTests, Called, TypeOK
  <2>2. ASSUME NEW o \in {tree, "empty"} \ {"uncompiled"},
               findings' = [findings EXCEPT !.tests = o], Emit([type |-> "test", outcome |-> o])
        PROVE  TypeOK'
    <3>0. o \in TestOutcome
      BY DEF TypeOK, Quality, TestOutcome
    <3>1. [type |-> "test", outcome |-> o] \in FindingEvent
      BY <3>0 DEF FindingEvent
    <3>2. page' \in Page /\ tables' \in Case
      BY <2>2, <3>1, EmitType
    <3>3. findings' \in Case
      BY <2>2, <3>0 DEF TypeOK, Case
    <3> QED BY <1>7, <3>2, <3>3 DEF RunTests, Called, TypeOK
  <2> QED BY <1>7, <2>1, <2>2 DEF RunTests
<1>8. ASSUME Drive, ~Replay PROVE TypeOK'
  <2> USE DEF TypeOK, Goto, Live, Working, Ended, Reading, Case
  <2>1. CASE NextPhase \/ EndAssess \/ WriteReport \/ EndFix
    BY <2>1 DEF NextPhase, EndAssess, WriteReport, EndFix, AfterVerify, Conclude
  <2>2. CASE MeasureBaseline
    BY <2>2 DEF MeasureBaseline
  <2>3. CASE CollectBaseline
    BY <2>3 DEF CollectBaseline
  <2>4. CASE Measure
    BY <2>4 DEF Measure, AfterVerify, Conclude
  <2>5. CASE Throw
    <3>1. NoPage \in Page
      BY DEF NoCase, NoPage, Case, Page, Count, Check
    <3> QED BY <2>5, <3>1 DEF Throw
  <2> QED BY <1>8, <2>1, <2>2, <2>3, <2>4, <2>5 DEF Drive
<1>9. CASE Replay
  <2>1. CASE at = Len(Tape)
    BY <1>9, <2>1 DEF Replay, TypeOK, Goto, Ended
  <2>2. CASE at # Len(Tape)
    <3>1. at + 1 \in 1..Len(Tape) /\ Tape[at + 1] \in FindingEvent
      BY <2>2 DEF TypeOK
    <3>2. page' \in Page /\ tables' \in Case
      BY <1>9, <2>2, <3>1, EmitType DEF Replay
    <3> QED BY <1>9, <2>2, <3>1, <3>2 DEF Replay, TypeOK
  <2> QED BY <2>1, <2>2
<1>10. CASE UNCHANGED vars
  BY <1>10 DEF vars, TypeOK
<1> QED BY <1>1, <1>2, <1>3, <1>4, <1>5, <1>6, <1>7, <1>8, <1>9, <1>10 DEF Next, CallTool

\* The three accounts of a finding move together.
LEMMA AgreeStep == TypeOK /\ ReadersAgree /\ [Next]_vars => ReadersAgree'
<1> SUFFICES ASSUME TypeOK, ReadersAgree, [Next]_vars PROVE ReadersAgree'
  OBVIOUS
<1> DEFINE Told(c) == [c EXCEPT !.located = FALSE, !.assessed = FALSE]
<1>0. ASSUME pc \in Working
      PROVE  /\ page.case = findings /\ tables = Told(findings)
             /\ findings \in Case /\ page \in Page
  BY <1>0 DEF ReadersAgree, TypeOK, Working
<1>1. ASSUME NEW h \in Ids, ReportHypothesis(h) PROVE ReadersAgree'
  BY <1>0, <1>1 DEF ReportHypothesis, Called, Emit, Show, Store, ReadersAgree, Case, Page
<1>2. ASSUME NEW h \in Ids, NEW supports \in BOOLEAN, ReportEvidence(h, supports) PROVE ReadersAgree'
  <2>1. CASE supports
    BY <1>0, <1>2, <2>1 DEF ReportEvidence, Called, Emit, Show, Store, ReadersAgree, Case, Page, Count
  <2>2. CASE ~supports
    BY <1>0, <1>2, <2>2 DEF ReportEvidence, Called, Emit, Show, Store, ReadersAgree, Case, Page, Count
  <2> QED BY <2>1, <2>2
<1>3. ASSUME NEW h \in Ids, ReportRootCause(h) PROVE ReadersAgree'
  BY <1>0, <1>3 DEF ReportRootCause, Called, Emit, Show, Store, ReadersAgree, Case, Page
<1>4. CASE ReportCodeLocation
  BY <1>0, <1>4 DEF ReportCodeLocation, Called, Emit, Show, Store, ReadersAgree, Case, Page
<1>11. CASE ReportAttackAssessment
  BY <1>0, <1>11 DEF ReportAttackAssessment, Called, Emit, Show, Store, ReadersAgree, Case, Page
<1>5. CASE ApplyPatch
  BY <1>0, <1>5 DEF ApplyPatch, Called, Emit, Show, Store, ReadersAgree, Case, Page
<1>6. CASE RunTests
  <2>1. CASE UNCHANGED findings /\ Emit([type |-> "uncompiled"])
    BY <1>0, <1>6, <2>1 DEF RunTests, Called, Emit, Show, Store, ReadersAgree, Case, Page
  <2>2. ASSUME NEW o \in {tree, "empty"} \ {"uncompiled"},
               findings' = [findings EXCEPT !.tests = o], Emit([type |-> "test", outcome |-> o])
        PROVE  ReadersAgree'
    BY <1>0, <1>6, <2>2, ZenonT(30) DEF RunTests, Called, Emit, Show, Store, ReadersAgree, Case, Page
  <2> QED BY <1>6, <2>1, <2>2 DEF RunTests
<1>7. CASE NextPhase \/ CollectBaseline \/ EndFix \/ Measure \/ EndAssess \/ WriteReport
  <2>1. pc \notin {"replay", "replayed"} /\ UNCHANGED <<findings, page, tables>>
    BY <1>7 DEF NextPhase, CollectBaseline, EndFix, Measure, EndAssess, WriteReport
  <2> QED BY <2>1 DEF ReadersAgree
<1>8. CASE MeasureBaseline \/ UNCHANGED vars
  BY <1>8 DEF MeasureBaseline, vars, ReadersAgree
<1>9. CASE Throw
  BY <1>9 DEF Throw, Goto, Live, Working, ReadersAgree
<1>10. CASE Replay
  BY <1>10 DEF Replay, Goto, ReadersAgree
<1> QED BY <1>1, <1>2, <1>3, <1>4, <1>5, <1>6, <1>7, <1>8, <1>9, <1>10, <1>11 DEF Next, CallTool, Drive

\* What the page shows after an event.
LEMMA ShowsHypothesis ==
  ASSUME NEW p \in Page, NEW h \in Ids
  PROVE  LET q == Show(p, [type |-> "hypothesis", id |-> h])
         IN q.case = [p.case EXCEPT !.hyps = @ \cup {h}] /\ q.verdict = [p.verdict EXCEPT ![h] = "open"]
BY DEF Show, Store, Page

LEMMA ShowsEvidence ==
  ASSUME NEW p \in Page, NEW h \in Ids, NEW supports \in BOOLEAN
  PROVE  LET q == Show(p, [type |-> "evidence", id |-> h, supports |-> supports])
         IN /\ q.case = IF supports THEN [p.case EXCEPT !.pro[h] = @ + 1]
                                    ELSE [p.case EXCEPT !.con[h] = @ + 1]
            /\ q.verdict = p.verdict
BY DEF Show, Store, Page

LEMMA ShowsCause ==
  ASSUME NEW p \in Page, NEW h \in Ids
  PROVE  LET q == Show(p, [type |-> "root_cause", id |-> h])
         IN /\ q.case = [p.case EXCEPT !.cause = h]
            /\ q.verdict = [g \in Ids |-> IF g = h THEN "confirmed"
                              ELSE IF g \in p.case.hyps THEN "eliminated" ELSE p.verdict[g]]
BY DEF Show, Store, Page

LEMMA ShowsPatch ==
  ASSUME NEW p \in Page
  PROVE  LET q == Show(p, [type |-> "patch"])
         IN q.case = [p.case EXCEPT !.patches = @ + 1] /\ q.verdict = p.verdict
BY DEF Show, Store, Page

Verdict == [Ids -> {"open", "confirmed", "eliminated"}]
Listed(c) == c.cause \in c.hyps \cup {NoId}

\* The first half of VerdictsAreEarned, of the findings and verdicts of a page.
Earned(c, v) ==
  \A h \in Ids :
    /\ v[h] = "eliminated" => Examined(c, h)
    /\ v[h] = "confirmed" <=> h = c.cause
    /\ v[h] = "confirmed" => c.pro[h] >= 2 /\ \E g \in c.hyps \ {h} : v[g] # "confirmed"

PatchIsEarned(c, k) ==
  c.patches > 0 => c.cause # NoId /\ (k = "attack" => c.located)

Fair(c, v, k) == Listed(c) /\ Earned(c, v) /\ PatchIsEarned(c, k)

\* Two hypotheses and one of them leave another.
LEMMA Competitor ==
  ASSUME NEW S \in SUBSET Ids, NEW h \in S, Cardinality(S) >= MinHypotheses
  PROVE  \E g \in S \ {h} : TRUE
<1> SUFFICES ASSUME S \ {h} = {} PROVE FALSE
  OBVIOUS
<1>1. S = {h}
  OBVIOUS
<1> QED BY <1>1, FS_Singleton, SMTT(30) DEF MinHypotheses

\* Nothing that can be added to an earned page takes a verdict's ground away.
LEMMA FairHypothesis ==
  ASSUME NEW c \in Case, NEW v \in Verdict, NEW k, Fair(c, v, k), NEW h \in Ids \ c.hyps
  PROVE  Fair([c EXCEPT !.hyps = @ \cup {h}], [v EXCEPT ![h] = "open"], k)
<1> DEFINE d == [c EXCEPT !.hyps = @ \cup {h}]
<1>1. /\ d.hyps = c.hyps \cup {h} /\ d.pro = c.pro /\ d.con = c.con /\ d.cause = c.cause
      /\ d.patches = c.patches /\ d.located = c.located
  BY DEF Case
<1>2. h # c.cause
  BY ToolAssumption DEF Fair, Listed
<1> HIDE DEF d
<1> QED BY <1>1, <1>2 DEF Fair, Listed, Earned, PatchIsEarned, Examined, Verdict

LEMMA FairMore ==
  ASSUME NEW c \in Case, NEW v \in Verdict, NEW k, Fair(c, v, k), NEW d \in Case,
         d.hyps = c.hyps, d.cause = c.cause, d.patches = c.patches, c.located => d.located,
         \A h \in Ids : d.pro[h] >= c.pro[h] /\ d.con[h] >= c.con[h]
  PROVE  Fair(d, v, k)
BY DEF Fair, Listed, Earned, PatchIsEarned, Examined, Case, Count

LEMMA FairPatch ==
  ASSUME NEW c \in Case, NEW v \in Verdict, NEW k, Fair(c, v, k),
         c.cause # NoId, k = "attack" => c.located
  PROVE  Fair([c EXCEPT !.patches = @ + 1], v, k)
<1> DEFINE d == [c EXCEPT !.patches = @ + 1]
<1>1. /\ d.hyps = c.hyps /\ d.pro = c.pro /\ d.con = c.con /\ d.cause = c.cause /\ d.located = c.located
  BY DEF Case
<1> HIDE DEF d
<1> QED BY <1>1 DEF Fair, Listed, Earned, PatchIsEarned, Examined

LEMMA FairCause ==
  ASSUME NEW c \in Case, NEW v \in Verdict, NEW k, Fair(c, v, k), NEW h \in c.hyps,
         Cardinality(c.hyps) >= MinHypotheses, c.pro[h] >= 2, \A g \in c.hyps : Examined(c, g)
  PROVE  Fair([c EXCEPT !.cause = h],
              [g \in Ids |-> IF g = h THEN "confirmed"
                             ELSE IF g \in c.hyps THEN "eliminated" ELSE v[g]], k)
<1> DEFINE d == [c EXCEPT !.cause = h]
           w == [g \in Ids |-> IF g = h THEN "confirmed"
                               ELSE IF g \in c.hyps THEN "eliminated" ELSE v[g]]
<1>1. /\ d.hyps = c.hyps /\ d.pro = c.pro /\ d.con = c.con /\ d.cause = h
      /\ d.patches = c.patches /\ d.located = c.located /\ c.hyps \subseteq Ids
  BY DEF Case
<1>2. PICK g \in c.hyps \ {h} : TRUE
  BY <1>1, Competitor
<1>3. \A x \in Ids : x \notin c.hyps => v[x] # "confirmed"
  BY ToolAssumption DEF Fair, Earned, Listed
<1>4. Earned(d, w)
  <2> SUFFICES ASSUME NEW x \in Ids
               PROVE  /\ w[x] = "eliminated" => Examined(d, x)
                      /\ w[x] = "confirmed" <=> x = d.cause
                      /\ w[x] = "confirmed" => d.pro[x] >= 2 /\ \E y \in d.hyps \ {x} : w[y] # "confirmed"
    BY DEF Earned
  <2>1. w[x] = "eliminated" => Examined(d, x)
    BY <1>1 DEF Fair, Earned, Examined
  <2>2. w[x] = "confirmed" <=> x = h
    BY <1>3 DEF Verdict
  <2>3. w[g] # "confirmed"
    BY <1>1, <1>2
  <2> QED BY <1>1, <1>2, <2>1, <2>2, <2>3
<1> QED BY <1>1, <1>4, ToolAssumption DEF Fair, Listed, PatchIsEarned

\* A verdict that was earned stays earned, and a root cause earns its own.
LEMMA VerdictStep == IInv /\ [Next]_vars => CauseIsListed' /\ VerdictsAreEarned'
<1> SUFFICES ASSUME IInv, [Next]_vars PROVE CauseIsListed' /\ VerdictsAreEarned'
  OBVIOUS
<1>0. TypeOK /\ ReadersAgree
  BY DEF IInv
<1>a. SUFFICES ASSUME pc' \notin {"replay", "replayed"}
      PROVE  Fair(page'.case, page'.verdict, kind')
  BY DEF CauseIsListed, VerdictsAreEarned, Fair, Listed, Earned, PatchIsEarned
<1>b. ASSUME pc \notin {"replay", "replayed"}
      PROVE  /\ Fair(page.case, page.verdict, kind) /\ page.case = findings
             /\ page \in Page /\ findings \in Case /\ page.verdict \in Verdict
  BY <1>0, <1>b DEF IInv, CauseIsListed, VerdictsAreEarned, Fair, Listed, Earned, PatchIsEarned,
                    ReadersAgree, TypeOK, Page, Verdict
<1>c. ASSUME pc \in Working
      PROVE  /\ Fair(findings, page.verdict, kind) /\ page.case = findings
             /\ page \in Page /\ findings \in Case /\ page.verdict \in Verdict
  <2>1. pc \notin {"replay", "replayed"}
    BY <1>c DEF Working
  <2> QED BY <1>b, <2>1
<1>1. ASSUME NEW h \in Ids, ReportHypothesis(h)
      PROVE  Fair(page'.case, page'.verdict, kind')
  <2>1. /\ pc \in Working /\ kind' = kind /\ h \notin findings.hyps
        /\ page' = Show(page, [type |-> "hypothesis", id |-> h])
    BY <1>1 DEF ReportHypothesis, Called, Emit
  <2>2. /\ page'.case = [findings EXCEPT !.hyps = @ \cup {h}]
        /\ page'.verdict = [page.verdict EXCEPT ![h] = "open"]
    BY <1>c, <2>1, ShowsHypothesis
  <2>3. PICK c \in Case, v \in Verdict, k \in {kind} : c = findings /\ v = page.verdict /\ k = kind
    BY <1>c, <2>1
  <2>4. Fair([c EXCEPT !.hyps = @ \cup {h}], [v EXCEPT ![h] = "open"], k)
    BY <1>c, <2>1, <2>3, FairHypothesis
  <2> QED BY <2>1, <2>2, <2>3, <2>4
<1>2. ASSUME NEW h \in Ids, NEW supports \in BOOLEAN, ReportEvidence(h, supports)
      PROVE  Fair(page'.case, page'.verdict, kind')
  <2>1. /\ pc \in Working /\ kind' = kind
        /\ page' = Show(page, [type |-> "evidence", id |-> h, supports |-> supports])
    BY <1>2 DEF ReportEvidence, Called, Emit
  <2>2. page'.verdict = page.verdict
    BY <1>c, <2>1, ShowsEvidence
  <2>3. page'.case = IF supports THEN [findings EXCEPT !.pro[h] = @ + 1]
                                 ELSE [findings EXCEPT !.con[h] = @ + 1]
    BY <1>c, <2>1, ShowsEvidence
  <2>4. /\ page'.case \in Case
        /\ page'.case.hyps = findings.hyps /\ page'.case.cause = findings.cause
        /\ page'.case.patches = findings.patches /\ page'.case.located = findings.located
        /\ \A g \in Ids : page'.case.pro[g] >= findings.pro[g] /\ page'.case.con[g] >= findings.con[g]
    <3>1. findings \in Case
      BY <1>c, <2>1
    <3>2. CASE supports
      BY <2>3, <3>1, <3>2 DEF Case, Count
    <3>3. CASE ~supports
      BY <2>3, <3>1, <3>3 DEF Case, Count
    <3> QED BY <3>2, <3>3
  <2> QED BY <1>c, <2>1, <2>2, <2>4, FairMore
<1>3. ASSUME NEW h \in Ids, ReportRootCause(h)
      PROVE  Fair(page'.case, page'.verdict, kind')
  <2>1. /\ pc \in Working /\ kind' = kind
        /\ h \in findings.hyps /\ Cardinality(findings.hyps) >= MinHypotheses
        /\ findings.pro[h] >= 2 /\ \A g \in findings.hyps : Examined(findings, g)
        /\ page' = Show(page, [type |-> "root_cause", id |-> h])
    BY <1>3 DEF ReportRootCause, CanConclude, Called, Emit
  <2>2. page'.case = [findings EXCEPT !.cause = h]
    BY <1>c, <2>1, ShowsCause
  <2>3. page'.verdict = [g \in Ids |-> IF g = h THEN "confirmed"
                              ELSE IF g \in findings.hyps THEN "eliminated" ELSE page.verdict[g]]
    <3>1. PICK p \in Page : p = page
      BY <1>c, <2>1
    <3>2. Show(p, [type |-> "root_cause", id |-> h]).verdict
            = [g \in Ids |-> IF g = h THEN "confirmed"
                             ELSE IF g \in p.case.hyps THEN "eliminated" ELSE p.verdict[g]]
      BY <1>c, <2>1, ShowsCause DEF Case
    <3>3. page.case = findings
      BY <1>c, <2>1
    <3> QED BY <2>1, <3>1, <3>2, <3>3
  <2>4. PICK c \in Case, v \in Verdict, k \in {kind} : c = findings /\ v = page.verdict /\ k = kind
    BY <1>c, <2>1
  <2>5. /\ Fair(c, v, k) /\ h \in c.hyps /\ Cardinality(c.hyps) >= MinHypotheses
        /\ c.pro[h] >= 2 /\ \A g \in c.hyps : Examined(c, g)
    BY <1>c, <2>1, <2>4
  <2>6. Fair([c EXCEPT !.cause = h],
             [g \in Ids |-> IF g = h THEN "confirmed"
                            ELSE IF g \in c.hyps THEN "eliminated" ELSE v[g]], k)
    BY <2>5, FairCause
  <2> QED BY <2>1, <2>2, <2>3, <2>4, <2>6
<1>4. ASSUME ReportCodeLocation \/ ReportAttackAssessment \/ RunTests
      PROVE  Fair(page'.case, page'.verdict, kind')
  <2>1. /\ pc \in Working /\ kind' = kind /\ page'.verdict = page.verdict
        /\ \/ page'.case = findings \/ page'.case = [findings EXCEPT !.located = TRUE]
           \/ page'.case = [findings EXCEPT !.assessed = TRUE]
           \/ \E o \in TestOutcome : page'.case = [findings EXCEPT !.tests = o]
    <3>1. CASE ReportCodeLocation
      BY <1>c, <3>1 DEF ReportCodeLocation, Called, Emit, Show, Store, Page
    <3>2. CASE ReportAttackAssessment
      BY <1>c, <3>2 DEF ReportAttackAssessment, Called, Emit, Show, Store, Page
    <3>3. CASE RunTests
      <4>1. pc \in Working /\ kind' = kind
        BY <3>3 DEF RunTests, Called
      <4>2. CASE page' = Show(page, [type |-> "uncompiled"])
        BY <1>c, <4>1, <4>2 DEF Show, Store, Page
      <4>3. ASSUME NEW o \in TestOutcome, page' = Show(page, [type |-> "test", outcome |-> o])
            PROVE  page'.verdict = page.verdict /\ page'.case = [findings EXCEPT !.tests = o]
        BY <1>c, <4>1, <4>3 DEF Show, Store, Page
      <4> QED BY <1>0, <3>3, <4>1, <4>2, <4>3 DEF RunTests, Emit, TypeOK, Quality, TestOutcome
    <3> QED BY <1>4, <3>1, <3>2, <3>3
  <2>2. /\ page'.case.hyps = findings.hyps /\ page'.case.cause = findings.cause
        /\ page'.case.pro = findings.pro /\ page'.case.con = findings.con
        /\ page'.case.patches = findings.patches
        /\ findings.located => page'.case.located
        /\ page'.case \in Case
    BY <1>c, <2>1 DEF Case
  <2>3. \A g \in Ids : page'.case.pro[g] >= findings.pro[g] /\ page'.case.con[g] >= findings.con[g]
    BY <1>c, <2>1, <2>2 DEF Case, Count
  <2> QED BY <1>c, <2>1, <2>2, <2>3, FairMore
<1>5. ASSUME ApplyPatch
      PROVE  Fair(page'.case, page'.verdict, kind')
  <2>1. /\ pc \in Working /\ kind' = kind /\ findings.cause # NoId /\ (kind = "attack" => findings.located)
        /\ page' = Show(page, [type |-> "patch"])
    BY <1>5 DEF ApplyPatch, Called, Emit
  <2>2. page'.verdict = page.verdict /\ page'.case = [findings EXCEPT !.patches = @ + 1]
    BY <1>c, <2>1, ShowsPatch
  <2> QED BY <1>c, <2>1, <2>2, FairPatch
<1>6. ASSUME Drive \/ UNCHANGED vars
      PROVE  Fair(page'.case, page'.verdict, kind')
  <2>1. page' = page /\ kind' = kind /\ pc \notin {"replay", "replayed"}
    BY <1>6, <1>a DEF Drive, NextPhase, CollectBaseline, EndFix, Measure, EndAssess, WriteReport,
                      MeasureBaseline, Throw, Replay, Goto, Live, Working, vars
  <2> QED BY <1>b, <2>1
<1> QED BY <1>1, <1>2, <1>3, <1>4, <1>5, <1>6 DEF Next, CallTool

\* The order of the measurements.
LEMMA MeasureStep == TypeOK /\ MeasuredInOrder /\ [Next]_vars => MeasuredInOrder'
<1> SUFFICES ASSUME TypeOK, MeasuredInOrder, [Next]_vars PROVE MeasuredInOrder'
  OBVIOUS
<1> USE DEF TypeOK, MeasuredInOrder, Case, Reading
<1>1. ASSUME CallTool PROVE MeasuredInOrder'
  <2>1. /\ pc \in Working /\ pc' = pc /\ kind' = kind /\ baseline' = baseline
        /\ before' = before /\ after' = after
        /\ \/ findings'.patches = findings.patches
           \/ findings'.patches = findings.patches + 1
    <3>1. ASSUME NEW h \in Ids, ReportHypothesis(h) \/ ReportRootCause(h)
                                \/ \E supports \in BOOLEAN : ReportEvidence(h, supports)
          PROVE  pc \in Working /\ findings'.patches = findings.patches
                 /\ UNCHANGED <<pc, kind, baseline, before, after>>
      BY <3>1 DEF ReportHypothesis, ReportRootCause, ReportEvidence, Called
    <3>2. CASE ReportCodeLocation \/ ReportAttackAssessment \/ RunTests
      BY <3>2 DEF ReportCodeLocation, ReportAttackAssessment, RunTests, Called
    <3>3. CASE ApplyPatch
      BY <3>3 DEF ApplyPatch, Called
    <3> QED BY <1>1, <3>1, <3>2, <3>3 DEF CallTool
  <2> QED BY <2>1 DEF Working
<1>2. CASE NextPhase
  BY <1>2 DEF NextPhase, Goto
<1>3. CASE MeasureBaseline
  BY <1>3 DEF MeasureBaseline
<1>4. CASE CollectBaseline
  BY <1>4 DEF CollectBaseline, Goto
<1>5. CASE EndFix
  BY <1>5 DEF EndFix, Goto, AfterVerify, Conclude
<1>6. CASE Measure
  BY <1>6 DEF Measure, Goto, AfterVerify, Conclude
<1>7. CASE EndAssess \/ WriteReport
  BY <1>7 DEF EndAssess, WriteReport, Goto, Conclude
<1>8. CASE Throw \/ Replay
  BY <1>8 DEF Throw, Replay, Goto
<1>9. CASE UNCHANGED vars
  BY <1>9 DEF vars
<1> QED BY <1>1, <1>2, <1>3, <1>4, <1>5, <1>6, <1>7, <1>8, <1>9 DEF Next, Drive

-----------------------------------------------------------------------------

\* The strengthened invariant holds in every reachable state.
THEOREM IInvHolds == Spec => []IInv
<1>1. IInv /\ [Next]_vars => IInv'
  BY TypeStep, AgreeStep, VerdictStep, MeasureStep DEF IInv
<1> QED BY <1>1, InitIInv, PTL DEF Spec

\* Types of every variable of AgentTools.
THEOREM ToolTypes == Spec => []TypeOK
<1>1. IInv => TypeOK
  BY DEF IInv
<1> QED BY <1>1, IInvHolds, PTL

\* What the tools wrote, what the page folded and what the tables hold agree
\* until a fallback starts over (report.ts, useInvestigation.ts, store.ts).
THEOREM AccountsAgree == Spec => []ReadersAgree
<1>1. IInv => ReadersAgree
  BY DEF IInv
<1> QED BY <1>1, IInvHolds, PTL

\* The ordering rules of report.ts hold of the page, in whatever order the
\* model calls the tools.
THEOREM RulesHold == Spec => []VerdictsAreEarned
<1>1. IInv => VerdictsAreEarned
  BY DEF IInv
<1> QED BY <1>1, IInvHolds, PTL

\* The later measurement of investigator.ts is of the code that an incident's
\* report describes, with its last patch, and the earlier one of no newer code.
\* (That it was of the unpatched code does not hold: BaselineIsUnpatched.)
THEOREM FixIsMeasured == Spec => []FixIsMeasuredLast
<1>1. IInv => FixIsMeasuredLast
  BY DEF IInv, MeasuredInOrder, FixIsMeasuredLast
<1> QED BY <1>1, IInvHolds, PTL

-----------------------------------------------------------------------------
(* The fallback.                                                           *)

\* f shows the first events of the tape, up to n of them.
Shows(f, n) == f = [m \in 0..n |-> IF m = 0 THEN NoPage ELSE Show(f[m - 1], Tape[m])]

LEMMA LeastElement ==
  ASSUME NEW T \in SUBSET Nat, T # {}
  PROVE  \E x \in T : \A y \in T : x <= y
<1>1. PICK x \in T : \A y \in T : ~(<<y, x>> \in OpToRel(<, Nat))
  BY WFMin, NatLessThanWellFounded
<1>2. \A y \in T : ~(y < x)
  BY <1>1 DEF OpToRel
<1> QED BY <1>2

LEMMA ShowsExist ==
  ASSUME NEW n \in Nat PROVE \E f : Shows(f, n)
<1> DEFINE T == {m \in Nat : ~\E f : Shows(f, m)}
<1> SUFFICES ASSUME T # {} PROVE FALSE
  OBVIOUS
<1>1. PICK m \in T : \A y \in T : m <= y
  <2>1. T \in SUBSET Nat
    OBVIOUS
  <2> HIDE DEF T
  <2> QED BY <2>1, LeastElement
<1>2. CASE m = 0
  <2> DEFINE f == [k \in 0..0 |-> NoPage]
  <2>1. Shows(f, 0)
    BY DEF Shows
  <2> QED BY <1>1, <1>2, <2>1
<1>3. CASE m # 0
  <2>1. m - 1 \in Nat /\ m - 1 \notin T
    BY <1>1, <1>3
  <2>2. PICK f : Shows(f, m - 1)
    BY <2>1
  <2> DEFINE g == [k \in 0..m |-> IF k = m THEN Show(f[m - 1], Tape[m]) ELSE f[k]]
  <2>3. \A k \in 0..m - 1 : f[k] = IF k = 0 THEN NoPage ELSE Show(f[k - 1], Tape[k])
    BY <2>2 DEF Shows
  <2>4. ASSUME NEW k \in 0..m
        PROVE  g[k] = IF k = 0 THEN NoPage ELSE Show(g[k - 1], Tape[k])
    <3>1. CASE k = m
      <4>1. g[k] = Show(f[m - 1], Tape[m]) /\ g[k - 1] = f[m - 1]
        BY <1>3, <3>1
      <4> HIDE DEF g
      <4> QED BY <1>3, <3>1, <4>1
    <3>2. CASE k # m /\ k # 0
      <4>1. k \in 0..m - 1 /\ k - 1 \in 0..m - 1 /\ k - 1 # m /\ k - 1 \in 0..m
        BY <3>2
      <4>2. g[k] = f[k] /\ g[k - 1] = f[k - 1]
        BY <3>2, <4>1
      <4> HIDE DEF g
      <4> QED BY <2>3, <3>2, <4>1, <4>2
    <3>3. CASE k = 0
      <4>1. g[k] = f[k] /\ 0 \in 0..m - 1
        BY <1>3, <3>3
      <4> HIDE DEF g
      <4> QED BY <2>3, <3>3, <4>1
    <3> QED BY <3>1, <3>2, <3>3
  <2>5. g = [k \in 0..m |-> g[k]]
    OBVIOUS
  <2> HIDE DEF g
  <2>6. Shows(g, m)
    BY <2>4, <2>5 DEF Shows
  <2> QED BY <1>1, <2>6
<1> QED BY <1>2, <1>3

LEMMA TapeShows ==
  /\ PageOfTape[0] = NoPage
  /\ \A n \in 0..Len(Tape) : n < Len(Tape) => PageOfTape[n + 1] = Show(PageOfTape[n], Tape[n + 1])
<1>1. Len(Tape) \in Nat
  BY ToolAssumption
<1>2. PICK f : f = [n \in 0..Len(Tape) |-> IF n = 0 THEN NoPage ELSE Show(f[n - 1], Tape[n])]
  BY <1>1, ShowsExist DEF Shows
<1> DEFINE P(g) == g = [n \in 0..Len(Tape) |-> IF n = 0 THEN NoPage ELSE Show(g[n - 1], Tape[n])]
<1>3. PageOfTape = CHOOSE g : P(g)
  BY DEF PageOfTape
<1>4. P(f)
  BY <1>2
<1> HIDE DEF P
<1>5. P(PageOfTape)
  BY <1>3, <1>4, Zenon
<1>6. \A n \in 0..Len(Tape) :
        PageOfTape[n] = IF n = 0 THEN NoPage ELSE Show(PageOfTape[n - 1], Tape[n])
  BY <1>5 DEF P
<1>7. \A n \in 0..Len(Tape) : n < Len(Tape) => n + 1 \in 0..Len(Tape) /\ n + 1 # 0 /\ (n + 1) - 1 = n
  BY <1>1
<1> QED BY <1>1, <1>6, <1>7

\* What an event does to the parts of a case that have a table.
LEMMA StoreParts ==
  ASSUME NEW c \in Case, NEW e \in FindingEvent
  PROVE  /\ Store(c, e).hyps = IF e.type = "hypothesis" THEN c.hyps \cup {e.id} ELSE c.hyps
         /\ Store(c, e).cause = IF e.type = "root_cause" THEN e.id ELSE c.cause
         /\ Store(c, e).patches = IF e.type = "patch" THEN c.patches + 1 ELSE c.patches
         /\ Store(c, e).tests = IF e.type = "test" THEN e.outcome ELSE c.tests
         /\ Store(c, e).pro = IF e.type = "evidence" /\ e.supports
                              THEN [c.pro EXCEPT ![e.id] = @ + 1] ELSE c.pro
         /\ Store(c, e).con = IF e.type = "evidence" /\ ~e.supports
                              THEN [c.con EXCEPT ![e.id] = @ + 1] ELSE c.con
<1>1. CASE e.type = "hypothesis"
  BY <1>1 DEF Store, Case
<1>2. CASE e.type = "evidence" /\ e.supports
  BY <1>2 DEF Store, Case
<1>3. CASE e.type = "evidence" /\ ~e.supports
  BY <1>3 DEF Store, Case
<1>4. CASE e.type = "root_cause"
  BY <1>4 DEF Store, Case
<1>5. CASE e.type = "patch"
  BY <1>5 DEF Store, Case
<1>6. CASE e.type = "test"
  BY <1>6 DEF Store, Case
<1>7. CASE e.type \notin {"hypothesis", "evidence", "root_cause", "patch", "test"}
  BY <1>7 DEF Store, Case
<1> QED BY <1>1, <1>2, <1>3, <1>4, <1>5, <1>6, <1>7

\* The page does the same to its case.
LEMMA ShowParts ==
  ASSUME NEW p \in Page, NEW e \in FindingEvent
  PROVE  LET c == Show(p, e).case
             d == Store(p.case, e)
         IN /\ c.hyps = d.hyps /\ c.cause = d.cause /\ c.patches = d.patches
            /\ c.tests = d.tests /\ c.pro = d.pro /\ c.con = d.con
<1>1. p.case \in Case /\ Store(p.case, e) \in Case
  BY StoreType DEF Page
<1>2. CASE e.type \notin {"uncompiled", "code_location", "attack_assessment"}
  <2>1. Show(p, e).case = Store(p.case, e)
    <3>1. CASE e.type = "hypothesis"
      BY <1>1, <3>1 DEF Show, Page
    <3>2. CASE e.type = "root_cause"
      BY <1>1, <3>2 DEF Show, Page
    <3>3. CASE e.type = "test"
      BY <1>1, <3>3 DEF Show, Page
    <3>4. CASE e.type \notin {"hypothesis", "root_cause", "test"}
      BY <1>1, <1>2, <3>4 DEF Show, Page
    <3> QED BY <3>1, <3>2, <3>3, <3>4
  <2> QED BY <2>1
<1>3. CASE e.type \in {"uncompiled", "code_location", "attack_assessment"}
  <2>1. Store(p.case, e) = p.case
    BY <1>3 DEF Store
  <2>2. CASE e.type = "uncompiled"
    BY <1>1, <2>1, <2>2 DEF Show, Page
  <2>3. CASE e.type = "code_location"
    BY <1>1, <2>1, <2>3 DEF Show, Page, Case
  <2>4. CASE e.type = "attack_assessment"
    BY <1>1, <2>1, <2>4 DEF Show, Page, Case
  <2> QED BY <1>3, <2>2, <2>3, <2>4
<1> QED BY <1>2, <1>3

\* The rows hold what was found before the fallback and what it tells.
Both(t, f, c) ==
  /\ t.hyps = f.hyps \cup c.hyps
  /\ t.patches = f.patches + c.patches
  /\ t.cause = IF c.cause # NoId THEN c.cause ELSE f.cause
  /\ t.tests = IF c.tests # "none" THEN c.tests ELSE f.tests
  /\ \A h \in Ids : t.pro[h] = f.pro[h] + c.pro[h] /\ t.con[h] = f.con[h] + c.con[h]

LEMMA BothStored ==
  ASSUME NEW t \in Case, NEW f \in Case, NEW p \in Page, NEW e \in FindingEvent,
         Both(t, f, p.case)
  PROVE  Both(Store(t, e), f, Show(p, e).case)
<1>1. PICK c : c = p.case
  OBVIOUS
<1>2. PICK d : d = Show(p, e).case
  OBVIOUS
<1>3. c \in Case /\ Both(t, f, c)
  BY <1>1 DEF Page
<1>4. /\ d.hyps = IF e.type = "hypothesis" THEN c.hyps \cup {e.id} ELSE c.hyps
      /\ d.cause = IF e.type = "root_cause" THEN e.id ELSE c.cause
      /\ d.patches = IF e.type = "patch" THEN c.patches + 1 ELSE c.patches
      /\ d.tests = IF e.type = "test" THEN e.outcome ELSE c.tests
      /\ d.pro = IF e.type = "evidence" /\ e.supports THEN [c.pro EXCEPT ![e.id] = @ + 1] ELSE c.pro
      /\ d.con = IF e.type = "evidence" /\ ~e.supports THEN [c.con EXCEPT ![e.id] = @ + 1] ELSE c.con
  BY <1>1, <1>2, <1>3, ShowParts, StoreParts
<1>5. PICK u : u = Store(t, e)
  OBVIOUS
<1>6. /\ u.hyps = IF e.type = "hypothesis" THEN t.hyps \cup {e.id} ELSE t.hyps
      /\ u.cause = IF e.type = "root_cause" THEN e.id ELSE t.cause
      /\ u.patches = IF e.type = "patch" THEN t.patches + 1 ELSE t.patches
      /\ u.tests = IF e.type = "test" THEN e.outcome ELSE t.tests
      /\ u.pro = IF e.type = "evidence" /\ e.supports THEN [t.pro EXCEPT ![e.id] = @ + 1] ELSE t.pro
      /\ u.con = IF e.type = "evidence" /\ ~e.supports THEN [t.con EXCEPT ![e.id] = @ + 1] ELSE t.con
  BY <1>5, StoreParts
<1>7. /\ t.pro \in Count /\ t.con \in Count /\ f.pro \in Count /\ f.con \in Count
      /\ c.pro \in Count /\ c.con \in Count
      /\ t.patches \in Nat /\ f.patches \in Nat /\ c.patches \in Nat
  BY <1>3 DEF Case
<1>8. u.hyps = f.hyps \cup d.hyps
  BY <1>3, <1>4, <1>6 DEF Both
<1>9. u.patches = f.patches + d.patches
  BY <1>3, <1>4, <1>6, <1>7 DEF Both
<1>10. u.cause = IF d.cause # NoId THEN d.cause ELSE f.cause
  <2>1. e.type = "root_cause" => e.id \in Ids
    BY DEF FindingEvent
  <2> QED BY <1>3, <1>4, <1>6, <2>1, ToolAssumption DEF Both
<1>11. u.tests = IF d.tests # "none" THEN d.tests ELSE f.tests
  <2>1. e.type = "test" => e.outcome \in TestOutcome
    BY DEF FindingEvent
  <2>2. e.type = "test" => e.outcome # "none"
    BY <2>1 DEF TestOutcome
  <2> QED BY <1>3, <1>4, <1>6, <2>2 DEF Both
<1>12. ASSUME NEW h \in Ids
       PROVE  u.pro[h] = f.pro[h] + d.pro[h] /\ u.con[h] = f.con[h] + d.con[h]
  <2>1. t.pro[h] = f.pro[h] + c.pro[h] /\ t.con[h] = f.con[h] + c.con[h]
    BY <1>3 DEF Both
  <2>2. u.pro[h] = f.pro[h] + d.pro[h]
    BY <1>4, <1>6, <1>7, <2>1 DEF Count
  <2>3. u.con[h] = f.con[h] + d.con[h]
    BY <1>4, <1>6, <1>7, <2>1 DEF Count
  <2> QED BY <2>2, <2>3
<1>13. Both(u, f, d)
  BY <1>8, <1>9, <1>10, <1>11, <1>12 DEF Both
<1> QED BY <1>2, <1>5, <1>13

FallbackInv ==
  /\ pc \notin {"replay", "replayed"} => at = 0
  /\ pc \in {"replay", "replayed"} => page = PageOfTape[at] /\ Both(tables, findings, page.case)

LEMMA FallbackStep == IInv /\ FallbackInv /\ [Next]_vars => FallbackInv'
<1> SUFFICES ASSUME IInv, FallbackInv, [Next]_vars PROVE FallbackInv'
  OBVIOUS
<1> USE DEF IInv
<1>1. ASSUME CallTool PROVE FallbackInv'
  <2>1. pc \in Working /\ pc' = pc /\ at' = at
    BY <1>1 DEF CallTool, ReportHypothesis, ReportRootCause, ReportEvidence, ReportCodeLocation,
         ReportAttackAssessment, ApplyPatch, RunTests, Called
  <2> QED BY <2>1 DEF FallbackInv, Working
<1>2. ASSUME NextPhase \/ CollectBaseline \/ EndFix \/ Measure \/ EndAssess \/ WriteReport
      PROVE  FallbackInv'
  <2>1. pc \notin {"replay", "replayed"} /\ pc' \notin {"replay", "replayed"} /\ at' = at
    BY <1>2 DEF NextPhase, CollectBaseline, EndFix, Measure, EndAssess, WriteReport, Goto,
         AfterVerify, Conclude
  <2> QED BY <2>1 DEF FallbackInv
<1>3. ASSUME MeasureBaseline \/ UNCHANGED vars PROVE FallbackInv'
  <2>1. pc' = pc /\ at' = at /\ page' = page /\ tables' = tables /\ findings' = findings
    BY <1>3 DEF MeasureBaseline, vars
  <2> QED BY <2>1 DEF FallbackInv
<1>4. CASE Throw
  <2>1. /\ pc \notin {"replay", "replayed"} /\ at' = at /\ at = 0
        /\ findings' = findings /\ tables' = tables
        /\ pc' \in {"replay", "replayed"} => page' = NoPage
    BY <1>4 DEF Throw, Goto, Live, Working, FallbackInv
  <2>2. tables = [findings EXCEPT !.located = FALSE, !.assessed = FALSE]
    BY <2>1 DEF ReadersAgree
  <2>3. /\ tables.hyps = findings.hyps /\ tables.patches = findings.patches
        /\ tables.cause = findings.cause /\ tables.tests = findings.tests
        /\ tables.pro = findings.pro /\ tables.con = findings.con
    BY <2>2 DEF TypeOK, Case
  <2>4. \A h \in Ids : findings.pro[h] + 0 = findings.pro[h] /\ findings.con[h] + 0 = findings.con[h]
                       /\ findings.patches + 0 = findings.patches
    BY SMTT(30) DEF TypeOK, Case, Count
  <2>5. /\ NoCase.hyps = {} /\ NoCase.patches = 0 /\ NoCase.cause = NoId /\ NoCase.tests = "none"
        /\ \A h \in Ids : NoCase.pro[h] = 0 /\ NoCase.con[h] = 0
        /\ NoPage.case = NoCase
    BY DEF NoCase, NoPage
  <2>6. findings.patches + 0 = findings.patches
    BY DEF TypeOK, Case
  <2>7. Both(tables, findings, NoPage.case)
    BY <2>3, <2>4, <2>5, <2>6 DEF Both
  <2> QED BY <2>1, <2>7, TapeShows DEF FallbackInv
<1>5. CASE Replay
  <2>1. pc = "replay" /\ findings' = findings /\ pc' \in {"replay", "replayed"}
    BY <1>5 DEF Replay, Goto
  <2>2. CASE at = Len(Tape)
    BY <1>5, <2>1, <2>2 DEF Replay, FallbackInv
  <2>3. CASE at # Len(Tape)
    <3>1. at' = at + 1 /\ page' = Show(page, Tape[at + 1]) /\ tables' = Store(tables, Tape[at + 1])
      BY <1>5, <2>3 DEF Replay, Emit
    <3>2. at \in 0..Len(Tape) /\ at < Len(Tape) /\ Tape[at + 1] \in FindingEvent
      BY <2>3, ToolAssumption DEF TypeOK
    <3>3. page' = PageOfTape[at']
      BY <2>1, <3>1, <3>2, TapeShows DEF FallbackInv
    <3>4. Both(tables', findings, page'.case)
      BY <2>1, <3>1, <3>2, BothStored DEF FallbackInv, TypeOK
    <3> QED BY <2>1, <3>3, <3>4 DEF FallbackInv
  <2> QED BY <2>2, <2>3
<1> QED BY <1>1, <1>2, <1>3, <1>4, <1>5 DEF Next, Drive

\* A page that follows a fallback shows the recording alone, and the tables add
\* it to the abandoned attempt (useInvestigation.ts:107-110).
THEOREM FallbackHolds == Spec => []FallbackStartsOver
<1>1. Init => FallbackInv
  BY DEF Init, FallbackInv
<1>2. FallbackInv => FallbackStartsOver
  BY DEF FallbackInv, FallbackStartsOver, Both, ListedRun
<1> QED BY <1>1, <1>2, FallbackStep, IInvHolds, PTL DEF Spec

=============================================================================
