------------------------- MODULE IntakeQueue_proofs -------------------------
(***************************************************************************)
(* What IntakeQueue keeps for any number of workers, incidents, phases,    *)
(* crashes and faults.                                                     *)
(***************************************************************************)
EXTENDS IntakeQueue, TLAPS

-----------------------------------------------------------------------------
(* The inductive invariant, part by part.                                  *)

\* The locals of a worker fit the statement it is about to execute.
LocalsOK ==
  \A w \in Workers :
    /\ pc[w] \in Working => /\ att[w].inc \in Ids /\ att[w].inc < nextId
                            /\ att[w].tok \in Tokens
    /\ pc[w] \notin Working => att[w].tok = NoToken
    /\ pc[w] = "clear" => att[w].seq = 0
    /\ pc[w] = "phase" => att[w].seq < NumPhases
    /\ pc[w] \in {"call", "record", "renew", "review", "cleanup"} => att[w].seq \in Seqs

\* attempts counts the claims since the row was queued.
AttemptsCount ==
  \A i \in Ids : /\ row[i].status = "queued" => row[i].attempts = 0
                 /\ row[i].status = "investigating" => row[i].attempts > 0

\* No two workers share a token.
TokensDistinct ==
  \A v, w \in Workers : v # w /\ pc[v] \in Working => att[v].tok # att[w].tok

\* Rows never inserted, or deleted, are blank and have no phases.
AbsentBlank ==
  \A i \in Ids : /\ i >= nextId => ~Present(i)
                 /\ ~Present(i) => row[i] = NoRow /\ phases[i] = NoPhases

IInv == TypeOK /\ LocalsOK /\ AttemptsCount /\ TokensDistinct /\ AbsentBlank

\* The part of the assumptions that a worker's locals depend on.
LEMMA PhasesNumbered == NumPhases \in Nat \ {0} /\ NoToken \notin Tokens
BY ConstantsAssumption

\* The empty tables and idle workers satisfy the inductive invariant.
LEMMA InitIInv == Init => IInv
<1> SUFFICES ASSUME Init PROVE IInv
  OBVIOUS
<1> USE ConstantsAssumption DEF Init
<1>1. TypeOK
  BY DEF TypeOK, Row, NoRow, Phase, NoPhases, NoPhase, Location, Working, Attempt,
         NoAttempt, Request, NoRequest, Status, Lease, Error, Token, Ids, Seqs, NoId, MaxAttempts
<1>2. LocalsOK /\ AttemptsCount /\ TokensDistinct /\ AbsentBlank
  BY DEF LocalsOK, AttemptsCount, TokensDistinct, AbsentBlank, NoRow, NoAttempt, Working, Present
<1> QED BY <1>1, <1>2 DEF IInv

-----------------------------------------------------------------------------
(* Types: the values the statements write, and the rows they leave.         *)

\* The literals of the module have their types.
LEMMA Values ==
  /\ {"absent", "queued", "investigating", "review", "failed"} \subseteq Status
  /\ {"none", "held", "expired"} \subseteq Lease
  /\ {"none", "interrupted", "failed", "not_configured"} \subseteq Error
  /\ NoToken \in Token /\ Tokens \subseteq Token
  /\ NoRow \in Row /\ \A e \in Events : NewRow(e) \in Row
  /\ NoPhase \in Phase /\ NoPhases \in [Seqs -> Phase]
  /\ NoAttempt \in Attempt /\ NoRequest \in Request
<1> USE ConstantsAssumption DEF Status, Lease, Error, Token, MaxAttempts
<1>1. NoRow \in Row /\ \A e \in Events : NewRow(e) \in Row
  <2>1. NoRow \in Row
    BY DEF NoRow, Row
  <2>2. ASSUME NEW e \in Events PROVE NewRow(e) \in Row
    BY <2>1 DEF NewRow, Row
  <2> QED BY <2>1, <2>2
<1>2. NoPhase \in Phase /\ NoPhases \in [Seqs -> Phase]
  BY DEF NoPhase, NoPhases, Phase
<1>3. NoAttempt \in Attempt /\ NoRequest \in Request
  <2>1. NoAttempt \in Attempt
    BY DEF NoAttempt, Attempt
  <2>2. NoRequest \in Request
    BY DEF NoRequest, Request
  <2> QED BY <2>1, <2>2
<1> QED BY <1>1, <1>2, <1>3

\* Each UPDATE of incoming_incidents leaves a well-typed row.
LEMMA RowUpdates ==
  ASSUME NEW x \in Row, NEW s \in Status, NEW l \in Lease, NEW e \in Error,
         NEW t \in Token, NEW p \in Token
  PROVE  /\ [x EXCEPT !.lease = l] \in Row
         /\ [x EXCEPT !.status = s, !.error = e] \in Row
         /\ [x EXCEPT !.status = s, !.report = p, !.lease = l] \in Row
         /\ [x EXCEPT !.status = s, !.lease = l, !.error = e] \in Row
         /\ [x EXCEPT !.status = s, !.attempts = 0, !.error = e] \in Row
         /\ x.attempts + 1 \in 0..MaxAttempts =>
              [x EXCEPT !.status = s, !.attempts = @ + 1, !.token = t, !.lease = l,
                        !.error = e, !.report = p] \in Row
<1>1. 0 \in 0..MaxAttempts
  BY DEF MaxAttempts
<1> QED BY <1>1 DEF Row

\* So do the statements on incident_phases.
LEMMA PhaseUpdates ==
  ASSUME NEW x \in Phase, NEW t \in Token
  PROVE  /\ [x EXCEPT !.status = "failed"] \in Phase
         /\ [x EXCEPT !.status = "done", !.output = t] \in Phase
         /\ [status |-> "running", by |-> t, output |-> NoToken] \in Phase
BY Values DEF Phase

\* And the answers of insertIncident.
LEMMA RequestUpdates ==
  ASSUME NEW x \in Request, NEW i \in Ids \cup {NoId}
  PROVE  /\ [x EXCEPT !.step = "answered", !.id = i] \in Request
         /\ \A e \in Events :
              /\ [step |-> "answered", event |-> e, id |-> i] \in Request
              /\ [step |-> "select", event |-> e, id |-> NoId] \in Request
BY DEF Request

\* A failed statement is counted within its bound.
LEMMA OutcomeType ==
  ASSUME TypeOK, NEW o \in Outcomes, Outcome(o)
  PROVE  spent' \in [crashes: 0..MaxCrashes, faults: 0..MaxFaults, retries: 0..MaxRetries]
<1>1. CASE o = "ok"
  BY <1>1 DEF TypeOK, Outcome
<1>2. CASE o # "ok"
  BY <1>2, ConstantsAssumption DEF TypeOK, Outcome
<1> QED BY <1>1, <1>2

\* The worker at a statement of investigateNext: its locals are set.
LEMMA AtWork ==
  ASSUME IInv, NEW w \in Workers, pc[w] \in Working
  PROVE  /\ att[w].inc \in Ids /\ att[w].inc < nextId
         /\ att[w].tok \in Tokens /\ att[w].tok \in Token
         /\ row[att[w].inc] \in Row
         /\ phases[att[w].inc] \in [Seqs -> Phase]
BY Values DEF IInv, TypeOK, LocalsOK

-----------------------------------------------------------------------------
(* Every action keeps the invariant.                                       *)

\* The reaper keeps the inductive invariant.
LEMMA ReapIInv ==
  ASSUME IInv, NEW w \in Workers, NEW o \in Outcomes, Reap(w, o)
  PROVE  IInv'
<1> USE DEF IInv, UpdateRow
<1>1. \A i \in Ids : [row[i] EXCEPT !.status = "failed", !.error = "interrupted"] \in Row
  BY Values, RowUpdates DEF TypeOK
<1>2. \A i \in Ids : \/ row'[i] = row[i]
                    \/ /\ row[i].status = "investigating"
                       /\ row'[i] = [row[i] EXCEPT !.status = "failed", !.error = "interrupted"]
  BY DEF Reap, TypeOK, Exhausted, ExpiredLease
<1>3. \A i \in Ids : (Present(i)' <=> Present(i)) /\ (~Present(i) => row'[i] = row[i])
  BY <1>2, ZenonT(30) DEF Present, TypeOK, Row
<1>4. TypeOK'
  <2>1. row' \in [Ids -> Row]
    BY <1>1 DEF Reap, TypeOK
  <2>2. pc' \in [Workers -> Location]
    BY DEF Reap, Goto, TypeOK, Location, Working
  <2>3. spent' \in [crashes: 0..MaxCrashes, faults: 0..MaxFaults, retries: 0..MaxRetries]
    BY OutcomeType DEF Reap
  <2> QED BY <2>1, <2>2, <2>3 DEF Reap, TypeOK
<1>5. LocalsOK'
  BY PhasesNumbered DEF LocalsOK, Reap, Goto, TypeOK, Location, Working, Attempt, Seqs, NoAttempt
<1>6. AttemptsCount'
  BY <1>2, ZenonT(30) DEF AttemptsCount, TypeOK, Row
<1>7. TokensDistinct'
  BY PhasesNumbered, ZenonT(30) DEF TokensDistinct, LocalsOK, Reap, Goto, TypeOK, Working, NoAttempt
<1>8. AbsentBlank'
  <2>1. phases' = phases /\ nextId' = nextId
    BY DEF Reap
  <2>2. ASSUME NEW i \in Ids, i >= nextId PROVE ~Present(i)'
    BY <1>3, <2>2 DEF AbsentBlank, Present
  <2>3. ASSUME NEW i \in Ids, ~Present(i)' PROVE row'[i] = NoRow /\ phases[i] = NoPhases
    BY <1>3, <2>3 DEF AbsentBlank, Present
  <2> QED BY <2>1, <2>2, <2>3 DEF AbsentBlank, Present
<1> QED BY <1>4, <1>5, <1>6, <1>7, <1>8

\* Claiming an incident keeps the inductive invariant.
LEMMA ClaimIInv ==
  ASSUME IInv, NEW w \in Workers, NEW o \in Outcomes, Claim(w, o)
  PROVE  IInv'
<1> USE DEF IInv, UpdateRow
<1> DEFINE claimed(i, t) == [row[i] EXCEPT
                               !.status = "investigating", !.attempts = @ + 1, !.token = t,
                               !.lease = "held", !.error = "none", !.report = NoToken]
<1>a. PICK i \in Ids, t \in FreshTokens :
        /\ Claimable(i) /\ \A j \in Ids : Claimable(j) => i <= j
        /\ t = CHOOSE u \in FreshTokens : TRUE
        /\ UpdateRow(i, o # "refused", claimed(i, t))
        /\ IF o = "ok"
           THEN /\ Goto(w, "clear")
                /\ att' = [att EXCEPT ![w] = [inc |-> i, tok |-> t, seq |-> 0]]
           ELSE Stop(w, "idle")
  BY Zenon DEF Claim
<1> HIDE DEF claimed
<1>1. /\ Claimable(i)
      /\ row' = IF o = "refused" THEN row ELSE [row EXCEPT ![i] = claimed(i, t)]
      /\ o = "ok" => /\ pc' = [pc EXCEPT ![w] = "clear"]
                     /\ att' = [att EXCEPT ![w] = [inc |-> i, tok |-> t, seq |-> 0]]
      /\ o # "ok" => /\ pc' = [pc EXCEPT ![w] = "idle"]
                     /\ att' = [att EXCEPT ![w] = NoAttempt]
  BY <1>a DEF Goto, Stop
<1>2. /\ t \in Tokens /\ t \in Token /\ t # NoToken
      /\ \A v \in Workers : att[v].tok # t
  BY Values, ConstantsAssumption DEF FreshTokens, TokenInUse
<1>3. row[i] \in Row /\ Present(i) /\ i < nextId /\ row[i].attempts < MaxAttempts
  <2>1. Present(i)
    BY <1>1 DEF Claimable, ExpiredLease, Present
  <2>2. i < nextId
    BY <2>1 DEF AbsentBlank, TypeOK, Ids
  <2>3. row[i].attempts < MaxAttempts
    BY <1>1 DEF Claimable, AttemptsCount, MaxAttempts
  <2> QED BY <2>1, <2>2, <2>3 DEF TypeOK
<1>4. claimed(i, t) \in Row /\ claimed(i, t).status = "investigating"
      /\ claimed(i, t).attempts > 0
  <2>1. row[i].attempts \in 0..MaxAttempts
    BY <1>3 DEF Row
  <2>2. row[i].attempts + 1 \in 0..MaxAttempts /\ row[i].attempts + 1 > 0
    BY <2>1, <1>3 DEF MaxAttempts
  <2>3. claimed(i, t) \in Row
    BY <2>2, <1>2, <1>3, Values, RowUpdates DEF claimed
  <2>4. claimed(i, t).status = "investigating" /\ claimed(i, t).attempts = row[i].attempts + 1
    BY <1>3 DEF Row, claimed
  <2> QED BY <2>2, <2>3, <2>4
<1>5. [inc |-> i, tok |-> t, seq |-> 0] \in Attempt
  BY <1>2, ConstantsAssumption DEF Attempt
<1>6. TypeOK'
  <2>1. row' \in [Ids -> Row]
    BY <1>1, <1>4 DEF TypeOK
  <2>2. pc' \in [Workers -> Location]
    BY <1>1 DEF TypeOK, Location, Working
  <2>3. att' \in [Workers -> Attempt]
    BY <1>1, <1>5, Values DEF TypeOK
  <2>4. spent' \in [crashes: 0..MaxCrashes, faults: 0..MaxFaults, retries: 0..MaxRetries]
    BY OutcomeType DEF Claim
  <2> QED BY <2>1, <2>2, <2>3, <2>4 DEF TypeOK, Claim
<1>7. LocalsOK'
  <2>1. CASE o = "ok"
    BY <2>1, <1>1, <1>2, <1>3 DEF LocalsOK, TypeOK, Claim, Working
  <2>2. CASE o # "ok"
    BY <2>2, <1>1 DEF LocalsOK, TypeOK, Claim, Working, NoAttempt
  <2> QED BY <2>1, <2>2
<1>8. AttemptsCount'
  BY <1>1, <1>4 DEF AttemptsCount, TypeOK
<1>9. TokensDistinct'
  <2>1. CASE o = "ok"
    BY <2>1, <1>1, <1>2 DEF TokensDistinct, TypeOK, Working
  <2>2. CASE o # "ok"
    BY <2>2, <1>1, ConstantsAssumption
       DEF TokensDistinct, LocalsOK, TypeOK, Working, NoAttempt
  <2> QED BY <2>1, <2>2
<1>10. AbsentBlank'
  BY <1>1, <1>3, <1>4 DEF AbsentBlank, Claim, Present, TypeOK
<1> QED BY <1>6, <1>7, <1>8, <1>9, <1>10

\* Finding nothing to claim keeps the inductive invariant.
LEMMA ClaimNothingIInv ==
  ASSUME IInv, NEW w \in Workers, ClaimNothing(w)
  PROVE  IInv'
<1> USE DEF IInv
<1>1. TypeOK'
  <2>1. pc' \in [Workers -> Location]
    BY DEF ClaimNothing, Goto, TypeOK, Location, Working
  <2> QED BY <2>1 DEF ClaimNothing, TypeOK
<1>2. LocalsOK'
  BY PhasesNumbered DEF LocalsOK, ClaimNothing, Goto, TypeOK, Location, Working, Attempt, Seqs, NoAttempt
<1>3. AttemptsCount'
  BY DEF AttemptsCount, ClaimNothing
<1>4. TokensDistinct'
  BY PhasesNumbered DEF TokensDistinct, LocalsOK, ClaimNothing, Goto, TypeOK, Working, NoAttempt
<1>5. AbsentBlank'
  BY DEF AbsentBlank, Present, ClaimNothing
<1> QED BY <1>1, <1>2, <1>3, <1>4, <1>5

\* Deleting the earlier attempt's phases keeps the inductive invariant.
LEMMA ClearPhasesIInv ==
  ASSUME IInv, NEW w \in Workers, NEW o \in Outcomes, ClearPhases(w, o)
  PROVE  IInv'
<1> USE DEF IInv
<1>1. /\ att[w].inc \in Ids /\ att[w].inc < nextId
      /\ att[w].tok \in Tokens /\ att[w].tok \in Token
      /\ row[att[w].inc] \in Row /\ phases[att[w].inc] \in [Seqs -> Phase]
  BY AtWork DEF ClearPhases, Working
<1>2. TypeOK'
  <2>1. phases' \in [Ids -> [Seqs -> Phase]]
    BY <1>1, Values DEF ClearPhases, TypeOK
  <2>2. pc' \in [Workers -> Location]
    BY DEF ClearPhases, Stop, Goto, TypeOK, Location, Working
  <2>3. att' \in [Workers -> Attempt]
    BY Values DEF ClearPhases, Stop, Goto, TypeOK
  <2>4. spent' \in [crashes: 0..MaxCrashes, faults: 0..MaxFaults, retries: 0..MaxRetries]
    BY OutcomeType DEF ClearPhases
  <2> QED BY <2>1, <2>2, <2>3, <2>4 DEF ClearPhases, TypeOK
<1>3. LocalsOK'
  <2>1. CASE o = "ok"
    BY <2>1, <1>1, PhasesNumbered DEF LocalsOK, ClearPhases, Stop, Goto, TypeOK, Location, Working, Attempt, Seqs, NoAttempt
  <2>2. CASE o # "ok"
    BY <2>2, <1>1, PhasesNumbered DEF LocalsOK, ClearPhases, Stop, Goto, TypeOK, Location, Working, Attempt, Seqs, NoAttempt
  <2> QED BY <2>1, <2>2
<1>4. AttemptsCount'
  BY DEF AttemptsCount, ClearPhases
<1>5. TokensDistinct'
  BY <1>1, PhasesNumbered DEF TokensDistinct, LocalsOK, ClearPhases, Stop, Goto, TypeOK, Working, NoAttempt
<1>6. AbsentBlank'
  BY <1>1 DEF AbsentBlank, ClearPhases, Present, TypeOK
<1> QED BY <1>2, <1>3, <1>4, <1>5, <1>6

\* Inserting a phase row keeps the inductive invariant.
LEMMA InsertPhaseIInv ==
  ASSUME IInv, NEW w \in Workers, NEW o \in Outcomes, InsertPhase(w, o)
  PROVE  IInv'
<1> USE DEF IInv, UpdatePhase
<1>1. /\ att[w].inc \in Ids /\ att[w].inc < nextId
      /\ att[w].tok \in Tokens /\ att[w].tok \in Token
      /\ row[att[w].inc] \in Row /\ phases[att[w].inc] \in [Seqs -> Phase]
  BY AtWork DEF InsertPhase, Working
<1>2. att[w].seq + 1 \in Seqs
  BY ConstantsAssumption, SMTT(30) DEF InsertPhase, LocalsOK, TypeOK, Attempt, Seqs
<1>3. [att[w] EXCEPT !.seq = att[w].seq + 1] \in Attempt
  BY <1>2, SMTT(30) DEF Attempt, Seqs, TypeOK
<1>4. TypeOK'
  <2>1. phases' \in [Ids -> [Seqs -> Phase]]
    BY <1>1, <1>2, PhaseUpdates DEF InsertPhase, TypeOK
  <2>2. pc' \in [Workers -> Location]
    BY DEF InsertPhase, Goto, TypeOK, Location, Working
  <2>3. att' \in [Workers -> Attempt]
    BY <1>3 DEF InsertPhase, TypeOK
  <2>4. spent' \in [crashes: 0..MaxCrashes, faults: 0..MaxFaults, retries: 0..MaxRetries]
    BY OutcomeType DEF InsertPhase
  <2> QED BY <2>1, <2>2, <2>3, <2>4 DEF InsertPhase, TypeOK
<1>5. LocalsOK'
  BY <1>1, <1>2 DEF LocalsOK, TypeOK, InsertPhase, Goto, Working, Attempt
<1>6. AttemptsCount'
  BY DEF AttemptsCount, InsertPhase
<1>7. TokensDistinct'
  BY <1>1 DEF TokensDistinct, TypeOK, InsertPhase, Goto, Working, Attempt
<1>8. AbsentBlank'
  BY <1>1 DEF AbsentBlank, InsertPhase, Present, TypeOK
<1> QED BY <1>4, <1>5, <1>6, <1>7, <1>8

\* A model answer keeps the inductive invariant.
LEMMA CallModelIInv ==
  ASSUME IInv, NEW w \in Workers, NEW good \in BOOLEAN, CallModel(w, good)
  PROVE  IInv'
<1> USE DEF IInv
<1>1. TypeOK'
  <2>1. pc' \in [Workers -> Location]
    BY DEF CallModel, Goto, TypeOK, Location, Working
  <2> QED BY <2>1 DEF CallModel, TypeOK
<1>2. LocalsOK'
  BY PhasesNumbered DEF LocalsOK, CallModel, Goto, TypeOK, Location, Working, Attempt, Seqs, NoAttempt
<1>3. AttemptsCount'
  BY DEF AttemptsCount, CallModel
<1>4. TokensDistinct'
  BY PhasesNumbered DEF TokensDistinct, LocalsOK, CallModel, Goto, TypeOK, Working, NoAttempt
<1>5. AbsentBlank'
  BY DEF AbsentBlank, Present, CallModel
<1> QED BY <1>1, <1>2, <1>3, <1>4, <1>5

\* Recording a phase's output keeps the inductive invariant.
LEMMA RecordPhaseIInv ==
  ASSUME IInv, NEW w \in Workers, NEW o \in Outcomes, RecordPhase(w, o)
  PROVE  IInv'
<1> USE DEF IInv, UpdatePhase
<1>1. /\ att[w].inc \in Ids /\ att[w].inc < nextId
      /\ att[w].tok \in Tokens /\ att[w].tok \in Token
      /\ row[att[w].inc] \in Row /\ phases[att[w].inc] \in [Seqs -> Phase]
  BY AtWork DEF RecordPhase, Working
<1>2. att[w].seq \in Seqs
  BY DEF RecordPhase, LocalsOK
<1>3. [phases[att[w].inc][att[w].seq] EXCEPT !.status = "done", !.output = att[w].tok] \in Phase
  BY <1>1, <1>2, PhaseUpdates
<1>4. ~Present(att[w].inc) => phases' = phases
  BY <1>1, <1>2 DEF RecordPhase, AbsentBlank, NoPhases
<1>5. TypeOK'
  <2>1. phases' \in [Ids -> [Seqs -> Phase]]
    BY <1>1, <1>2, <1>3 DEF RecordPhase, TypeOK
  <2>2. pc' \in [Workers -> Location]
    BY DEF RecordPhase, Goto, TypeOK, Location, Working
  <2>3. spent' \in [crashes: 0..MaxCrashes, faults: 0..MaxFaults, retries: 0..MaxRetries]
    BY OutcomeType DEF RecordPhase
  <2> QED BY <2>1, <2>2, <2>3 DEF RecordPhase, TypeOK
<1>6. LocalsOK'
  BY <1>1, PhasesNumbered DEF LocalsOK, RecordPhase, Goto, TypeOK, Location, Working, Attempt, Seqs, NoAttempt
<1>7. AttemptsCount'
  BY DEF AttemptsCount, RecordPhase
<1>8. TokensDistinct'
  BY <1>1, PhasesNumbered DEF TokensDistinct, LocalsOK, RecordPhase, Goto, TypeOK, Working, NoAttempt
<1>9. AbsentBlank'
  BY <1>1, <1>4 DEF AbsentBlank, RecordPhase, Present, TypeOK
<1> QED BY <1>5, <1>6, <1>7, <1>8, <1>9

\* Renewing the lease keeps the inductive invariant.
LEMMA RenewLeaseIInv ==
  ASSUME IInv, NEW w \in Workers, NEW o \in Outcomes, RenewLease(w, o)
  PROVE  IInv'
<1> USE DEF IInv, UpdateRow
<1>1. /\ att[w].inc \in Ids /\ att[w].inc < nextId
      /\ att[w].tok \in Tokens /\ att[w].tok \in Token
      /\ row[att[w].inc] \in Row /\ phases[att[w].inc] \in [Seqs -> Phase]
  BY AtWork DEF RenewLease, Working
<1>2. [row[att[w].inc] EXCEPT !.lease = "held"] \in Row
  BY <1>1, Values, RowUpdates
<1>3. \/ row' = row
      \/ Present(att[w].inc) /\ row' = [row EXCEPT ![att[w].inc] = [row[att[w].inc] EXCEPT !.lease = "held"]]
  BY DEF RenewLease, Holds
<1>4. TypeOK'
  <2>1. row' \in [Ids -> Row]
    BY <1>1, <1>2, <1>3 DEF TypeOK
  <2>2. pc' \in [Workers -> Location]
    BY DEF RenewLease, Stop, Goto, TypeOK, Location, Working
  <2>3. att' \in [Workers -> Attempt]
    BY Values DEF RenewLease, Stop, Goto, TypeOK
  <2>4. spent' \in [crashes: 0..MaxCrashes, faults: 0..MaxFaults, retries: 0..MaxRetries]
    BY OutcomeType DEF RenewLease
  <2> QED BY <2>1, <2>2, <2>3, <2>4 DEF RenewLease, TypeOK
<1>5. LocalsOK'
  <2>1. CASE o = "ok" /\ ~Holds(w, att[w].inc)
    BY <2>1, <1>1, PhasesNumbered DEF LocalsOK, RenewLease, Stop, Goto, TypeOK, Location, Working, Attempt, Seqs, NoAttempt
  <2>2. CASE ~(o = "ok" /\ ~Holds(w, att[w].inc))
    BY <2>2, <1>1, PhasesNumbered DEF LocalsOK, RenewLease, Stop, Goto, TypeOK, Location, Working, Attempt, Seqs, NoAttempt
  <2> QED BY <2>1, <2>2
<1>6. AttemptsCount'
  BY <1>1, <1>2, <1>3 DEF AttemptsCount, TypeOK, Row
<1>7. TokensDistinct'
  BY <1>1, PhasesNumbered DEF TokensDistinct, LocalsOK, RenewLease, Stop, Goto, TypeOK, Working, NoAttempt
<1>8. AbsentBlank'
  BY <1>1, <1>3 DEF AbsentBlank, RenewLease, Present, TypeOK, Row
<1> QED BY <1>4, <1>5, <1>6, <1>7, <1>8

\* Handing over to review keeps the inductive invariant.
LEMMA ReviewIInv ==
  ASSUME IInv, NEW w \in Workers, NEW o \in Outcomes, Review(w, o)
  PROVE  IInv'
<1> USE DEF IInv, UpdateRow
<1>1. /\ att[w].inc \in Ids /\ att[w].inc < nextId
      /\ att[w].tok \in Tokens /\ att[w].tok \in Token
      /\ row[att[w].inc] \in Row /\ phases[att[w].inc] \in [Seqs -> Phase]
  BY AtWork DEF Review, Working
<1>2. LET r == [row[att[w].inc] EXCEPT !.status = "review", !.report = att[w].tok, !.lease = "none"]
     IN  r \in Row /\ r.status = "review"
  BY <1>1, Values, RowUpdates DEF Row
<1>3. \/ row' = row
      \/ /\ Present(att[w].inc)
         /\ row' = [row EXCEPT ![att[w].inc] = [row[att[w].inc] EXCEPT
                    !.status = "review", !.report = att[w].tok, !.lease = "none"]]
  BY DEF Review, Holds
<1>4. TypeOK'
  <2>1. row' \in [Ids -> Row]
    BY <1>1, <1>2, <1>3 DEF TypeOK
  <2>2. pc' \in [Workers -> Location]
    BY DEF Review, Stop, Goto, TypeOK, Location, Working
  <2>3. att' \in [Workers -> Attempt]
    BY Values DEF Review, Stop, Goto, TypeOK
  <2>4. spent' \in [crashes: 0..MaxCrashes, faults: 0..MaxFaults, retries: 0..MaxRetries]
    BY OutcomeType DEF Review
  <2> QED BY <2>1, <2>2, <2>3, <2>4 DEF Review, TypeOK
<1>5. LocalsOK'
  <2>1. CASE o = "ok"
    BY <2>1, <1>1, PhasesNumbered DEF LocalsOK, Review, Stop, Goto, TypeOK, Location, Working, Attempt, Seqs, NoAttempt
  <2>2. CASE o # "ok"
    BY <2>2, <1>1, PhasesNumbered DEF LocalsOK, Review, Stop, Goto, TypeOK, Location, Working, Attempt, Seqs, NoAttempt
  <2> QED BY <2>1, <2>2
<1>6. AttemptsCount'
  BY <1>1, <1>2, <1>3 DEF AttemptsCount, TypeOK, Row
<1>7. TokensDistinct'
  BY <1>1, PhasesNumbered DEF TokensDistinct, LocalsOK, Review, Stop, Goto, TypeOK, Working, NoAttempt
<1>8. AbsentBlank'
  BY <1>1, <1>3 DEF AbsentBlank, Review, Present, TypeOK, Row
<1> QED BY <1>4, <1>5, <1>6, <1>7, <1>8

\* Failing the phase under way keeps the inductive invariant.
LEMMA FailPhaseIInv ==
  ASSUME IInv, NEW w \in Workers, NEW o \in Outcomes, FailPhase(w, o)
  PROVE  IInv'
<1> USE DEF IInv, UpdatePhase
<1>1. /\ att[w].inc \in Ids /\ att[w].inc < nextId
      /\ att[w].tok \in Tokens /\ att[w].tok \in Token
      /\ row[att[w].inc] \in Row /\ phases[att[w].inc] \in [Seqs -> Phase]
  BY AtWork DEF FailPhase, Working
<1>2. att[w].seq \in Seqs
  BY DEF FailPhase, LocalsOK
<1>3. [phases[att[w].inc][att[w].seq] EXCEPT !.status = "failed"] \in Phase
  BY <1>1, <1>2, PhaseUpdates, Values
<1>4. ~Present(att[w].inc) => phases' = phases
  BY <1>1, <1>2 DEF FailPhase, AbsentBlank, NoPhases, NoPhase
<1>5. TypeOK'
  <2>1. phases' \in [Ids -> [Seqs -> Phase]]
    BY <1>1, <1>2, <1>3 DEF FailPhase, TypeOK
  <2>2. pc' \in [Workers -> Location]
    BY DEF FailPhase, Goto, TypeOK, Location, Working
  <2>3. spent' \in [crashes: 0..MaxCrashes, faults: 0..MaxFaults, retries: 0..MaxRetries]
    BY OutcomeType DEF FailPhase
  <2> QED BY <2>1, <2>2, <2>3 DEF FailPhase, TypeOK
<1>6. LocalsOK'
  BY <1>1, PhasesNumbered DEF LocalsOK, FailPhase, Goto, TypeOK, Location, Working, Attempt, Seqs, NoAttempt
<1>7. AttemptsCount'
  BY DEF AttemptsCount, FailPhase
<1>8. TokensDistinct'
  BY <1>1, PhasesNumbered DEF TokensDistinct, LocalsOK, FailPhase, Goto, TypeOK, Working, NoAttempt
<1>9. AbsentBlank'
  BY <1>1, <1>4 DEF AbsentBlank, FailPhase, Present, TypeOK
<1> QED BY <1>5, <1>6, <1>7, <1>8, <1>9

\* Failing the incident keeps the inductive invariant.
LEMMA FailIncidentIInv ==
  ASSUME IInv, NEW w \in Workers, NEW o \in Outcomes, FailIncident(w, o)
  PROVE  IInv'
<1> USE DEF IInv, UpdateRow
<1>1. /\ att[w].inc \in Ids /\ att[w].inc < nextId
      /\ att[w].tok \in Tokens /\ att[w].tok \in Token
      /\ row[att[w].inc] \in Row /\ phases[att[w].inc] \in [Seqs -> Phase]
  BY AtWork DEF FailIncident, Working
<1>2. \A e \in Error :
       LET r == [row[att[w].inc] EXCEPT !.status = "failed", !.lease = "none", !.error = e]
       IN  r \in Row /\ r.status = "failed"
  BY <1>1, Values, RowUpdates DEF Row
<1>3. \/ row' = row
      \/ /\ Present(att[w].inc)
         /\ \E e \in Error : row' = [row EXCEPT ![att[w].inc] = [row[att[w].inc] EXCEPT
                               !.status = "failed", !.lease = "none", !.error = e]]
  BY Values DEF FailIncident, Holds
<1>4. TypeOK'
  <2>1. row' \in [Ids -> Row]
    BY <1>1, <1>2, <1>3 DEF TypeOK
  <2>2. pc' \in [Workers -> Location]
    BY DEF FailIncident, Stop, Goto, TypeOK, Location, Working
  <2>3. att' \in [Workers -> Attempt]
    BY Values DEF FailIncident, Stop, Goto, TypeOK
  <2>4. spent' \in [crashes: 0..MaxCrashes, faults: 0..MaxFaults, retries: 0..MaxRetries]
    BY OutcomeType DEF FailIncident
  <2> QED BY <2>1, <2>2, <2>3, <2>4 DEF FailIncident, TypeOK
<1>5. LocalsOK'
  BY <1>1, PhasesNumbered DEF LocalsOK, FailIncident, Stop, Goto, TypeOK, Location, Working, Attempt, Seqs, NoAttempt
<1>6. AttemptsCount'
  BY <1>1, <1>2, <1>3 DEF AttemptsCount, TypeOK, Row
<1>7. TokensDistinct'
  BY <1>1, PhasesNumbered DEF TokensDistinct, LocalsOK, FailIncident, Stop, Goto, TypeOK, Working, NoAttempt
<1>8. AbsentBlank'
  BY <1>1, <1>3 DEF AbsentBlank, FailIncident, Present, TypeOK, Row
<1> QED BY <1>4, <1>5, <1>6, <1>7, <1>8

\* A crash keeps the inductive invariant.
LEMMA CrashIInv ==
  ASSUME IInv, NEW w \in Workers, Crash(w)
  PROVE  IInv'
<1> USE DEF IInv
<1>1. TypeOK'
  <2>1. pc' \in [Workers -> Location]
    BY DEF Crash, Stop, Goto, TypeOK, Location, Working
  <2>2. att' \in [Workers -> Attempt]
    BY Values DEF Crash, Stop, Goto, TypeOK
  <2>3. spent' \in [crashes: 0..MaxCrashes, faults: 0..MaxFaults, retries: 0..MaxRetries]
    BY ConstantsAssumption DEF Crash, TypeOK
  <2> QED BY <2>1, <2>2, <2>3 DEF Crash, TypeOK
<1>2. LocalsOK'
  BY PhasesNumbered DEF LocalsOK, Crash, Stop, Goto, TypeOK, Location, Working, Attempt, Seqs, NoAttempt
<1>3. AttemptsCount'
  BY DEF AttemptsCount, Crash
<1>4. TokensDistinct'
  BY PhasesNumbered DEF TokensDistinct, LocalsOK, Crash, Stop, Goto, TypeOK, Working, NoAttempt
<1>5. AbsentBlank'
  BY DEF AbsentBlank, Present, Crash
<1> QED BY <1>1, <1>2, <1>3, <1>4, <1>5

\* A restart keeps the inductive invariant.
LEMMA RestartIInv ==
  ASSUME IInv, NEW w \in Workers, Restart(w)
  PROVE  IInv'
<1> USE DEF IInv
<1>1. TypeOK'
  <2>1. pc' \in [Workers -> Location]
    BY DEF Restart, Goto, TypeOK, Location, Working
  <2> QED BY <2>1 DEF Restart, TypeOK
<1>2. LocalsOK'
  BY PhasesNumbered DEF LocalsOK, Restart, Goto, TypeOK, Location, Working, Attempt, Seqs, NoAttempt
<1>3. AttemptsCount'
  BY DEF AttemptsCount, Restart
<1>4. TokensDistinct'
  BY PhasesNumbered DEF TokensDistinct, LocalsOK, Restart, Goto, TypeOK, Working, NoAttempt
<1>5. AbsentBlank'
  BY DEF AbsentBlank, Present, Restart
<1> QED BY <1>1, <1>2, <1>3, <1>4, <1>5

\* The expiry of a lease keeps the inductive invariant.
LEMMA ExpireIInv ==
  ASSUME IInv, NEW i \in Ids, Expire(i)
  PROVE  IInv'
<1> USE DEF IInv, UpdateRow
<1>1. row[i] \in Row /\ [row[i] EXCEPT !.lease = "expired"] \in Row
  BY Values, RowUpdates DEF TypeOK
<1>2. Present(i)
  BY DEF Expire, AbsentBlank, NoRow
<1>3. TypeOK'
  <2>1. row' \in [Ids -> Row]
    BY <1>1 DEF Expire, TypeOK
  <2> QED BY <2>1 DEF Expire, TypeOK
<1>4. LocalsOK'
  BY DEF LocalsOK, Expire, TypeOK
<1>5. AttemptsCount'
  BY <1>1 DEF AttemptsCount, Expire, TypeOK, Row
<1>6. TokensDistinct'
  BY DEF TokensDistinct, Expire
<1>7. AbsentBlank'
  BY <1>1, <1>2 DEF AbsentBlank, Expire, Present, TypeOK, Row
<1> QED BY <1>3, <1>4, <1>5, <1>6, <1>7

\* Inserting a reported incident keeps the inductive invariant.
LEMMA InsertIncidentIInv ==
  ASSUME IInv, NEW r \in Requests, NEW e \in Events, NEW o \in Outcomes,
         InsertIncident(r, e, o)
  PROVE  IInv'
<1> USE DEF IInv, UpdateRow
<1>1. \/ row' = row /\ nextId' = nextId
     \/ /\ nextId \in Ids /\ nextId' = nextId + 1
        /\ row' = [row EXCEPT ![nextId] = NewRow(e)]
  BY DEF InsertIncident, TypeOK, Ids
<1>2. NewRow(e) \in Row /\ NewRow(e).status = "queued" /\ NewRow(e).attempts = 0
  BY Values DEF NewRow, NoRow, Row
<1>3. /\ [step |-> "select", event |-> e, id |-> NoId] \in Request
      /\ nextId \in Ids => [step |-> "answered", event |-> e, id |-> nextId] \in Request
  BY DEF Request
<1>4. TypeOK'
  <2>1. row' \in [Ids -> Row]
    BY <1>1, <1>2 DEF TypeOK
  <2>2. req' \in [Requests -> Request]
    BY <1>3 DEF InsertIncident, TypeOK, Ids
  <2>3. nextId' \in 1..(MaxIncidents + 1)
    BY <1>1, ConstantsAssumption DEF Ids, TypeOK
  <2>4. spent' \in [crashes: 0..MaxCrashes, faults: 0..MaxFaults, retries: 0..MaxRetries]
    BY OutcomeType DEF InsertIncident
  <2> QED BY <2>1, <2>2, <2>3, <2>4 DEF InsertIncident, TypeOK
<1>5. LocalsOK'
  BY <1>1 DEF LocalsOK, InsertIncident, TypeOK, Ids
<1>6. AttemptsCount'
  BY <1>1, <1>2 DEF AttemptsCount, TypeOK
<1>7. TokensDistinct'
  BY DEF TokensDistinct, InsertIncident
<1>8. AbsentBlank'
  <2>1. phases' = phases
    BY DEF InsertIncident
  <2>2. CASE row' = row /\ nextId' = nextId
    BY <2>1, <2>2 DEF AbsentBlank, Present
  <2>3. CASE /\ nextId \in Ids /\ nextId' = nextId + 1
             /\ row' = [row EXCEPT ![nextId] = NewRow(e)]
    <3>1. row'[nextId].status = "queued"
      BY <2>3, <1>2 DEF TypeOK
    <3>2. \A i \in Ids : i # nextId => row'[i] = row[i]
      BY <2>3 DEF TypeOK
    <3>3. \A i \in Ids : i >= nextId + 1 => i >= nextId /\ i # nextId
      BY <2>3 DEF Ids
    <3> QED BY <2>1, <2>3, <3>1, <3>2, <3>3 DEF AbsentBlank, Present
  <2> QED BY <1>1, <2>2, <2>3
<1> QED BY <1>4, <1>5, <1>6, <1>7, <1>8

\* Looking up a duplicate keeps the inductive invariant.
LEMMA SelectDuplicateIInv ==
  ASSUME IInv, NEW r \in Requests, SelectDuplicate(r)
  PROVE  IInv'
<1> USE DEF IInv
<1>1. \A i \in Ids \cup {NoId} : [req[r] EXCEPT !.step = "answered", !.id = i] \in Request
  BY RequestUpdates DEF TypeOK
<1>2. TypeOK'
  <2>1. req' \in [Requests -> Request]
    <3>1. \/ req' = [req EXCEPT ![r] = NoRequest]
          \/ \E i \in Ids \cup {NoId} :
               req' = [req EXCEPT ![r] = [@ EXCEPT !.step = "answered", !.id = i]]
      BY Zenon DEF SelectDuplicate, RowIsGone
    <3> QED BY <1>1, <3>1, Values DEF TypeOK
  <2> QED BY <2>1 DEF SelectDuplicate, TypeOK
<1>3. LocalsOK'
  BY DEF LocalsOK, SelectDuplicate, TypeOK
<1>4. AttemptsCount'
  BY DEF AttemptsCount, SelectDuplicate
<1>5. TokensDistinct'
  BY DEF TokensDistinct, SelectDuplicate
<1>6. AbsentBlank'
  BY DEF AbsentBlank, Present, SelectDuplicate
<1> QED BY <1>2, <1>3, <1>4, <1>5, <1>6

\* The end of a request keeps the inductive invariant.
LEMMA CloseIInv ==
  ASSUME IInv, NEW r \in Requests, Close(r)
  PROVE  IInv'
<1> USE DEF IInv
<1>1. TypeOK'
  <2>1. req' \in [Requests -> Request]
    BY Values DEF Close, TypeOK
  <2> QED BY <2>1 DEF Close, TypeOK
<1>2. LocalsOK'
  BY DEF LocalsOK, Close, TypeOK
<1>3. AttemptsCount'
  BY DEF AttemptsCount, Close
<1>4. TokensDistinct'
  BY DEF TokensDistinct, Close
<1>5. AbsentBlank'
  BY DEF AbsentBlank, Present, Close
<1> QED BY <1>1, <1>2, <1>3, <1>4, <1>5

\* Deleting an incident keeps the inductive invariant.
LEMMA DeleteIncidentIInv ==
  ASSUME IInv, NEW i \in Ids, DeleteIncident(i)
  PROVE  IInv'
<1> USE DEF IInv, UpdateRow
<1>1. TypeOK'
  <2>1. row' \in [Ids -> Row]
    BY Values DEF DeleteIncident, TypeOK
  <2>2. phases' \in [Ids -> [Seqs -> Phase]]
    BY Values DEF DeleteIncident, TypeOK
  <2> QED BY <2>1, <2>2 DEF DeleteIncident, TypeOK
<1>2. LocalsOK'
  BY DEF LocalsOK, DeleteIncident, TypeOK
<1>3. AttemptsCount'
  BY DEF AttemptsCount, DeleteIncident, TypeOK, NoRow
<1>4. TokensDistinct'
  BY DEF TokensDistinct, DeleteIncident
<1>5. AbsentBlank'
  BY DEF AbsentBlank, DeleteIncident, Present, TypeOK, NoRow
<1> QED BY <1>1, <1>2, <1>3, <1>4, <1>5

\* Retrying an incident keeps the inductive invariant.
LEMMA RetryIncidentIInv ==
  ASSUME IInv, NEW i \in Ids, RetryIncident(i)
  PROVE  IInv'
<1> USE DEF IInv, UpdateRow
<1>1. row[i] \in Row /\ [row[i] EXCEPT !.status = "queued", !.attempts = 0, !.error = "none"] \in Row
  BY Values, RowUpdates DEF TypeOK
<1>2. TypeOK'
  <2>1. row' \in [Ids -> Row]
    BY <1>1 DEF RetryIncident, TypeOK
  <2>2. spent' \in [crashes: 0..MaxCrashes, faults: 0..MaxFaults, retries: 0..MaxRetries]
    BY ConstantsAssumption DEF RetryIncident, TypeOK
  <2> QED BY <2>1, <2>2 DEF RetryIncident, TypeOK
<1>3. LocalsOK'
  BY DEF LocalsOK, RetryIncident, TypeOK
<1>4. AttemptsCount'
  BY <1>1 DEF AttemptsCount, RetryIncident, TypeOK, Row
<1>5. TokensDistinct'
  BY DEF TokensDistinct, RetryIncident
<1>6. AbsentBlank'
  BY <1>1 DEF AbsentBlank, RetryIncident, Present, TypeOK, Row
<1> QED BY <1>2, <1>3, <1>4, <1>5, <1>6

\* Every step keeps the invariant.
LEMMA NextIInv == IInv /\ [Next]_vars => IInv'
<1> SUFFICES ASSUME IInv, [Next]_vars PROVE IInv'
  OBVIOUS
<1>1. ASSUME NEW w \in Workers, NEW o \in Outcomes, Reap(w, o)
      PROVE  IInv'
  BY <1>1, ReapIInv
<1>2. ASSUME NEW w \in Workers, NEW o \in Outcomes, Claim(w, o)
      PROVE  IInv'
  BY <1>2, ClaimIInv
<1>3. ASSUME NEW w \in Workers, ClaimNothing(w)
      PROVE  IInv'
  BY <1>3, ClaimNothingIInv
<1>4. ASSUME NEW w \in Workers, NEW o \in Outcomes, ClearPhases(w, o)
      PROVE  IInv'
  BY <1>4, ClearPhasesIInv
<1>5. ASSUME NEW w \in Workers, NEW o \in Outcomes, InsertPhase(w, o)
      PROVE  IInv'
  BY <1>5, InsertPhaseIInv
<1>6. ASSUME NEW w \in Workers, NEW good \in BOOLEAN, CallModel(w, good)
      PROVE  IInv'
  BY <1>6, CallModelIInv
<1>7. ASSUME NEW w \in Workers, NEW o \in Outcomes, RecordPhase(w, o)
      PROVE  IInv'
  BY <1>7, RecordPhaseIInv
<1>8. ASSUME NEW w \in Workers, NEW o \in Outcomes, RenewLease(w, o)
      PROVE  IInv'
  BY <1>8, RenewLeaseIInv
<1>9. ASSUME NEW w \in Workers, NEW o \in Outcomes, Review(w, o)
      PROVE  IInv'
  BY <1>9, ReviewIInv
<1>10. ASSUME NEW w \in Workers, NEW o \in Outcomes, FailPhase(w, o)
      PROVE  IInv'
  BY <1>10, FailPhaseIInv
<1>11. ASSUME NEW w \in Workers, NEW o \in Outcomes, FailIncident(w, o)
      PROVE  IInv'
  BY <1>11, FailIncidentIInv
<1>12. ASSUME NEW w \in Workers, Crash(w)
      PROVE  IInv'
  BY <1>12, CrashIInv
<1>13. ASSUME NEW w \in Workers, Restart(w)
      PROVE  IInv'
  BY <1>13, RestartIInv
<1>14. ASSUME NEW i \in Ids, Expire(i)
      PROVE  IInv'
  BY <1>14, ExpireIInv
<1>15. ASSUME NEW r \in Requests, NEW e \in Events, NEW o \in Outcomes, InsertIncident(r, e, o)
      PROVE  IInv'
  BY <1>15, InsertIncidentIInv
<1>16. ASSUME NEW r \in Requests, SelectDuplicate(r)
      PROVE  IInv'
  BY <1>16, SelectDuplicateIInv
<1>17. ASSUME NEW r \in Requests, Close(r)
      PROVE  IInv'
  BY <1>17, CloseIInv
<1>18. ASSUME NEW i \in Ids, DeleteIncident(i)
      PROVE  IInv'
  BY <1>18, DeleteIncidentIInv
<1>19. ASSUME NEW i \in Ids, RetryIncident(i)
      PROVE  IInv'
  BY <1>19, RetryIncidentIInv
<1>20. CASE UNCHANGED vars
  BY <1>20 DEF vars, IInv, TypeOK, LocalsOK, AttemptsCount, TokensDistinct, AbsentBlank, Present
<1> QED
  BY <1>1, <1>2, <1>3, <1>4, <1>5, <1>6, <1>7, <1>8, <1>9, <1>10, <1>11, <1>12, <1>13, <1>14, <1>15, <1>16, <1>17, <1>18, <1>19, <1>20 DEF Next, Work, Step

-----------------------------------------------------------------------------
(* The theorems: first what holds whatever leases and statements do, then  *)
(* what holds as long as a lease outlasts the work it protects.            *)

\* The queue's tables and the workers' locals keep their types.
THEOREM TypeCorrect == Spec => []TypeOK
<1>1. IInv => TypeOK
  BY DEF IInv
<1> QED BY <1>1, InitIInv, NextIInv, PTL DEF Spec

\* The inductive invariant is an invariant.
LEMMA Invariance == Spec => []IInv
BY InitIInv, NextIInv, PTL DEF Spec

\* No incident is claimed a fourth time between two retries.
THEOREM AttemptsAreBounded == Spec => []AttemptsBounded
<1>1. IInv => AttemptsBounded
  BY DEF IInv, AttemptsBounded, AttemptsCount, TypeOK, Row, MaxAttempts
<1> QED BY <1>1, Invariance, PTL

\* A lease has one holder, even when it expires under a live worker.
THEOREM LeaseHasOneHolder == Spec => []OneHolder
<1>1. IInv => OneHolder
  BY DEF IInv, OneHolder, TokensDistinct, Holds
<1> QED BY <1>1, Invariance, PTL

-----------------------------------------------------------------------------
\* The statuses of a deleted and of a new row.
LEMMA Blank ==
  /\ NoRow.status = "absent" /\ NoRow.lease = "none"
  /\ \A e \in Events : NewRow(e).status = "queued" /\ NewRow(e).attempts = 0
<1>1. NoRow.status = "absent" /\ NoRow.lease = "none"
  BY DEF NoRow
<1>2. ASSUME NEW e \in Events
      PROVE  NewRow(e).status = "queued" /\ NewRow(e).attempts = 0
  BY Values DEF NewRow, NoRow, Row
<1> QED BY <1>1, <1>2

-----------------------------------------------------------------------------
(* How a row can change in one step.                                       *)

Deleted(i)  == row'[i] = NoRow
Inserted(i) == ~Present(i) /\ i >= nextId /\ \E e \in Events : row'[i] = NewRow(e)
Reaped(i)   == /\ Exhausted(i)
               /\ row'[i] = [row[i] EXCEPT !.status = "failed", !.error = "interrupted"]
Expired(i)  == /\ row[i].lease = "held"
               /\ row'[i] = [row[i] EXCEPT !.lease = "expired"]
Requeued(i) == /\ row[i].status = "failed"
               /\ row'[i] = [row[i] EXCEPT !.status = "queued", !.attempts = 0, !.error = "none"]
Claimed(i)  == /\ Claimable(i)
               /\ \E t \in Tokens : row'[i] = [row[i] EXCEPT
                    !.status = "investigating", !.attempts = @ + 1, !.token = t,
                    !.lease = "held", !.error = "none", !.report = NoToken]
\* By worker w, whose token the row carries.
Renewed(w, i)  == row'[i] = [row[i] EXCEPT !.lease = "held"]
Reviewed(w, i) == row'[i] = [row[i] EXCEPT
                    !.status = "review", !.report = att[w].tok, !.lease = "none"]
GivenUp(w, i)  == \E e \in Error : row'[i] = [row[i] EXCEPT
                    !.status = "failed", !.lease = "none", !.error = e]
ByHolder(w, i) ==
  /\ pc[w] \in Working /\ pc'[w] # pc[w] /\ att[w].inc = i /\ Holds(w, i)
  /\ \/ Renewed(w, i) \/ GivenUp(w, i)
     \/ pc[w] = "review" /\ Reviewed(w, i)

RowStep(i) ==
  \/ row'[i] = row[i]
  \/ Deleted(i) \/ Inserted(i) \/ Reaped(i) \/ Expired(i) \/ Requeued(i) \/ Claimed(i)
  \/ \E w \in Workers : ByHolder(w, i)

\* Every step of the system changes a row in one of these ways.
LEMMA RowSteps ==
  ASSUME IInv, [Next]_vars
  PROVE  \A i \in Ids : RowStep(i)
<1> USE DEF IInv, TypeOK, RowStep, UpdateRow
<1>1. ASSUME NEW w \in Workers, NEW o \in Outcomes, Reap(w, o)
      PROVE  \A i \in Ids : RowStep(i)
  BY <1>1 DEF Reap, Reaped
<1>2. ASSUME NEW w \in Workers, NEW o \in Outcomes, Claim(w, o)
      PROVE  \A i \in Ids : RowStep(i)
  <2> SUFFICES ASSUME NEW j \in Ids PROVE RowStep(j)
    OBVIOUS
  <2>1. PICK i \in Ids, t \in FreshTokens :
          /\ Claimable(i)
          /\ UpdateRow(i, o # "refused", [row[i] EXCEPT
               !.status = "investigating", !.attempts = @ + 1, !.token = t,
               !.lease = "held", !.error = "none", !.report = NoToken])
    BY <1>2, Zenon DEF Claim
  <2>2. t \in Tokens
    BY DEF FreshTokens
  <2> QED BY <2>1, <2>2 DEF Claimed
<1>3. ASSUME NEW w \in Workers, NEW o \in Outcomes, RenewLease(w, o)
      PROVE  \A i \in Ids : RowStep(i)
  <2>1. pc'[w] # pc[w] /\ pc[w] \in Working
    BY <1>3 DEF RenewLease, Stop, Goto, Working
  <2> QED BY <1>3, <2>1 DEF RenewLease, ByHolder, Renewed
<1>4. ASSUME NEW w \in Workers, NEW o \in Outcomes, Review(w, o)
      PROVE  \A i \in Ids : RowStep(i)
  <2>1. pc'[w] # pc[w] /\ pc[w] \in Working
    BY <1>4 DEF Review, Stop, Goto, Working
  <2> QED BY <1>4, <2>1 DEF Review, ByHolder, Reviewed
<1>5. ASSUME NEW w \in Workers, NEW o \in Outcomes, FailIncident(w, o)
      PROVE  \A i \in Ids : RowStep(i)
  <2>1. pc'[w] # pc[w] /\ pc[w] \in Working
    BY <1>5 DEF FailIncident, Stop, Goto, Working
  <2> QED BY <1>5, <2>1, Values DEF FailIncident, ByHolder, GivenUp
<1>6. ASSUME NEW i \in Ids, Expire(i)
      PROVE  \A j \in Ids : RowStep(j)
  BY <1>6 DEF Expire, Expired
<1>7. ASSUME NEW r \in Requests, NEW e \in Events, NEW o \in Outcomes, InsertIncident(r, e, o)
      PROVE  \A i \in Ids : RowStep(i)
  BY <1>7 DEF InsertIncident, Inserted, AbsentBlank
<1>8. ASSUME NEW i \in Ids, DeleteIncident(i)
      PROVE  \A j \in Ids : RowStep(j)
  BY <1>8 DEF DeleteIncident, Deleted
<1>9. ASSUME NEW i \in Ids, RetryIncident(i)
      PROVE  \A j \in Ids : RowStep(j)
  BY <1>9 DEF RetryIncident, Requeued
<1>10. CASE row' = row
  BY <1>10
<1>11. ASSUME NEW w \in Workers, NEW o \in Outcomes,
              ClearPhases(w, o) \/ InsertPhase(w, o) \/ RecordPhase(w, o) \/ FailPhase(w, o)
       PROVE  row' = row
  BY <1>11 DEF ClearPhases, InsertPhase, RecordPhase, FailPhase
<1>12. ASSUME NEW w \in Workers, NEW good \in BOOLEAN,
              ClaimNothing(w) \/ CallModel(w, good) \/ Crash(w) \/ Restart(w)
       PROVE  row' = row
  BY <1>12 DEF ClaimNothing, CallModel, Crash, Restart
<1>13. ASSUME NEW r \in Requests, SelectDuplicate(r) \/ Close(r)
       PROVE  row' = row
  BY <1>13 DEF SelectDuplicate, Close
<1>14. CASE UNCHANGED vars
  BY <1>14 DEF vars
<1> QED
  BY <1>1, <1>2, <1>3, <1>4, <1>5, <1>6, <1>7, <1>8, <1>9, <1>10, <1>11, <1>12, <1>13, <1>14
     DEF Next, Work, Step

-----------------------------------------------------------------------------
(* Whatever leases and statements do.                                      *)

\* The report under review is that of the attempt whose token the row has.
THEOREM ReportIsTheHolders == Spec => []ReportIsHolders
<1>1. Init => ReportIsHolders
  BY DEF Init, ReportIsHolders, NoRow
<1>2. IInv /\ ReportIsHolders /\ [Next]_vars => ReportIsHolders'
  <2> SUFFICES ASSUME IInv, ReportIsHolders, [Next]_vars, NEW i \in Ids,
                      row'[i].status = "review"
               PROVE  row'[i].report # NoToken /\ row'[i].report = row'[i].token
    BY DEF ReportIsHolders
  <2> USE DEF IInv, TypeOK, Row
  <2>1. RowStep(i)
    BY RowSteps
  <2>2. CASE row'[i] = row[i]
    BY <2>2 DEF ReportIsHolders
  <2>3. CASE Deleted(i) \/ Inserted(i) \/ Reaped(i) \/ Requeued(i) \/ Claimed(i)
    <3>1. CASE Deleted(i) \/ Inserted(i)
      <4>1. NoRow.status = "absent" /\ \A e \in Events : NewRow(e).status = "queued"
        BY Blank
      <4> QED BY <3>1, <4>1 DEF Deleted, Inserted
    <3>2. CASE Reaped(i) \/ Requeued(i)
      BY <3>2 DEF Reaped, Requeued
    <3>3. CASE Claimed(i)
      BY <3>3 DEF Claimed
    <3> QED BY <2>3, <3>1, <3>2, <3>3
  <2>4. CASE Expired(i)
    BY <2>4 DEF Expired, ReportIsHolders
  <2>5. ASSUME NEW w \in Workers, ByHolder(w, i)
        PROVE  row'[i].report # NoToken /\ row'[i].report = row'[i].token
    <3>1. att[w].tok # NoToken
      BY <2>5, ConstantsAssumption DEF ByHolder, LocalsOK
    <3>2. CASE Renewed(w, i)
      BY <3>2 DEF Renewed, ReportIsHolders
    <3>3. CASE Reviewed(w, i)
      BY <3>1, <3>3, <2>5 DEF Reviewed, ByHolder, Holds
    <3>4. CASE GivenUp(w, i)
      BY <3>4 DEF GivenUp
    <3> QED BY <3>2, <3>3, <3>4, <2>5 DEF ByHolder
  <2> QED BY <2>1, <2>2, <2>3, <2>4, <2>5 DEF RowStep
<1> QED BY <1>1, <1>2, Invariance, PTL DEF Spec

\* A lease in force keeps everybody but its holder off the row.
THEOREM LeaseProtects == Spec => LeaseProtectsRow
<1>1. IInv /\ [Next]_vars =>
        \A i \in Ids :
          /\ row[i].status = "investigating" /\ row[i].lease = "held"
          /\ row'[i] # row[i] /\ Present(i)'
          => \/ row'[i] = [row[i] EXCEPT !.lease = "expired"]
             \/ \E w \in Workers : /\ pc'[w] # pc[w]
                                   /\ att[w].inc = i /\ att[w].tok = row[i].token
  <2> SUFFICES ASSUME IInv, [Next]_vars, NEW i \in Ids,
                      row[i].status = "investigating", row[i].lease = "held",
                      row'[i] # row[i], Present(i)',
                      row'[i] # [row[i] EXCEPT !.lease = "expired"]
               PROVE  \E w \in Workers : /\ pc'[w] # pc[w]
                                         /\ att[w].inc = i /\ att[w].tok = row[i].token
    OBVIOUS
  <2>1. RowStep(i)
    BY RowSteps
  <2>2. ~Claimable(i) /\ ~Exhausted(i) /\ Present(i)
    BY DEF Claimable, Exhausted, ExpiredLease, Present
  <2>3. ~Deleted(i)
    BY DEF Deleted, NoRow, Present
  <2>4. ~Inserted(i) /\ ~Reaped(i) /\ ~Requeued(i) /\ ~Claimed(i) /\ ~Expired(i)
    BY <2>2 DEF Inserted, Reaped, Requeued, Claimed, Expired
  <2> QED BY <2>1, <2>3, <2>4 DEF RowStep, ByHolder, Holds
<1> QED BY <1>1, Invariance, PTL DEF Spec, LeaseProtectsRow

\* A deleted incident is not recreated, and its worker leaves no phase rows.
THEOREM DeletionIsFinal == Spec => DeletedStaysDeleted
<1>1. IInv /\ [Next]_vars =>
        \A i \in Ids : i < nextId /\ ~Present(i) => ~Present(i)' /\ phases'[i] = NoPhases
  <2> SUFFICES ASSUME IInv, [Next]_vars, NEW i \in Ids, i < nextId, ~Present(i)
               PROVE  ~Present(i)' /\ phases'[i] = NoPhases
    OBVIOUS
  <2>1. RowStep(i)
    BY RowSteps
  <2>2. ~Inserted(i)
    BY DEF Inserted, IInv, TypeOK, Ids
  <2>3. ~Reaped(i) /\ ~Requeued(i) /\ ~Claimed(i) /\ \A w \in Workers : ~ByHolder(w, i)
    BY DEF Reaped, Requeued, Claimed, ByHolder, Holds, Present, Claimable, Exhausted, ExpiredLease
  <2>4. ~Expired(i)
    BY DEF Expired, IInv, AbsentBlank, NoRow
  <2>5. ~Present(i)'
    BY <2>1, <2>2, <2>3, <2>4, Blank DEF RowStep, Deleted, Present
  <2>6. IInv'
    BY NextIInv
  <2> QED BY <2>5, <2>6 DEF IInv, AbsentBlank
<1> QED BY <1>1, Invariance, PTL DEF Spec, DeletedStaysDeleted

-----------------------------------------------------------------------------
(* The answers to reporters.                                               *)

\* Only the routes' own steps touch a request.
LEMMA RequestSteps ==
  ASSUME [Next]_vars
  PROVE  \/ req' = req
         \/ \E r \in Requests : \/ \E e \in Events, o \in Outcomes : InsertIncident(r, e, o)
                                \/ SelectDuplicate(r) \/ Close(r)
<1>1. ASSUME NEW w \in Workers, NEW o \in Outcomes, Step(w, o)
      PROVE  req' = req
  <2>1. CASE Claim(w, o)
    BY <2>1 DEF Claim
  <2>2. CASE Reap(w, o) \/ ClearPhases(w, o) \/ InsertPhase(w, o) \/ RecordPhase(w, o)
             \/ RenewLease(w, o) \/ Review(w, o) \/ FailPhase(w, o) \/ FailIncident(w, o)
    BY <2>2 DEF Reap, ClearPhases, InsertPhase, RecordPhase, RenewLease, Review, FailPhase,
                FailIncident
  <2> QED BY <1>1, <2>1, <2>2 DEF Step
<1>2. ASSUME NEW w \in Workers, Work(w) \/ Crash(w) \/ Restart(w)
      PROVE  req' = req
  BY <1>1, <1>2 DEF Work, ClaimNothing, CallModel, Crash, Restart
<1>3. ASSUME NEW i \in Ids, Expire(i) \/ DeleteIncident(i) \/ RetryIncident(i)
      PROVE  req' = req
  BY <1>3 DEF Expire, DeleteIncident, RetryIncident
<1>4. CASE UNCHANGED vars
  BY <1>4 DEF vars
<1> QED BY <1>2, <1>3, <1>4 DEF Next

\* A request that looks for a duplicate names a reported event.
LooksForEvent == \A r \in Requests : req[r].step = "select" => req[r].event \in Events

LEMMA LookingForEvents == Spec => []LooksForEvent
<1>1. Init => LooksForEvent
  BY DEF Init, LooksForEvent, NoRequest
<1>2. IInv /\ LooksForEvent /\ [Next]_vars => LooksForEvent'
  <2> SUFFICES ASSUME IInv, LooksForEvent, [Next]_vars PROVE LooksForEvent'
    OBVIOUS
  <2>1. CASE req' = req
    BY <2>1 DEF LooksForEvent
  <2>2. ASSUME NEW r \in Requests, NEW e \in Events, NEW o \in Outcomes, InsertIncident(r, e, o)
        PROVE  LooksForEvent'
    BY <2>2 DEF InsertIncident, LooksForEvent, IInv, TypeOK
  <2>3. ASSUME NEW r \in Requests, SelectDuplicate(r) \/ Close(r)
        PROVE  LooksForEvent'
    <3>1. NoRequest.step # "select" /\ \A x \in Request, i \in Ids \cup {NoId} :
            [x EXCEPT !.step = "answered", !.id = i].step # "select"
      BY DEF NoRequest, Request
    <3>2. CASE req' = [req EXCEPT ![r] = NoRequest]
      BY <3>1, <3>2 DEF LooksForEvent, IInv, TypeOK
    <3>3. ASSUME NEW i \in Ids \cup {NoId},
                 req' = [req EXCEPT ![r] = [@ EXCEPT !.step = "answered", !.id = i]]
          PROVE  LooksForEvent'
      <4>1. \A q \in Requests : req'[q] = req[q] \/ req'[q].step # "select"
        <5>1. req[r] \in Request
          BY DEF IInv, TypeOK
        <5>. DEFINE x == [req[r] EXCEPT !.step = "answered", !.id = i]
        <5>2. x.step # "select"
          BY <3>1, <5>1
        <5>. HIDE DEF x
        <5>3. req' = [req EXCEPT ![r] = x]
          BY <3>3 DEF x
        <5> QED BY <5>2, <5>3 DEF IInv, TypeOK
      <4> QED BY <4>1 DEF LooksForEvent
    <3> QED BY <2>3, <3>2, <3>3 DEF SelectDuplicate, Close, RowIsGone
  <2> QED BY <2>1, <2>2, <2>3, RequestSteps
<1> QED BY <1>1, <1>2, Invariance, PTL DEF Spec

\* The answer a request has been given, in the state it was given in.
AnswerFits(r) ==
  \/ /\ req'[r].id \in Ids
     /\ row'[req'[r].id].event = req'[r].event /\ row'[req'[r].id].status # "absent"
  \/ /\ req'[r].id = NoId /\ req'[r].event \in ManualEvents
     /\ \A i \in Ids : row'[i].event # req'[r].event

\* A 2xx answer is given for an incident that is stored (routes.ts:16-25), or,
\* to the form alone, for a duplicate whose row is gone (76).
THEOREM AnswersStored == Spec => AnswersAreStored
<1>1. IInv /\ LooksForEvent /\ [Next]_vars =>
        \A r \in Requests :
          req[r].step # "answered" /\ req'[r].step = "answered" => AnswerFits(r)
  <2> SUFFICES ASSUME IInv, LooksForEvent, [Next]_vars, NEW r \in Requests,
                      req[r].step # "answered", req'[r].step = "answered"
               PROVE  AnswerFits(r)
    OBVIOUS
  <2>1. ~(req' = req)
    OBVIOUS
  <2>2. ASSUME NEW q \in Requests, NEW e \in Events, NEW o \in Outcomes, InsertIncident(q, e, o)
        PROVE  AnswerFits(r)
    <3>1. q = r
      BY <2>2 DEF InsertIncident, IInv, TypeOK
    <3>2. /\ req'[r] = [step |-> "answered", event |-> e, id |-> nextId]
          /\ nextId <= MaxIncidents /\ row' = [row EXCEPT ![nextId] = NewRow(e)]
      BY <2>2, <3>1 DEF InsertIncident, IInv, TypeOK
    <3>3. nextId \in Ids
      BY <3>2, ConstantsAssumption DEF Ids, IInv, TypeOK
    <3>4. NewRow(e).event = e /\ NewRow(e).status = "queued"
      BY DEF NewRow, NoRow
    <3> QED BY <3>2, <3>3, <3>4 DEF AnswerFits, IInv, TypeOK
  <2>3. ASSUME NEW q \in Requests, SelectDuplicate(q)
        PROVE  AnswerFits(r)
    <3>1. q = r /\ req[r].step = "select" /\ row' = row
      BY <2>3 DEF SelectDuplicate, RowIsGone, NoRequest, IInv, TypeOK
    <3>2. PICK id \in Ids \cup {NoId} :
            /\ req'[r] = [req[r] EXCEPT !.step = "answered", !.id = id]
            /\ \/ id \in Ids /\ row[id].event = req[r].event
               \/ /\ id = NoId /\ req[r].event \in ManualEvents
                  /\ \A i \in Ids : row[i].event # req[r].event
      <4>1. ~(req' = [req EXCEPT ![r] = NoRequest])
        BY DEF NoRequest, IInv, TypeOK
      <4>2. \E id \in Ids \cup {NoId} :
              /\ req' = [req EXCEPT ![r] = [@ EXCEPT !.step = "answered", !.id = id]]
              /\ \/ id \in {i \in Ids : row[i].event = req[r].event}
                 \/ /\ id = NoId /\ req[r].event \in ManualEvents
                    /\ {i \in Ids : row[i].event = req[r].event} = {}
        BY <2>3, <3>1, <4>1, Zenon DEF SelectDuplicate, RowIsGone
      <4> QED BY <4>2, Zenon DEF IInv, TypeOK
    <3>3. req'[r].id = id /\ req'[r].event = req[r].event
      <4>1. \A x \in Request : /\ [x EXCEPT !.step = "answered", !.id = id].id = id
                               /\ [x EXCEPT !.step = "answered", !.id = id].event = x.event
        BY DEF Request
      <4> QED BY <3>2, <4>1 DEF IInv, TypeOK
    <3>4. row[id].event # NoEvent \/ id \notin Ids
      BY <3>1, <3>2, ConstantsAssumption DEF LooksForEvent, Ids, NoId
    <3>5. NoRow.event = NoEvent
      BY DEF NoRow
    <3>6. CASE id \in Ids
      BY <3>1, <3>2, <3>3, <3>4, <3>5, <3>6 DEF AnswerFits, IInv, AbsentBlank, Present, Ids, NoId
    <3>7. CASE id \notin Ids
      BY <3>1, <3>2, <3>3, <3>7 DEF AnswerFits
    <3> QED BY <3>6, <3>7
  <2>4. ASSUME NEW q \in Requests, Close(q)
        PROVE  FALSE
    BY <2>4 DEF Close, NoRequest, IInv, TypeOK
  <2> QED BY <2>1, <2>2, <2>3, <2>4, RequestSteps
<1> QED BY <1>1, Invariance, LookingForEvents, PTL DEF Spec, AnswersAreStored, AnswerFits

-----------------------------------------------------------------------------
(* As long as a lease outlasts the work it protects.                       *)

\* A busy worker holds the lease of its incident, which is under investigation
\* unless the answer to its own Review was lost.
HoldsLease(w) ==
  /\ Present(att[w].inc)
  => /\ row[att[w].inc].token = att[w].tok
     /\ \/ row[att[w].inc].status = "investigating" /\ row[att[w].inc].lease = "held"
        \/ /\ "lost" \in FaultKinds /\ pc[w] \in {"cleanup", "fail"}
           /\ row[att[w].inc].status = "review"

HoldersWork == \A w \in Workers : pc[w] \in Working => HoldsLease(w)

\* Nobody is at work on an incident that a worker may claim.
LEMMA ClaimableIsFree ==
  ASSUME IInv, HoldersWork, NEW w \in Workers, pc[w] \in Working, NEW i \in Ids, Claimable(i)
  PROVE  att[w].inc # i
BY DEF HoldersWork, HoldsLease, Claimable, ExpiredLease, Present

\* The holder of the incident another worker is at is that worker.
LEMMA HolderIsAlone ==
  ASSUME IInv, HoldersWork, NEW v \in Workers, NEW w \in Workers,
         pc[v] \in Working, pc[w] \in Working, att[v].inc = att[w].inc, Present(att[w].inc)
  PROVE  v = w
BY DEF HoldersWork, HoldsLease, IInv, TokensDistinct

\* A step that leaves the rows alone and moves no worker out of its statement's
\* obligations keeps HoldersWork.
LEMMA RowsUntouched ==
  ASSUME IInv, HoldersWork, row' = row,
         \A w \in Workers : pc'[w] \in Working =>
           /\ pc[w] \in Working /\ att'[w].inc = att[w].inc /\ att'[w].tok = att[w].tok
           /\ pc[w] \in {"cleanup", "fail"} => pc'[w] \in {"cleanup", "fail"}
  PROVE  HoldersWork'
BY DEF HoldersWork, HoldsLease, Present

\* Every step keeps HoldersWork while leases outlast the work.
LEMMA NextHoldersWork ==
  ASSUME IInv, HoldersWork, LeaseOutlastsWork, [Next]_vars
  PROVE  HoldersWork'
<1> USE DEF IInv, TypeOK
<1>1. ASSUME NEW w \in Workers, NEW o \in Outcomes, Reap(w, o)
      PROVE  HoldersWork'
  <2> SUFFICES ASSUME NEW v \in Workers, pc'[v] \in Working, Present(att[v].inc)'
               PROVE  HoldsLease(v)'
    BY DEF HoldersWork, HoldsLease
  <2>1. v # w /\ pc'[v] = pc[v] /\ att' = att
    BY <1>1 DEF Reap, Goto, Working
  <2>2. att[v].inc \in Ids /\ pc[v] \in Working
    BY <2>1 DEF LocalsOK
  <2>3. Present(att[v].inc)
    BY <1>1, <2>1, <2>2 DEF Reap, Present, Exhausted, ExpiredLease
  <2>4. ~Exhausted(att[v].inc)
    BY <2>2, <2>3 DEF HoldersWork, HoldsLease, Exhausted, ExpiredLease
  <2>5. row'[att[v].inc] = row[att[v].inc]
    BY <1>1, <2>2, <2>4 DEF Reap
  <2> QED BY <2>1, <2>2, <2>3, <2>5 DEF HoldersWork, HoldsLease
<1>2. ASSUME NEW w \in Workers, NEW o \in Outcomes, Claim(w, o)
      PROVE  HoldersWork'
  <2> SUFFICES ASSUME NEW v \in Workers, pc'[v] \in Working, Present(att[v].inc)'
               PROVE  HoldsLease(v)'
    BY DEF HoldersWork, HoldsLease
  <2>1. PICK i \in Ids, t \in FreshTokens :
          /\ Claimable(i)
          /\ UpdateRow(i, o # "refused", [row[i] EXCEPT
               !.status = "investigating", !.attempts = @ + 1, !.token = t,
               !.lease = "held", !.error = "none", !.report = NoToken])
          /\ IF o = "ok"
             THEN Goto(w, "clear") /\ att' = [att EXCEPT ![w] = [inc |-> i, tok |-> t, seq |-> 0]]
             ELSE Stop(w, "idle")
    BY <1>2, Zenon DEF Claim
  <2>2. CASE v = w
    <3>1. o = "ok" /\ att'[v].inc = i /\ att'[v].tok = t
      BY <2>1, <2>2 DEF Stop, Goto, Working
    <3>2. row'[i].token = t /\ row'[i].status = "investigating" /\ row'[i].lease = "held"
      BY <2>1, <3>1 DEF UpdateRow, Row
    <3> QED BY <3>1, <3>2 DEF HoldsLease
  <2>3. CASE v # w
    <3>1. pc'[v] = pc[v] /\ att'[v] = att[v]
      BY <2>1, <2>3 DEF Stop, Goto
    <3>2. att[v].inc # i /\ att[v].inc \in Ids
      BY <2>1, <3>1, ClaimableIsFree DEF LocalsOK
    <3>3. row'[att[v].inc] = row[att[v].inc]
      BY <2>1, <3>2 DEF UpdateRow
    <3> QED BY <3>1, <3>3 DEF HoldersWork, HoldsLease, Present
  <2> QED BY <2>2, <2>3
<1>3. ASSUME NEW w \in Workers, NEW o \in Outcomes, RenewLease(w, o)
      PROVE  HoldersWork'
  <2> SUFFICES ASSUME NEW v \in Workers, pc'[v] \in Working, Present(att[v].inc)'
               PROVE  HoldsLease(v)'
    BY DEF HoldersWork, HoldsLease
  <2>1. pc[w] = "renew" /\ att[w].inc \in Ids /\ row[att[w].inc] \in Row
    BY <1>3, AtWork DEF RenewLease, Working
  <2>2. pc[v] \in Working /\ att'[v] = att[v] /\ (v # w => pc'[v] = pc[v])
    BY <1>3, <2>1 DEF RenewLease, Stop, Goto, Working
  <2>3. att[v].inc \in Ids
    BY <2>2 DEF LocalsOK
  <2>4. CASE att[v].inc # att[w].inc
    <3>1. row'[att[v].inc] = row[att[v].inc] /\ v # w
      BY <1>3, <2>1, <2>3, <2>4 DEF RenewLease, UpdateRow
    <3> QED BY <2>2, <3>1 DEF HoldersWork, HoldsLease, Present
  <2>5. CASE att[v].inc = att[w].inc
    <3>1. Present(att[w].inc)
      BY <1>3, <2>1, <2>2, <2>5 DEF RenewLease, UpdateRow, Holds, Present
    <3>2. v = w
      BY <2>1, <2>2, <2>5, <3>1, HolderIsAlone DEF Working
    <3>3. row[att[w].inc].token = att[w].tok /\ row[att[w].inc].status = "investigating"
          /\ row[att[w].inc].lease = "held"
      BY <2>1, <3>1 DEF HoldersWork, HoldsLease, Working
    <3>4. row'[att[w].inc].token = att[w].tok /\ row'[att[w].inc].status = "investigating"
          /\ row'[att[w].inc].lease = "held"
      BY <1>3, <2>1, <3>3 DEF RenewLease, UpdateRow, Row
    <3> QED BY <2>2, <3>2, <3>4 DEF HoldsLease
  <2> QED BY <2>4, <2>5
<1>4. ASSUME NEW w \in Workers, NEW o \in Outcomes, Review(w, o)
      PROVE  HoldersWork'
  <2> SUFFICES ASSUME NEW v \in Workers, pc'[v] \in Working, Present(att[v].inc)'
               PROVE  HoldsLease(v)'
    BY DEF HoldersWork, HoldsLease
  <2>1. pc[w] = "review" /\ att[w].inc \in Ids /\ row[att[w].inc] \in Row
    BY <1>4, AtWork DEF Review, Working
  <2>2. /\ pc[v] \in Working /\ att'[v] = att[v] /\ (v # w => pc'[v] = pc[v])
        /\ v = w => o # "ok" /\ pc'[v] = "cleanup"
    BY <1>4, <2>1 DEF Review, Stop, Goto, Working
  <2>3. att[v].inc \in Ids
    BY <2>2 DEF LocalsOK
  <2>4. CASE att[v].inc # att[w].inc
    <3>1. row'[att[v].inc] = row[att[v].inc] /\ v # w
      BY <1>4, <2>1, <2>3, <2>4 DEF Review, UpdateRow
    <3> QED BY <2>2, <3>1 DEF HoldersWork, HoldsLease, Present
  <2>5. CASE att[v].inc = att[w].inc
    <3>1. Present(att[w].inc)
      BY <1>4, <2>1, <2>2, <2>5 DEF Review, UpdateRow, Holds, Present
    <3>2. v = w /\ o # "ok" /\ pc'[w] = "cleanup"
      BY <2>1, <2>2, <2>5, <3>1, HolderIsAlone DEF Working
    <3>3. row[att[w].inc].token = att[w].tok /\ row[att[w].inc].status = "investigating"
          /\ row[att[w].inc].lease = "held"
      BY <2>1, <3>1 DEF HoldersWork, HoldsLease, Working
    <3>4. CASE o = "refused"
      BY <1>4, <2>2, <3>2, <3>3, <3>4 DEF Review, UpdateRow, HoldsLease
    <3>5. CASE o # "refused"
      <4>1. "lost" \in FaultKinds
        BY <3>2, <3>5, ConstantsAssumption DEF Outcomes
      <4>2. row'[att[w].inc].token = att[w].tok /\ row'[att[w].inc].status = "review"
        BY <1>4, <2>1, <3>1, <3>3, <3>5 DEF Review, UpdateRow, Holds, Row
      <4> QED BY <2>2, <3>2, <4>1, <4>2 DEF HoldsLease
    <3> QED BY <3>4, <3>5
  <2> QED BY <2>4, <2>5
<1>5. ASSUME NEW w \in Workers, NEW o \in Outcomes, FailIncident(w, o)
      PROVE  HoldersWork'
  <2> SUFFICES ASSUME NEW v \in Workers, pc'[v] \in Working, Present(att[v].inc)'
               PROVE  HoldsLease(v)'
    BY DEF HoldersWork, HoldsLease
  <2>1. pc[w] \in Working /\ att[w].inc \in Ids
    BY <1>5, AtWork DEF FailIncident, Working
  <2>2. v # w /\ pc[v] \in Working /\ att'[v] = att[v] /\ pc'[v] = pc[v]
    BY <1>5, <2>1 DEF FailIncident, Stop, Goto, Working
  <2>3. att[v].inc \in Ids
    BY <2>2 DEF LocalsOK
  <2>4. Holds(w, att[w].inc) => att[v].inc # att[w].inc
    BY <2>1, <2>2, HolderIsAlone DEF Holds
  <2>5. row'[att[v].inc] = row[att[v].inc]
    BY <1>5, <2>1, <2>3, <2>4 DEF FailIncident, UpdateRow
  <2> QED BY <2>2, <2>5 DEF HoldersWork, HoldsLease, Present
<1>6. ASSUME NEW i \in Ids,
             Expire(i) \/ DeleteIncident(i) \/ RetryIncident(i)
      PROVE  HoldersWork'
  <2> SUFFICES ASSUME NEW v \in Workers, pc'[v] \in Working, Present(att[v].inc)'
               PROVE  HoldsLease(v)'
    BY DEF HoldersWork, HoldsLease
  <2>1. pc' = pc /\ att' = att
    BY <1>6 DEF Expire, DeleteIncident, RetryIncident
  <2>2. att[v].inc \in Ids
    BY <2>1 DEF LocalsOK
  <2>3. CASE att[v].inc # i
    <3>1. row'[att[v].inc] = row[att[v].inc]
      BY <1>6, <2>2, <2>3 DEF Expire, DeleteIncident, RetryIncident, UpdateRow
    <3> QED BY <2>1, <3>1 DEF HoldersWork, HoldsLease, Present
  <2>4. CASE att[v].inc = i
    <3>1. ~DeleteIncident(i)
      BY <2>1, <2>4, Blank DEF DeleteIncident, Present
    <3>2. Present(i)
      BY <1>6, <3>1, Blank DEF Expire, RetryIncident, Present, AbsentBlank
    <3>3. ~RetryIncident(i)
      BY <2>1, <2>4, <3>2 DEF RetryIncident, HoldersWork, HoldsLease
    <3>4. ~Expire(i)
      BY <2>1, <2>4, <3>2 DEF Expire, HoldersWork, HoldsLease
    <3> QED BY <1>6, <3>1, <3>3, <3>4
  <2> QED BY <2>3, <2>4
<1>7. ASSUME NEW r \in Requests, NEW e \in Events, NEW o \in Outcomes, InsertIncident(r, e, o)
      PROVE  HoldersWork'
  <2>1. \A w \in Workers : pc[w] \in Working => row'[att[w].inc] = row[att[w].inc]
    BY <1>7 DEF InsertIncident, LocalsOK
  <2> QED BY <1>7, <2>1 DEF InsertIncident, HoldersWork, HoldsLease, Present
<1>8. ASSUME NEW w \in Workers, NEW o \in Outcomes, ClearPhases(w, o)
      PROVE  HoldersWork'
  BY <1>8, RowsUntouched DEF ClearPhases, Stop, Goto, Working, NoAttempt
<1>9. ASSUME NEW w \in Workers, NEW o \in Outcomes, InsertPhase(w, o)
      PROVE  HoldersWork'
  <2>1. row' = row /\ pc[w] = "phase" /\ att' = [att EXCEPT ![w].seq = att[w].seq + 1]
    BY <1>9 DEF InsertPhase
  <2>2. \A v \in Workers : att'[v].inc = att[v].inc /\ att'[v].tok = att[v].tok
    BY <2>1 DEF Attempt
  <2> QED BY <1>9, <2>1, <2>2, RowsUntouched DEF InsertPhase, Goto, Working
<1>10. ASSUME NEW w \in Workers, NEW o \in Outcomes, RecordPhase(w, o) \/ FailPhase(w, o)
       PROVE  HoldersWork'
  BY <1>10, RowsUntouched DEF RecordPhase, FailPhase, Goto, Working
<1>11. ASSUME NEW w \in Workers, NEW good \in BOOLEAN,
              ClaimNothing(w) \/ CallModel(w, good) \/ Crash(w) \/ Restart(w)
       PROVE  HoldersWork'
  BY <1>11, RowsUntouched DEF ClaimNothing, CallModel, Crash, Restart, Stop, Goto, Working
<1>12. ASSUME NEW r \in Requests, SelectDuplicate(r) \/ Close(r)
       PROVE  HoldersWork'
  BY <1>12, RowsUntouched DEF SelectDuplicate, Close
<1>13. CASE UNCHANGED vars
  BY <1>13, RowsUntouched DEF vars
<1> QED
  BY <1>1, <1>2, <1>3, <1>4, <1>5, <1>6, <1>7, <1>8, <1>9, <1>10, <1>11, <1>12, <1>13
     DEF Next, Work, Step

\* No step but Claim puts a worker to work.
LEMMA WorkersStay ==
  ASSUME IInv, [Next]_vars, ~\E w \in Workers, o \in Outcomes : Claim(w, o),
         NEW w \in Workers, pc'[w] \in Working
  PROVE  pc[w] \in Working /\ att'[w].inc = att[w].inc
<1> USE DEF IInv, TypeOK
<1>1. ASSUME NEW v \in Workers, NEW o \in Outcomes,
             Reap(v, o) \/ ClearPhases(v, o) \/ RecordPhase(v, o) \/ RenewLease(v, o)
             \/ Review(v, o) \/ FailPhase(v, o) \/ FailIncident(v, o)
      PROVE  pc[w] \in Working /\ att'[w].inc = att[w].inc
  BY <1>1 DEF Reap, ClearPhases, RecordPhase, RenewLease, Review, FailPhase, FailIncident,
              Stop, Goto, Working
<1>2. ASSUME NEW v \in Workers, NEW o \in Outcomes, InsertPhase(v, o)
      PROVE  pc[w] \in Working /\ att'[w].inc = att[w].inc
  <2>1. att' = [att EXCEPT ![v].seq = att[v].seq + 1] /\ pc[v] \in Working
    BY <1>2 DEF InsertPhase, Working
  <2>2. att'[w].inc = att[w].inc
    BY <2>1 DEF Attempt
  <2> QED BY <1>2, <2>1, <2>2 DEF InsertPhase, Goto
<1>3. ASSUME NEW v \in Workers, NEW good \in BOOLEAN,
             ClaimNothing(v) \/ CallModel(v, good) \/ Crash(v) \/ Restart(v)
      PROVE  pc[w] \in Working /\ att'[w].inc = att[w].inc
  BY <1>3 DEF ClaimNothing, CallModel, Crash, Restart, Stop, Goto, Working
<1>4. CASE UNCHANGED <<pc, att>>
  BY <1>4
<1>5. ASSUME NEW i \in Ids, Expire(i) \/ DeleteIncident(i) \/ RetryIncident(i)
      PROVE  UNCHANGED <<pc, att>>
  BY <1>5 DEF Expire, DeleteIncident, RetryIncident
<1>6. ASSUME NEW r \in Requests, NEW e \in Events, NEW o \in Outcomes, InsertIncident(r, e, o)
      PROVE  UNCHANGED <<pc, att>>
  BY <1>6 DEF InsertIncident
<1>7. ASSUME NEW r \in Requests, SelectDuplicate(r) \/ Close(r)
      PROVE  UNCHANGED <<pc, att>>
  BY <1>7 DEF SelectDuplicate, Close
<1>8. CASE UNCHANGED vars
  BY <1>8 DEF vars
<1> QED
  BY <1>1, <1>2, <1>3, <1>4, <1>5, <1>6, <1>7, <1>8 DEF Next, Work, Step

\* No two workers are ever busy with the same incident.
THEOREM OneWorkerAtATime ==
  ASSUME LeaseOutlastsWork
  PROVE  Spec => []OneWorkerPerIncident
<1>1. Init => HoldersWork /\ OneWorkerPerIncident
  BY DEF Init, HoldersWork, OneWorkerPerIncident, Working
<1>2. IInv /\ HoldersWork /\ OneWorkerPerIncident /\ [Next]_vars => OneWorkerPerIncident'
  <2> SUFFICES ASSUME IInv, HoldersWork, OneWorkerPerIncident, [Next]_vars,
                      NEW v \in Workers, NEW w \in Workers, v # w,
                      pc'[v] \in Working, pc'[w] \in Working
               PROVE  att'[v].inc # att'[w].inc
    BY DEF OneWorkerPerIncident
  <2>1. CASE ~\E u \in Workers, o \in Outcomes : Claim(u, o)
    BY <2>1, WorkersStay DEF OneWorkerPerIncident
  <2>2. ASSUME NEW u \in Workers, NEW o \in Outcomes, Claim(u, o)
        PROVE  att'[v].inc # att'[w].inc
    <3>1. PICK i \in Ids, t \in FreshTokens :
            /\ Claimable(i)
            /\ IF o = "ok"
               THEN Goto(u, "clear") /\ att' = [att EXCEPT ![u] = [inc |-> i, tok |-> t, seq |-> 0]]
               ELSE Stop(u, "idle")
      BY <2>2, Zenon DEF Claim
    <3>2. \A x \in Workers : x # u => pc'[x] = pc[x] /\ att'[x] = att[x]
      BY <3>1 DEF Stop, Goto, IInv, TypeOK
    <3>3. pc'[u] \in Working => att'[u].inc = i
      BY <3>1 DEF Stop, Goto, Working, IInv, TypeOK
    <3>4. \A x \in Workers : x # u /\ pc'[x] \in Working => att'[x].inc # i
      BY <3>1, <3>2, ClaimableIsFree
    <3> QED BY <3>2, <3>3, <3>4 DEF OneWorkerPerIncident
  <2> QED BY <2>1, <2>2
<1>3. IInv /\ HoldersWork /\ [Next]_vars => HoldersWork'
  BY NextHoldersWork
<1> QED BY <1>1, <1>2, <1>3, Invariance, PTL DEF Spec

-----------------------------------------------------------------------------
(* The phases of an investigation, while a lease outlasts the work.        *)

\* How worker w can change the phases of the incident it is at.
PhasesBy(w, i) ==
  /\ pc[w] \in {"clear", "phase", "record"} \/ (pc[w] = "cleanup" /\ att[w].seq \in Seqs)
  /\ pc'[w] # pc[w] /\ att[w].inc = i
  /\ pc[w] = "cleanup" =>
       \/ phases'[i] = phases[i]
       \/ phases[i][att[w].seq].status = "running"

\* Every step leaves the phases of an incident alone, deletes them with it, or
\* is a step of a worker at it.
LEMMA PhaseSteps ==
  ASSUME IInv, [Next]_vars
  PROVE  \A i \in Ids : \/ phases'[i] = phases[i] \/ ~Present(i)'
                        \/ \E w \in Workers : PhasesBy(w, i)
<1> USE DEF IInv, TypeOK, UpdatePhase
<1>1. ASSUME NEW w \in Workers, NEW o \in Outcomes,
             ClearPhases(w, o) \/ InsertPhase(w, o) \/ RecordPhase(w, o) \/ FailPhase(w, o),
             NEW i \in Ids
      PROVE  phases'[i] = phases[i] \/ \E v \in Workers : PhasesBy(v, i)
  <2>1. pc'[w] # pc[w] /\ pc[w] \in {"clear", "phase", "record", "cleanup"}
    BY <1>1 DEF ClearPhases, InsertPhase, RecordPhase, FailPhase, Stop, Goto
  <2>2. att[w].inc # i => phases'[i] = phases[i]
    BY <1>1 DEF ClearPhases, InsertPhase, RecordPhase, FailPhase
  <2>3. pc[w] = "cleanup" => att[w].seq \in Seqs
    BY DEF LocalsOK
  <2>4. pc[w] = "cleanup" /\ att[w].inc = i =>
          phases'[i] = phases[i] \/ phases[i][att[w].seq].status = "running"
    BY <1>1, <2>3 DEF ClearPhases, InsertPhase, RecordPhase, FailPhase
  <2> QED BY <2>1, <2>2, <2>3, <2>4 DEF PhasesBy
<1>2. ASSUME NEW i \in Ids, DeleteIncident(i), NEW j \in Ids
      PROVE  phases'[j] = phases[j] \/ ~Present(j)'
  BY <1>2, Blank DEF DeleteIncident, Present
<1>3. CASE phases' = phases
  BY <1>3
<1>4. ASSUME NEW w \in Workers, NEW o \in Outcomes,
             Reap(w, o) \/ RenewLease(w, o) \/ Review(w, o) \/ FailIncident(w, o)
      PROVE  phases' = phases
  BY <1>4 DEF Reap, RenewLease, Review, FailIncident
<1>5. ASSUME NEW w \in Workers, NEW o \in Outcomes, Claim(w, o)
      PROVE  phases' = phases
  BY <1>5 DEF Claim
<1>6. ASSUME NEW w \in Workers, NEW good \in BOOLEAN,
             ClaimNothing(w) \/ CallModel(w, good) \/ Crash(w) \/ Restart(w)
      PROVE  phases' = phases
  BY <1>6 DEF ClaimNothing, CallModel, Crash, Restart
<1>7. ASSUME NEW i \in Ids, Expire(i) \/ RetryIncident(i)
      PROVE  phases' = phases
  BY <1>7 DEF Expire, RetryIncident
<1>8. ASSUME NEW r \in Requests, NEW e \in Events, NEW o \in Outcomes, InsertIncident(r, e, o)
      PROVE  phases' = phases
  BY <1>8 DEF InsertIncident
<1>9. ASSUME NEW r \in Requests, SelectDuplicate(r) \/ Close(r)
      PROVE  phases' = phases
  BY <1>9 DEF SelectDuplicate, Close
<1>10. CASE UNCHANGED vars
  BY <1>10 DEF vars
<1> QED
  BY <1>1, <1>2, <1>3, <1>4, <1>5, <1>6, <1>7, <1>8, <1>9, <1>10 DEF Next, Work, Step

Started(t)  == [status |-> "running", by |-> t, output |-> NoToken]
Finished(t) == [status |-> "done", by |-> t, output |-> t]

\* The phases of worker w's incident are its own: those before seq are done,
\* that of seq as far as the statement it is at, the rest not yet inserted.
PhasesFit(w) ==
  Present(att[w].inc) /\ pc[w] \in {"phase", "call", "record", "renew", "review"} =>
    \A s \in Seqs :
      /\ s < att[w].seq => phases[att[w].inc][s] = Finished(att[w].tok)
      /\ s = att[w].seq => phases[att[w].inc][s] =
           IF pc[w] \in {"call", "record"} THEN Started(att[w].tok) ELSE Finished(att[w].tok)
      /\ s > att[w].seq => phases[att[w].inc][s] = NoPhase /\ pc[w] # "review"

AllPhasesFit == \A w \in Workers : PhasesFit(w)

\* A claim clears the error of an earlier attempt.
ErrorCleared == \A i \in Ids : row[i].status = "investigating" => row[i].error = "none"

ReviewInv == HoldersWork /\ AllPhasesFit /\ ErrorCleared /\ ReviewIsComplete

LEMMA NextErrorCleared ==
  ASSUME IInv, ErrorCleared, [Next]_vars
  PROVE  ErrorCleared'
<1> SUFFICES ASSUME NEW i \in Ids, row'[i].status = "investigating"
             PROVE  row'[i].error = "none"
  BY DEF ErrorCleared
<1>1. row[i] \in Row /\ RowStep(i)
  BY RowSteps DEF IInv, TypeOK
<1>2. CASE row'[i] = row[i]
  BY <1>2 DEF ErrorCleared
<1>3. CASE Deleted(i) \/ Inserted(i) \/ Reaped(i) \/ Requeued(i)
  BY <1>1, <1>3, Blank DEF Deleted, Inserted, Reaped, Requeued, Row
<1>4. CASE Expired(i)
  BY <1>1, <1>4 DEF Expired, Row, ErrorCleared
<1>5. CASE Claimed(i)
  BY <1>1, <1>5 DEF Claimed, Row
<1>6. ASSUME NEW w \in Workers, ByHolder(w, i) PROVE row'[i].error = "none"
  BY <1>1, <1>6 DEF ByHolder, Renewed, Reviewed, GivenUp, Row, ErrorCleared
<1> QED BY <1>1, <1>2, <1>3, <1>4, <1>5, <1>6 DEF RowStep

\* The row of a worker's incident is never inserted anew.
LEMMA StillPresent ==
  ASSUME IInv, [Next]_vars, NEW w \in Workers, pc[w] \in Working,
         row'[att[w].inc].status # "absent"
  PROVE  Present(att[w].inc)
<1>1. PICK i \in Ids : i = att[w].inc /\ ~(i >= nextId)
  <2>1. att[w].inc \in Ids /\ att[w].inc < nextId
    BY AtWork
  <2>2. att[w].inc \in Nat /\ nextId \in Nat
    BY <2>1, ConstantsAssumption DEF IInv, TypeOK, Ids
  <2> QED BY <2>1, <2>2
<1>2. RowStep(i) /\ ~Inserted(i) /\ ~Deleted(i)
  BY <1>1, RowSteps, Blank DEF Inserted, Deleted
<1>3. ASSUME ~Present(i) PROVE row'[i] = row[i]
  <2>1. row[i].status = "absent" /\ row[i].lease = "none"
    BY <1>3, Blank DEF Present, IInv, AbsentBlank
  <2> QED
    BY <1>2, <1>3, <2>1 DEF RowStep, Reaped, Exhausted, ExpiredLease, Expired, Requeued,
         Claimed, Claimable, ByHolder, Holds
<1> QED BY <1>1, <1>3 DEF Present

\* A worker that does not move finds the phases of its incident as they were.
LEMMA WaiterFits ==
  ASSUME IInv, HoldersWork, AllPhasesFit, [Next]_vars, NEW w \in Workers,
         pc'[w] = pc[w], att'[w] = att[w]
  PROVE  PhasesFit(w)'
<1> SUFFICES ASSUME Present(att[w].inc)', pc[w] \in {"phase", "call", "record", "renew", "review"}
             PROVE  PhasesFit(w)'
  BY DEF PhasesFit, Present
<1>1. pc[w] \in Working /\ att[w].inc \in Ids
  BY AtWork DEF Working
<1>2. Present(att[w].inc)
  BY <1>1, StillPresent DEF Present
<1>3. ASSUME NEW v \in Workers, PhasesBy(v, att[w].inc) PROVE FALSE
  <2>1. pc[v] \in Working /\ att[v].inc = att[w].inc /\ v # w
    BY <1>3 DEF PhasesBy, Working
  <2> QED BY <1>1, <1>2, <2>1, HolderIsAlone
<1>4. phases'[att[w].inc] = phases[att[w].inc]
  BY <1>1, <1>3, PhaseSteps
<1> QED BY <1>2, <1>4 DEF AllPhasesFit, PhasesFit

InPhases == {"phase", "call", "record", "renew", "review"}

\* The steps that bring a worker to a statement about its phases.
MovesOn(w) ==
  \/ pc'[w] = pc[w] /\ att'[w] = att[w]
  \/ pc'[w] \notin InPhases
  \/ \E o \in Outcomes : ClearPhases(w, o) \/ InsertPhase(w, o) \/ RecordPhase(w, o)
                         \/ RenewLease(w, o)
  \/ \E good \in BOOLEAN : CallModel(w, good)

LEMMA Movers ==
  ASSUME TypeOK, [Next]_vars, NEW w \in Workers
  PROVE  MovesOn(w)
<1> USE DEF TypeOK
<1>1. ASSUME NEW v \in Workers, NEW o \in Outcomes,
             Reap(v, o) \/ Review(v, o) \/ FailPhase(v, o) \/ FailIncident(v, o)
      PROVE  MovesOn(w)
  BY <1>1 DEF MovesOn, Reap, Review, FailPhase, FailIncident, Stop, Goto, InPhases
<1>2. ASSUME NEW v \in Workers, NEW o \in Outcomes, Claim(v, o)
      PROVE  MovesOn(w)
  <2>1. \E i \in Ids, t \in FreshTokens :
          IF o = "ok"
          THEN Goto(v, "clear") /\ att' = [att EXCEPT ![v] = [inc |-> i, tok |-> t, seq |-> 0]]
          ELSE Stop(v, "idle")
    BY <1>2, Zenon DEF Claim
  <2> QED BY <2>1 DEF MovesOn, Stop, Goto, InPhases
<1>3. ASSUME NEW v \in Workers, NEW o \in Outcomes,
             \/ ClearPhases(v, o) \/ InsertPhase(v, o) \/ RecordPhase(v, o) \/ RenewLease(v, o)
      PROVE  MovesOn(w)
  <2>1. CASE v = w
    BY <1>3, <2>1 DEF MovesOn
  <2>2. CASE v # w
    <3>1. pc'[w] = pc[w]
      BY <1>3, <2>2 DEF ClearPhases, InsertPhase, RecordPhase, RenewLease, Stop, Goto
    <3>2. att'[w] = att[w]
      BY <1>3, <2>2 DEF ClearPhases, InsertPhase, RecordPhase, RenewLease, Stop
    <3> QED BY <3>1, <3>2 DEF MovesOn
  <2> QED BY <2>1, <2>2
<1>4. ASSUME NEW v \in Workers, NEW good \in BOOLEAN, CallModel(v, good)
      PROVE  MovesOn(w)
  <2>1. CASE v = w
    BY <1>4, <2>1 DEF MovesOn
  <2>2. CASE v # w
    BY <1>4, <2>2 DEF MovesOn, CallModel, Goto
  <2> QED BY <2>1, <2>2
<1>5. ASSUME NEW i \in Ids, Expire(i) \/ DeleteIncident(i) \/ RetryIncident(i)
      PROVE  MovesOn(w)
  BY <1>5 DEF MovesOn, Expire, DeleteIncident, RetryIncident
<1>6. ASSUME NEW r \in Requests, NEW e \in Events, NEW o \in Outcomes, InsertIncident(r, e, o)
      PROVE  MovesOn(w)
  BY <1>6 DEF MovesOn, InsertIncident
<1>7. ASSUME NEW r \in Requests, SelectDuplicate(r) \/ Close(r)
      PROVE  MovesOn(w)
  BY <1>7 DEF MovesOn, SelectDuplicate, Close
<1>8. CASE UNCHANGED vars
  BY <1>8 DEF MovesOn, vars
<1>9. ASSUME NEW v \in Workers, ClaimNothing(v) \/ Crash(v) \/ Restart(v)
      PROVE  MovesOn(w)
  BY <1>9 DEF MovesOn, ClaimNothing, Crash, Restart, Stop, Goto, InPhases
<1>10. ASSUME NEW v \in Workers, Work(v) PROVE MovesOn(w)
  <2>1. ASSUME NEW o \in Outcomes, Step(v, o) PROVE MovesOn(w)
    BY <1>1, <1>2, <1>3, <2>1 DEF Step
  <2> QED BY <1>4, <1>9, <1>10, <2>1 DEF Work
<1> QED
  BY <1>5, <1>6, <1>7, <1>8, <1>9, <1>10 DEF Next

\* RecordPhase finishes a phase that its worker started.
LEMMA OutputStored ==
  ASSUME NEW x \in Phase, NEW t \in Token, x.by = t
  PROVE  [x EXCEPT !.status = "done", !.output = t] = Finished(t)
<1> DEFINE y == [x EXCEPT !.status = "done", !.output = t]
<1>1. y \in Phase /\ y.status = "done" /\ y.by = t /\ y.output = t
  BY DEF Phase
<1> HIDE DEF y
<1>2. y = Finished(t)
  BY <1>1 DEF Phase, Finished
<1> QED BY <1>2 DEF y

\* Every step keeps the phases of every worker's incident its own.
LEMMA NextPhasesFit ==
  ASSUME IInv, HoldersWork, AllPhasesFit, [Next]_vars
  PROVE  AllPhasesFit'
<1> SUFFICES ASSUME NEW w \in Workers, pc'[w] \in InPhases, Present(att[w].inc)' PROVE PhasesFit(w)'
  BY DEF AllPhasesFit, PhasesFit, InPhases
<1> USE ConstantsAssumption
<1>1. CASE pc'[w] = pc[w] /\ att'[w] = att[w]
  BY <1>1, WaiterFits
<1>2. ASSUME NEW o \in Outcomes, ClearPhases(w, o) PROVE PhasesFit(w)'
  <2>1. /\ pc[w] = "clear" /\ o = "ok" /\ pc'[w] = "phase" /\ att' = att
        /\ phases' = [phases EXCEPT ![att[w].inc] = NoPhases]
    BY <1>2 DEF ClearPhases, Stop, Goto, InPhases, IInv, TypeOK
  <2>2. att[w].seq = 0 /\ att[w].inc \in Ids
    BY <2>1, AtWork DEF IInv, LocalsOK, Working
  <2>3. \A s \in Seqs : phases'[att[w].inc][s] = NoPhase
    BY <2>1, <2>2 DEF IInv, TypeOK, NoPhases
  <2>4. \A s \in Seqs : s > 0 /\ ~(s < 0) /\ s # 0
    BY DEF Seqs
  <2> QED BY <2>1, <2>2, <2>3, <2>4 DEF PhasesFit
<1>3. ASSUME NEW o \in Outcomes, InsertPhase(w, o) PROVE PhasesFit(w)'
  <2> DEFINE i == att[w].inc
             n == att[w].seq + 1
  <2>1. pc[w] = "phase" /\ i \in Ids /\ att[w] \in Attempt /\ n \in Seqs
    BY <1>3, AtWork, SMTT(30) DEF InsertPhase, IInv, TypeOK, LocalsOK, Working, Attempt, Seqs
  <2>2. /\ o = "ok" /\ Present(i) /\ phases[i][n] = NoPhase /\ pc'[w] = "call"
        /\ att' = [att EXCEPT ![w] = [@ EXCEPT !.seq = n]]
        /\ phases' = [phases EXCEPT ![i][n] =
             [status |-> "running", by |-> att[w].tok, output |-> NoToken]]
    BY <1>3 DEF InsertPhase, UpdatePhase, Goto, InPhases, IInv, TypeOK
  <2>3. att'[w].inc = i /\ att'[w].tok = att[w].tok /\ att'[w].seq = n
    BY <2>1, <2>2 DEF Attempt, IInv, TypeOK
  <2>4. \A s \in Seqs : phases'[i][s] = IF s = n THEN Started(att[w].tok) ELSE phases[i][s]
    BY <2>1, <2>2 DEF Started, IInv, TypeOK
  <2>5. \A s \in Seqs : /\ s < att[w].seq => phases[i][s] = Finished(att[w].tok)
                        /\ s = att[w].seq => phases[i][s] = Finished(att[w].tok)
                        /\ s > att[w].seq => phases[i][s] = NoPhase
    BY <2>1, <2>2 DEF AllPhasesFit, PhasesFit
  <2>6. \A s \in Seqs : /\ s < n <=> s < att[w].seq \/ s = att[w].seq
                        /\ s > n => s > att[w].seq /\ s # n
                        /\ s < n => s # n
    BY <2>1 DEF Seqs, Attempt
  <2> HIDE DEF i, n
  <2>7. ASSUME NEW s \in Seqs
        PROVE  /\ s < n => phases'[i][s] = Finished(att[w].tok)
               /\ s = n => phases'[i][s] = Started(att[w].tok)
               /\ s > n => phases'[i][s] = NoPhase
    BY <2>4, <2>5, <2>6
  <2> QED BY <2>2, <2>3, <2>7 DEF PhasesFit
<1>4. ASSUME NEW good \in BOOLEAN, CallModel(w, good) PROVE PhasesFit(w)'
  <2>1. pc[w] = "call" /\ pc'[w] = "record" /\ att' = att /\ phases' = phases /\ row' = row
    BY <1>4 DEF CallModel, Goto, InPhases, IInv, TypeOK
  <2> QED BY <2>1 DEF AllPhasesFit, PhasesFit, Present
<1>5. ASSUME NEW o \in Outcomes, RecordPhase(w, o) PROVE PhasesFit(w)'
  <2> DEFINE i == att[w].inc
             n == att[w].seq
  <2>1. pc[w] = "record" /\ i \in Ids /\ n \in Seqs
    BY <1>5, AtWork DEF RecordPhase, IInv, LocalsOK, Working
  <2>2. /\ o = "ok" /\ pc'[w] = "renew" /\ att' = att /\ row' = row
        /\ phases' = IF phases[i][n] # NoPhase
             THEN [phases EXCEPT ![i][n] = [phases[i][n] EXCEPT !.status = "done", !.output = att[w].tok]]
             ELSE phases
    BY <1>5 DEF RecordPhase, UpdatePhase, Goto, InPhases, IInv, TypeOK
  <2>3. \A s \in Seqs : /\ s < n => phases[i][s] = Finished(att[w].tok)
                        /\ s = n => phases[i][s] = Started(att[w].tok)
                        /\ s > n => phases[i][s] = NoPhase
    BY <2>1, <2>2 DEF AllPhasesFit, PhasesFit, Present
  <2>4. phases[i][n] = Started(att[w].tok)
    BY <2>1, <2>3
  <2>5. Started(att[w].tok) # NoPhase
    BY DEF Started, NoPhase
  <2>6. [Started(att[w].tok) EXCEPT !.status = "done", !.output = att[w].tok] = Finished(att[w].tok)
    <3>1. att[w].tok \in Token /\ phases[i][n] \in Phase
      BY <2>1, AtWork DEF Working
    <3>2. Started(att[w].tok).by = att[w].tok
      BY DEF Started
    <3> QED BY <2>4, <3>1, <3>2, OutputStored
  <2>7. \A s \in Seqs : phases'[i][s] = IF s = n THEN Finished(att[w].tok) ELSE phases[i][s]
    <3>1. phases' = [phases EXCEPT ![i][n] = Finished(att[w].tok)]
      BY <2>2, <2>4, <2>5, <2>6, Zenon
    <3> QED BY <2>1, <3>1 DEF IInv, TypeOK
  <2>8. \A s \in Seqs : (s < n => s # n) /\ (s > n => s # n)
    BY <2>1 DEF Seqs
  <2> HIDE DEF i, n
  <2>9. ASSUME NEW s \in Seqs
        PROVE  /\ s < n => phases'[i][s] = Finished(att[w].tok)
               /\ s = n => phases'[i][s] = Finished(att[w].tok)
               /\ s > n => phases'[i][s] = NoPhase
    BY <2>3, <2>7, <2>8
  <2> QED BY <2>2, <2>9 DEF PhasesFit, i, n
<1>6. ASSUME NEW o \in Outcomes, RenewLease(w, o) PROVE PhasesFit(w)'
  <2>1. /\ pc[w] = "renew" /\ o = "ok" /\ Holds(w, att[w].inc) /\ att' = att /\ phases' = phases
        /\ pc'[w] = IF att[w].seq < NumPhases THEN "phase" ELSE "review"
    BY <1>6 DEF RenewLease, Stop, Goto, InPhases, IInv, TypeOK
  <2>2. \A s \in Seqs : /\ s < att[w].seq => phases[att[w].inc][s] = Finished(att[w].tok)
                        /\ s = att[w].seq => phases[att[w].inc][s] = Finished(att[w].tok)
                        /\ s > att[w].seq => phases[att[w].inc][s] = NoPhase
    BY <2>1 DEF AllPhasesFit, PhasesFit, Holds
  <2>3. ASSUME NEW s \in Seqs, s > att[w].seq PROVE pc'[w] # "review"
    <3>1. att[w].seq \in Nat
      BY DEF IInv, TypeOK, Attempt
    <3>2. att[w].seq < NumPhases
      BY <2>3, <3>1 DEF Seqs
    <3> QED BY <2>1, <3>2
  <2> QED BY <2>1, <2>2, <2>3 DEF PhasesFit
<1> QED BY <1>1, <1>2, <1>3, <1>4, <1>5, <1>6, Movers DEF IInv, MovesOn

\* Nothing changes an incident under review but its deletion, or its own worker
\* that gives it up after a lost answer.
LEMMA ReviewedStays ==
  ASSUME IInv, ReviewInv, [Next]_vars, NEW i \in Ids,
         row[i].status = "review", row'[i].status = "review"
  PROVE  /\ row'[i].error = row[i].error /\ row'[i].report = row[i].report
         /\ phases'[i] = phases[i]
<1>1. row[i] \in Row /\ RowStep(i) /\ Present(i)
  BY RowSteps DEF IInv, TypeOK, Present
<1>2. ASSUME NEW w \in Workers, pc[w] \in Working, att[w].inc = i
      PROVE  pc[w] \in {"cleanup", "fail"}
  BY <1>1, <1>2 DEF ReviewInv, HoldersWork, HoldsLease
<1>3. row'[i].error = row[i].error /\ row'[i].report = row[i].report
  <2>1. CASE row'[i] = row[i]
    BY <2>1
  <2>2. CASE Deleted(i) \/ Inserted(i) \/ Reaped(i) \/ Requeued(i) \/ Claimed(i)
    BY <1>1, <2>2, Blank DEF Deleted, Inserted, Reaped, Requeued, Claimed, Exhausted,
         ExpiredLease, Claimable
  <2>3. CASE Expired(i)
    BY <1>1, <2>3 DEF Expired, Row
  <2>4. ASSUME NEW w \in Workers, ByHolder(w, i)
        PROVE  row'[i].error = row[i].error /\ row'[i].report = row[i].report
    <3>1. ~(pc[w] = "review")
      BY <1>2, <2>4 DEF ByHolder
    <3>2. ~GivenUp(w, i)
      BY <1>1 DEF GivenUp, Row
    <3>3. Renewed(w, i)
      BY <2>4, <3>1, <3>2 DEF ByHolder
    <3> QED BY <1>1, <3>3 DEF Renewed, Row
  <2> QED BY <1>1, <2>1, <2>2, <2>3, <2>4 DEF RowStep
<1>4. phases'[i] = phases[i]
  <2>1. ASSUME NEW w \in Workers, PhasesBy(w, i) PROVE phases'[i] = phases[i]
    <3>1. pc[w] \in Working /\ att[w].inc = i
      BY <2>1 DEF PhasesBy, Working
    <3>2. pc[w] = "cleanup" /\ att[w].seq \in Seqs
      BY <1>2, <2>1, <3>1 DEF PhasesBy
    <3>3. \A s \in Seqs : phases[i][s] = Finished(row[i].report)
      BY Zenon DEF ReviewInv, ReviewIsComplete, Finished
    <3>4. phases[i][att[w].seq] = Finished(row[i].report)
      BY <3>2, <3>3
    <3>5. phases[i][att[w].seq].status = "done"
      BY <3>4 DEF Finished
    <3> QED BY <2>1, <3>2, <3>5 DEF PhasesBy
  <2>2. row'[i].status # "absent"
    OBVIOUS
  <2> QED BY <2>1, <2>2, PhaseSteps DEF Present
<1> QED BY <1>3, <1>4

\* An incident comes to review by the statement of the worker whose phases it has.
LEMMA ReviewArrives ==
  ASSUME IInv, ReviewInv, [Next]_vars, NEW i \in Ids,
         row[i].status # "review", row'[i].status = "review"
  PROVE  /\ row'[i].error = "none"
         /\ \A s \in Seqs : phases'[i][s] = Finished(row'[i].report)
<1>1. row[i] \in Row /\ RowStep(i)
  BY RowSteps DEF IInv, TypeOK
<1>2. PICK w \in Workers : ByHolder(w, i)
  <2>1. ~(row'[i] = row[i])
    OBVIOUS
  <2>2. ~(Deleted(i) \/ Inserted(i) \/ Reaped(i) \/ Requeued(i) \/ Claimed(i))
    BY <1>1, Blank DEF Deleted, Inserted, Reaped, Requeued, Claimed, Row
  <2>3. ~Expired(i)
    BY <1>1 DEF Expired, Row
  <2> QED BY <1>1, <2>1, <2>2, <2>3 DEF RowStep
<1>3. pc[w] = "review" /\ att[w].inc = i /\ Present(i) /\ Reviewed(w, i)
  <2>1. ~Renewed(w, i) /\ ~GivenUp(w, i)
    BY <1>1 DEF Renewed, GivenUp, Row
  <2> QED BY <1>2, <2>1 DEF ByHolder, Holds
<1>4. row[i].status = "investigating"
  BY <1>3 DEF ReviewInv, HoldersWork, HoldsLease, Working
<1>5. row'[i].error = "none" /\ row'[i].report = att[w].tok
  <2>1. row[i].error = "none"
    BY <1>4 DEF ReviewInv, ErrorCleared
  <2> QED BY <1>1, <1>3, <2>1 DEF Reviewed, Row
<1>6. phases'[i] = phases[i]
  <2>1. ASSUME NEW v \in Workers, PhasesBy(v, i) PROVE FALSE
    <3>1. pc[v] \in Working /\ att[v].inc = i /\ pc[v] # "review"
      BY <2>1 DEF PhasesBy, Working
    <3>2. pc[w] \in Working
      BY <1>3 DEF Working
    <3>3. v = w
      BY <1>3, <3>1, <3>2, HolderIsAlone DEF ReviewInv
    <3> QED BY <1>3, <3>1, <3>3
  <2>2. row'[i].status # "absent"
    OBVIOUS
  <2> QED BY <2>1, <2>2, PhaseSteps DEF Present
<1>7. ASSUME NEW s \in Seqs PROVE phases[i][s] = Finished(att[w].tok)
  <2>1. /\ s < att[w].seq => phases[i][s] = Finished(att[w].tok)
        /\ s = att[w].seq => phases[i][s] = Finished(att[w].tok)
        /\ ~(s > att[w].seq)
    BY <1>3 DEF ReviewInv, AllPhasesFit, PhasesFit
  <2>2. s \in Nat /\ att[w].seq \in Nat
    BY ConstantsAssumption DEF Seqs, IInv, TypeOK, Attempt
  <2> QED BY <2>1, <2>2
<1> QED BY <1>5, <1>6, <1>7

\* An incident handed to review has every phase done, by the one attempt that
\* wrote the report (worker.ts:63-114).
THEOREM ReviewsAreComplete ==
  ASSUME LeaseOutlastsWork
  PROVE  Spec => []ReviewIsComplete
<1>1. Init => ReviewInv
  BY DEF Init, ReviewInv, HoldersWork, AllPhasesFit, PhasesFit, ErrorCleared, ReviewIsComplete,
         Working, NoRow
<1>2. IInv /\ ReviewInv /\ [Next]_vars => ReviewInv'
  <2> SUFFICES ASSUME IInv, ReviewInv, [Next]_vars PROVE ReviewInv'
    OBVIOUS
  <2>1. HoldersWork' /\ AllPhasesFit' /\ ErrorCleared'
    BY NextHoldersWork, NextPhasesFit, NextErrorCleared DEF ReviewInv
  <2>2. ASSUME NEW i \in Ids, row'[i].status = "review"
        PROVE  /\ row'[i].error = "none"
               /\ \A s \in Seqs : phases'[i][s] = Finished(row'[i].report)
    <3>1. CASE row[i].status = "review"
      <4>1. /\ row'[i].error = row[i].error /\ row'[i].report = row[i].report
            /\ phases'[i] = phases[i]
        BY <2>2, <3>1, ReviewedStays
      <4>2. row[i].error = "none" /\ \A s \in Seqs : phases[i][s] = Finished(row[i].report)
        BY <3>1 DEF ReviewInv, ReviewIsComplete, Finished
      <4> QED BY <4>1, <4>2
    <3>2. CASE row[i].status # "review"
      BY <2>2, <3>2, ReviewArrives
    <3> QED BY <3>1, <3>2
  <2>3. ReviewIsComplete'
    BY <2>2 DEF ReviewIsComplete, Finished
  <2> QED BY <2>1, <2>3 DEF ReviewInv
<1>3. ReviewInv => ReviewIsComplete
  BY DEF ReviewInv
<1> QED BY <1>1, <1>2, <1>3, Invariance, PTL DEF Spec

\* While leases outlast the work nobody but the holder of an incident's lease
\* writes its phases, and so nobody else clears or changes the owner's: the
\* statements of worker.ts:43, 66, 103, 122 do not look at the token, and need not.
THEOREM HolderWritesPhases ==
  ASSUME LeaseOutlastsWork
  PROVE  Spec => OnlyHolderWritesPhases /\ OwnersProgressStays
<1>1. Init => HoldersWork
  BY DEF Init, HoldersWork, Working
<1>2. IInv /\ HoldersWork /\ [Next]_vars => HoldersWork'
  BY NextHoldersWork
<1>3. IInv /\ HoldersWork /\ [Next]_vars =>
        \A i \in Ids : phases'[i] # phases[i] /\ Present(i)' => HolderSteps(i)
  <2> SUFFICES ASSUME IInv, HoldersWork, [Next]_vars, NEW i \in Ids,
                      phases'[i] # phases[i], Present(i)'
               PROVE  HolderSteps(i)
    OBVIOUS
  <2>1. PICK w \in Workers : PhasesBy(w, i)
    BY PhaseSteps
  <2>2. pc[w] \in Working /\ pc'[w] # pc[w] /\ att[w].inc = i
    BY <2>1 DEF PhasesBy, Working
  <2>3. row'[att[w].inc].status # "absent"
    BY <2>2 DEF Present
  <2>4. Present(att[w].inc)
    BY <2>2, <2>3, StillPresent
  <2> QED BY <2>2, <2>4 DEF HoldersWork, HoldsLease, HolderSteps
<1>4. IInv /\ HoldersWork /\ [Next]_vars =>
        \A i \in Ids, s \in Seqs :
          /\ phases[i][s].by = row[i].token /\ row[i].token # NoToken
          /\ phases'[i][s] # phases[i][s] /\ Present(i)'
          => HolderSteps(i)
  BY <1>3
<1> QED BY <1>1, <1>2, <1>3, <1>4, Invariance, PTL
        DEF Spec, OnlyHolderWritesPhases, OwnersProgressStays

-----------------------------------------------------------------------------
(* With clean statement failures, the queue implements IntakeLifecycle.    *)

\* What the lifecycle sees of the rows that the statements write.
LEMMA UpdatesSeen ==
  ASSUME NEW x \in Row, NEW t, NEW e
  PROVE  /\ [x EXCEPT !.status = "investigating", !.attempts = @ + 1, !.token = t,
                      !.lease = "held", !.error = "none", !.report = NoToken].status
              = "investigating"
         /\ [x EXCEPT !.status = "investigating", !.attempts = @ + 1, !.token = t,
                      !.lease = "held", !.error = "none", !.report = NoToken].attempts
              = x.attempts + 1
         /\ [x EXCEPT !.status = "review", !.report = t, !.lease = "none"].status = "review"
         /\ [x EXCEPT !.status = "review", !.report = t, !.lease = "none"].attempts = x.attempts
         /\ [x EXCEPT !.status = "failed", !.lease = "none", !.error = e].status = "failed"
         /\ [x EXCEPT !.status = "failed", !.lease = "none", !.error = e].attempts = x.attempts
         /\ [x EXCEPT !.status = "queued", !.attempts = 0, !.error = e].status = "queued"
         /\ [x EXCEPT !.status = "queued", !.attempts = 0, !.error = e].attempts = 0
BY DEF Row

\* A row taking a step of the lifecycle takes the queue along.
LEMMA Moving ==
  ASSUME NEW i \in Ids,
         \/ Lifecycle!Report(i) \/ Lifecycle!Begin(i) \/ Lifecycle!Complete(i)
         \/ Lifecycle!Abandon(i) \/ Lifecycle!Retry(i) \/ Lifecycle!Delete(i)
  PROVE  Lifecycle!LifecycleNext
BY DEF Lifecycle!LifecycleNext

\* Every incident follows the lifecycle: a step of the queue is a step of
\* IntakeLifecycle, or changes nothing a reader of the table sees.
THEOREM QueueFollowsLifecycle ==
  ASSUME LeaseOutlastsWork, "lost" \notin FaultKinds
  PROVE  Spec => FollowsLifecycle
<1> DEFINE Moves == [Lifecycle!LifecycleNext]_(Lifecycle!LifecycleVars)
<1>1. Init => Lifecycle!LifecycleInit /\ HoldersWork
  <2> SUFFICES ASSUME Init PROVE Lifecycle!LifecycleInit /\ HoldersWork
    OBVIOUS
  <2>1. \A i \in Ids : row[i].status = "absent" /\ row[i].attempts = 0
    BY DEF Init, NoRow
  <2> QED BY <2>1 DEF Init, Lifecycle!LifecycleInit, HoldersWork, Working
<1>2. IInv /\ HoldersWork /\ [Next]_vars => Moves
  <2> SUFFICES ASSUME IInv, HoldersWork, [Next]_vars PROVE Moves
    OBVIOUS
  <2> USE DEF IInv
  <2>1. CASE row' = row
    BY <2>1 DEF Lifecycle!LifecycleVars
  <2>2. ASSUME NEW w \in Workers, NEW o \in Outcomes, Reap(w, o) PROVE Moves
    <3> DEFINE S == {i \in Ids : Exhausted(i)}
    <3>1. CASE o = "refused" \/ S = {}
      BY <2>1, <2>2, <3>1 DEF Reap, TypeOK
    <3>2. CASE o # "refused" /\ S # {}
      <4>1. \A i \in Ids : /\ row'[i].status = IF i \in S THEN "failed" ELSE row[i].status
                           /\ row'[i].attempts = row[i].attempts
        BY <2>2, <3>2 DEF Reap, TypeOK, Row
      <4>2. S \in SUBSET {i \in Ids : [j \in Ids |-> row[j].status][i] = "investigating"}
        BY DEF Exhausted, ExpiredLease
      <4>3. Lifecycle!AbandonAll
        BY <4>1, <4>2, <3>2 DEF Lifecycle!AbandonAll
      <4> QED BY <4>3 DEF Lifecycle!LifecycleNext
    <3> QED BY <3>1, <3>2
  <2>3. ASSUME NEW w \in Workers, NEW o \in Outcomes, Claim(w, o) PROVE Moves
    <3> DEFINE claimed(i, t) == [row[i] EXCEPT
                 !.status = "investigating", !.attempts = @ + 1, !.token = t,
                 !.lease = "held", !.error = "none", !.report = NoToken]
    <3>1. PICK i \in Ids, t \in FreshTokens :
            Claimable(i) /\ UpdateRow(i, o # "refused", claimed(i, t))
      BY <2>3, Zenon DEF Claim
    <3>2. CASE o = "refused"
      BY <2>1, <3>1, <3>2 DEF UpdateRow
    <3>3. CASE o # "refused"
      <4>1. /\ row[i] \in Row /\ row[i].attempts < MaxAttempts
            /\ row[i].status \in {"queued", "investigating"}
        BY <3>1 DEF Claimable, ExpiredLease, TypeOK, AttemptsCount, MaxAttempts
      <4>2. claimed(i, t).status = "investigating" /\ claimed(i, t).attempts = row[i].attempts + 1
        BY <4>1, UpdatesSeen
      <4>3. row' = [row EXCEPT ![i] = claimed(i, t)]
        BY <3>1, <3>3 DEF UpdateRow
      <4> HIDE DEF claimed
      <4>4. /\ row'[i].status = "investigating" /\ row'[i].attempts = row[i].attempts + 1
            /\ \A j \in Ids : j # i => row'[j] = row[j]
        BY <4>2, <4>3 DEF TypeOK
      <4>5. Lifecycle!Begin(i)
        BY <4>1, <4>4 DEF Lifecycle!Begin, Lifecycle!Become
      <4> QED BY <4>5, Moving
    <3> QED BY <3>2, <3>3
  <2>4. ASSUME NEW w \in Workers, NEW o \in Outcomes, RenewLease(w, o) PROVE Moves
    <3>1. row[att[w].inc] \in Row /\ att[w].inc \in Ids
      BY <2>4, AtWork DEF RenewLease, Working
    <3>2. \A i \in Ids : row'[i].status = row[i].status /\ row'[i].attempts = row[i].attempts
      BY <2>4, <3>1 DEF RenewLease, UpdateRow, TypeOK, Row
    <3> QED BY <3>2 DEF Lifecycle!LifecycleVars
  <2>5. ASSUME NEW w \in Workers, NEW o \in Outcomes, Review(w, o) PROVE Moves
    <3>1. PICK i \in Ids : i = att[w].inc /\ row[i] \in Row /\ pc[w] \in Working
      BY <2>5, AtWork DEF Review, Working
    <3>2. CASE o = "refused" \/ ~Holds(w, i)
      BY <2>1, <2>5, <3>1, <3>2 DEF Review, UpdateRow
    <3>3. CASE o # "refused" /\ Holds(w, i)
      <4>1. row[i].status = "investigating"
        BY <2>5, <3>1, <3>3 DEF HoldersWork, HoldsLease, Holds, Review, Working
      <4>2. row' = [row EXCEPT ![i] = [row[i] EXCEPT
                 !.status = "review", !.report = att[w].tok, !.lease = "none"]]
        BY <2>5, <3>1, <3>3 DEF Review, UpdateRow
      <4>3. /\ row'[i].status = "review" /\ row'[i].attempts = row[i].attempts
            /\ \A j \in Ids : j # i => row'[j] = row[j]
        BY <3>1, <4>2, UpdatesSeen DEF TypeOK
      <4>4. Lifecycle!Complete(i)
        BY <4>1, <4>3 DEF Lifecycle!Complete, Lifecycle!Become
      <4> QED BY <4>4, Moving
    <3> QED BY <3>2, <3>3
  <2>6. ASSUME NEW w \in Workers, NEW o \in Outcomes, FailIncident(w, o) PROVE Moves
    <3>1. PICK i \in Ids : i = att[w].inc /\ row[i] \in Row /\ pc[w] \in Working
      BY <2>6, AtWork DEF FailIncident, Working
    <3>2. CASE o = "refused" \/ ~Holds(w, i)
      BY <2>1, <2>6, <3>1, <3>2 DEF FailIncident, UpdateRow
    <3>3. CASE o # "refused" /\ Holds(w, i)
      <4>1. row[i].status = "investigating"
        BY <2>6, <3>1, <3>3 DEF HoldersWork, HoldsLease, Holds, FailIncident, Working
      <4>2. PICK e : row' = [row EXCEPT ![i] = [row[i] EXCEPT
                       !.status = "failed", !.lease = "none", !.error = e]]
        BY <2>6, <3>1, <3>3 DEF FailIncident, UpdateRow
      <4>3. /\ row'[i].status = "failed" /\ row'[i].attempts = row[i].attempts
            /\ \A j \in Ids : j # i => row'[j] = row[j]
        BY <3>1, <4>2, UpdatesSeen DEF TypeOK
      <4>4. Lifecycle!Abandon(i)
        BY <4>1, <4>3 DEF Lifecycle!Abandon, Lifecycle!Become
      <4> QED BY <4>4, Moving
    <3> QED BY <3>2, <3>3
  <2>7. ASSUME NEW i \in Ids, Expire(i) PROVE Moves
    <3>1. \A j \in Ids : row'[j].status = row[j].status /\ row'[j].attempts = row[j].attempts
      BY <2>7 DEF Expire, UpdateRow, TypeOK, Row
    <3> QED BY <3>1 DEF Lifecycle!LifecycleVars
  <2>8. ASSUME NEW r \in Requests, NEW e \in Events, NEW o \in Outcomes, InsertIncident(r, e, o)
        PROVE  Moves
    <3>1. CASE row' # row
      <4>1. PICK i \in Ids : i = nextId /\ row' = [row EXCEPT ![i] = NewRow(e)]
        BY <2>8, <3>1 DEF InsertIncident, TypeOK, Ids
      <4>2. NewRow(e).status = "queued" /\ NewRow(e).attempts = 0
        BY Blank
      <4>3. /\ row'[i].status = "queued" /\ row'[i].attempts = 0
            /\ \A j \in Ids : j # i => row'[j] = row[j]
        BY <4>1, <4>2 DEF TypeOK
      <4>4. row[i].status = "absent"
        BY <4>1 DEF AbsentBlank, Present, Ids
      <4>5. Lifecycle!Report(i)
        BY <4>3, <4>4 DEF Lifecycle!Report, Lifecycle!Become
      <4> QED BY <4>5, Moving
    <3> QED BY <2>1, <3>1
  <2>9. ASSUME NEW i \in Ids, DeleteIncident(i) PROVE Moves
    <3>1. /\ row'[i].status = "absent" /\ row'[i].attempts = 0
          /\ \A j \in Ids : j # i => row'[j] = row[j]
          /\ row[i].status # "absent"
      BY <2>9 DEF DeleteIncident, NoRow, TypeOK, Present
    <3>2. Lifecycle!Delete(i)
      BY <3>1 DEF Lifecycle!Delete, Lifecycle!Become
    <3> QED BY <3>2, Moving
  <2>10. ASSUME NEW i \in Ids, RetryIncident(i) PROVE Moves
    <3>1. row[i] \in Row /\ row' = [row EXCEPT ![i] = [row[i] EXCEPT
                                !.status = "queued", !.attempts = 0, !.error = "none"]]
      BY <2>10 DEF RetryIncident, UpdateRow, TypeOK
    <3>2. /\ row'[i].status = "queued" /\ row'[i].attempts = 0
          /\ \A j \in Ids : j # i => row'[j] = row[j]
      BY <3>1, UpdatesSeen DEF TypeOK
    <3>3. Lifecycle!Retry(i)
      BY <2>10, <3>2 DEF RetryIncident, Lifecycle!Retry, Lifecycle!Become
    <3> QED BY <3>3, Moving
  <2>11. ASSUME NEW w \in Workers, NEW o \in Outcomes,
                ClearPhases(w, o) \/ InsertPhase(w, o) \/ RecordPhase(w, o) \/ FailPhase(w, o)
         PROVE  row' = row
    BY <2>11 DEF ClearPhases, InsertPhase, RecordPhase, FailPhase
  <2>12. ASSUME NEW w \in Workers, NEW good \in BOOLEAN,
                ClaimNothing(w) \/ CallModel(w, good) \/ Crash(w) \/ Restart(w)
         PROVE  row' = row
    BY <2>12 DEF ClaimNothing, CallModel, Crash, Restart
  <2>13. ASSUME NEW r \in Requests, SelectDuplicate(r) \/ Close(r)
         PROVE  row' = row
    BY <2>13 DEF SelectDuplicate, Close
  <2>14. CASE UNCHANGED vars
    BY <2>1, <2>14 DEF vars
  <2> HIDE DEF Moves
  <2> QED
    BY <2>1, <2>2, <2>3, <2>4, <2>5, <2>6, <2>7, <2>8, <2>9, <2>10, <2>11, <2>12, <2>13, <2>14
       DEF Next, Work, Step
<1>3. IInv /\ HoldersWork /\ [Next]_vars => HoldersWork'
  BY NextHoldersWork
<1> QED BY <1>1, <1>2, <1>3, Invariance, PTL DEF Spec, FollowsLifecycle, Lifecycle!LifecycleSpec

=============================================================================
