----------------------------- MODULE RunWriter -----------------------------
(***************************************************************************)
(* The persistence of investigation runs, server/src/db/store.ts: one      *)
(* RunWriter per run turns the run's events into statements on the tables  *)
(* runs, run_events and the findings tables. The statements of a run wait  *)
(* in its promise chain and are executed one after another, while the run  *)
(* goes on; the first that fails silences the writer for good.             *)
(*                                                                         *)
(* What a run emits is left open here, but for what every run obeys:       *)
(* nothing follows a fatal error, and only a second resolved a resolved.   *)
(***************************************************************************)
EXTENDS Naturals, Sequences

CONSTANTS
  Runs,
  MaxEvents,             \* bound: events a run emits
  MaxFaults, MaxKills,   \* bounds: failed statements, process kills
  FaultKinds             \* subset of {"refused", "lost"}: how a statement can fail

ASSUME WriterAssumption ==
  /\ MaxEvents \in Nat /\ MaxFaults \in Nat /\ MaxKills \in Nat
  /\ FaultKinds \subseteq {"refused", "lost"}

VARIABLES
  state,    \* of the run: new, open, closed, finished (flushed), killed
  emitted,  \* emitted[r]: the events of its stream, in seq order
  chain,    \* chain[r]: its writer's statements not executed yet
  broken,   \* broken[r]: its writer gave up
  run,      \* run[r]: its row of the table runs
  stored,   \* stored[r]: the seqs of its rows in run_events
  folded,   \* folded[r]: the seqs that reached the row or a findings table
  spent     \* faults and kills so far (bounds only)

vars == <<state, emitted, chain, broken, run, stored, folded, spent>>
tables == <<run, stored, folded>>

\* "finding" stands for the types that update another column of the run or have
\* a table of their own, "note" for those that are only stored.
Event == {"note", "finding", "resolved", "fatal"}

Statement == [op: {"begin", "store", "fold", "finalize"}, seq: Nat]
Row == [status: {"absent", "running", "resolved", "failed"}, ended: BOOLEAN]
NoRow == [status |-> "absent", ended |-> FALSE]

TypeOK ==
  /\ state \in [Runs -> {"new", "open", "closed", "finished", "killed"}]
  /\ emitted \in [Runs -> Seq(Event)] /\ \A r \in Runs : Len(emitted[r]) <= MaxEvents
  /\ chain \in [Runs -> Seq(Statement)]
  /\ broken \in [Runs -> BOOLEAN]
  /\ run \in [Runs -> Row]
  /\ stored \in [Runs -> SUBSET Nat] /\ folded \in [Runs -> SUBSET Nat]
  /\ spent \in [faults: 0..MaxFaults, kills: 0..MaxKills]

Init ==
  /\ state = [r \in Runs |-> "new"]
  /\ emitted = [r \in Runs |-> <<>>]
  /\ chain = [r \in Runs |-> <<>>]
  /\ broken = [r \in Runs |-> FALSE]
  /\ run = [r \in Runs |-> NoRow]
  /\ stored = [r \in Runs |-> {}] /\ folded = [r \in Runs |-> {}]
  /\ spent = [faults |-> 0, kills |-> 0]

Enqueue(r, statements) == chain' = [chain EXCEPT ![r] = @ \o statements]

-----------------------------------------------------------------------------
(* The run.                                                                *)

Begin(r) ==
  /\ state[r] = "new"
  /\ state' = [state EXCEPT ![r] = "open"]
  /\ Enqueue(r, <<[op |-> "begin", seq |-> 0]>>)
  /\ UNCHANGED <<emitted, broken, tables, spent>>

MayFollow(e, last) == last # "fatal" /\ (last = "resolved" => e = "resolved")

\* record(): store the event, then fold it into the row or the findings.
Record(r, e) ==
  LET s == Len(emitted[r])
  IN
  /\ state[r] = "open" /\ s < MaxEvents
  /\ s > 0 => MayFollow(e, emitted[r][s])
  /\ emitted' = [emitted EXCEPT ![r] = Append(@, e)]
  /\ Enqueue(r, <<[op |-> "store", seq |-> s], [op |-> "fold", seq |-> s]>>)
  /\ UNCHANGED <<state, broken, tables, spent>>

\* Faulty: a run that ended is not marked.
FinalizeNothing(r) ==
  /\ state[r] = "open"
  /\ state' = [state EXCEPT ![r] = "closed"]
  /\ UNCHANGED <<emitted, chain, broken, tables, spent>>

\* The run ends, with or without a terminal event; its stream is closed.
Finalize(r) ==
  /\ state[r] = "open"
  /\ state' = [state EXCEPT ![r] = "closed"]
  /\ Enqueue(r, <<[op |-> "finalize", seq |-> 0]>>)
  /\ UNCHANGED <<emitted, broken, tables, spent>>

\* Faulty: finished does not wait for the chain.
FlushAtOnce(r) ==
  /\ state[r] = "closed"
  /\ state' = [state EXCEPT ![r] = "finished"]
  /\ UNCHANGED <<emitted, chain, broken, tables, spent>>

\* The promise `finished` of the run resolves when its chain is drained.
Flush(r) ==
  /\ state[r] = "closed"
  /\ chain[r] = <<>>
  /\ state' = [state EXCEPT ![r] = "finished"]
  /\ UNCHANGED <<emitted, chain, broken, tables, spent>>

-----------------------------------------------------------------------------
(* The statements.                                                         *)

\* ON CONFLICT (id) DO NOTHING.
BeginRow(row) ==
  IF row.status = "absent" THEN [row EXCEPT !.status = "running"] ELSE row

FoldRow(row, e) ==
  CASE e = "resolved" -> [row EXCEPT !.status = "resolved", !.ended = TRUE]
    [] e = "fatal"    -> [row EXCEPT !.status = "failed", !.ended = TRUE]
    [] OTHER          -> row

\* Faulty: the CASE of the status is missing.
FinalizeRowAlways(row) == [row EXCEPT !.status = "failed", !.ended = TRUE]

FinalizeRow(row) ==
  [row EXCEPT !.status = IF @ = "running" THEN "failed" ELSE @, !.ended = TRUE]

\* An UPDATE of a row that was never inserted matches nothing.
Updated(row, new) == IF row.status = "absent" THEN row ELSE new

Effect(r, s) ==
  /\ run' = [run EXCEPT ![r] =
       CASE s.op = "begin"    -> BeginRow(@)
         [] s.op = "store"    -> @
         [] s.op = "fold"     -> Updated(@, FoldRow(@, emitted[r][s.seq + 1]))
         [] s.op = "finalize" -> Updated(@, FinalizeRow(@))]
  /\ stored' = IF s.op = "store" THEN [stored EXCEPT ![r] = @ \cup {s.seq}] ELSE stored
  /\ folded' = IF s.op = "fold" THEN [folded EXCEPT ![r] = @ \cup {s.seq}] ELSE folded

\* Faulty: a failure does not silence the writer.
ExecuteOn(r) ==
  /\ chain[r] # <<>>
  /\ chain' = [chain EXCEPT ![r] = Tail(@)]
  /\ \/ Effect(r, Head(chain[r])) /\ UNCHANGED spent
     \/ /\ spent.faults < MaxFaults
        /\ spent' = [spent EXCEPT !.faults = @ + 1]
        /\ UNCHANGED tables
  /\ UNCHANGED <<state, emitted, broken>>

\* The statement at the head of the chain is executed and succeeds.
Execute(r) ==
  /\ chain[r] # <<>> /\ ~broken[r]
  /\ chain' = [chain EXCEPT ![r] = Tail(@)]
  /\ Effect(r, Head(chain[r]))
  /\ UNCHANGED <<state, emitted, broken, spent>>

\* It throws, without effect or with its answer lost: the writer is broken.
Fail(r) ==
  /\ chain[r] # <<>> /\ ~broken[r]
  /\ spent.faults < MaxFaults
  /\ spent' = [spent EXCEPT !.faults = @ + 1]
  /\ broken' = [broken EXCEPT ![r] = TRUE]
  /\ chain' = [chain EXCEPT ![r] = Tail(@)]
  /\ \/ "refused" \in FaultKinds /\ UNCHANGED tables
     \/ "lost" \in FaultKinds /\ Effect(r, Head(chain[r]))
  /\ UNCHANGED <<state, emitted>>

\* What is left in the chain of a broken writer returns without a query.
Skip(r) ==
  /\ chain[r] # <<>> /\ broken[r]
  /\ chain' = [chain EXCEPT ![r] = <<>>]
  /\ UNCHANGED <<state, emitted, broken, tables, spent>>

\* The process dies with every run it has under way.
Kill ==
  LET alive == {r \in Runs : state[r] \in {"open", "closed"}}
  IN
  /\ alive # {}
  /\ spent.kills < MaxKills
  /\ spent' = [spent EXCEPT !.kills = @ + 1]
  /\ state' = [r \in Runs |-> IF r \in alive THEN "killed" ELSE state[r]]
  /\ chain' = [r \in Runs |-> IF r \in alive THEN <<>> ELSE chain[r]]
  /\ UNCHANGED <<emitted, broken, tables>>

Write(r) == Execute(r) \/ Skip(r)

Next ==
  \/ \E r \in Runs : \/ Begin(r) \/ Finalize(r) \/ Flush(r)
                     \/ Write(r) \/ Fail(r)
                     \/ \E e \in Event : Record(r, e)
  \/ Kill

Spec == Init /\ [][Next]_vars

\* Promise chains run as long as the process does, and every run ends: it is
\* bounded by its timeout or by the length of its recording.
Fairness == \A r \in Runs : WF_vars(Write(r)) /\ WF_vars(Finalize(r)) /\ WF_vars(Flush(r))

FairSpec == Spec /\ Fairness

-----------------------------------------------------------------------------
(* What the tables tell.                                                   *)

\* The stored timeline of a run is a prefix of what it emitted, whatever failed
\* on the way: "which keeps them in seq order" (store.ts:8-10).
TimelineHasNoHoles ==
  \A r \in Runs : \A s \in stored[r] :
    s < Len(emitted[r]) /\ \A t \in 0..s : t \in stored[r]

\* "the derived rows can never describe a timeline that was not itself stored"
\* (store.ts:54-55).
FindingsAreStored == \A r \in Runs : folded[r] \subseteq stored[r]

\* The row of a run says resolved only when its stored timeline does, and a
\* resolved timeline is never turned into a failed one (156-170, 192-203).
RowTellsTimeline ==
  \A r \in Runs :
    LET types == {emitted[r][s + 1] : s \in stored[r]}
    IN /\ run[r].status = "resolved" => "resolved" \in types
       /\ run[r].status = "failed" => "resolved" \notin types

\* When `finished` resolves and no statement failed, everything is on disk:
\* "Draining after it keeps `finished` an honest signal" (runner.ts:136-138).
FinishedIsHonest ==
  \A r \in Runs : state[r] = "finished" /\ ~broken[r] =>
    /\ stored[r] = 0..(Len(emitted[r]) - 1)
    /\ folded[r] = stored[r]
    /\ run[r].status \in {"resolved", "failed"} /\ run[r].ended

\* "Without this those rows would sit at 'running' forever" (store.ts:187-190): a
\* row leaves running, with or without a terminal event, as long as its writer
\* did not fail and its process lives. Nothing marks the rows of a killed one.
RunsLeaveRunning ==
  \A r \in Runs : run[r].status = "running" ~>
    run[r].status # "running" \/ broken[r] \/ state[r] = "killed"

=============================================================================
