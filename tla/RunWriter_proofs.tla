-------------------------- MODULE RunWriter_proofs --------------------------
(***************************************************************************)
(* What RunWriter keeps in the tables, for any number of runs, events,     *)
(* failed statements and kills.                                            *)
(*                                                                         *)
(* The statements of a run have fixed places: begin is 0, the two of event *)
(* s are 2s + 1 and 2s + 2, finalize comes last. A chain is always the     *)
(* rest of that script, so that the number of statements executed tells    *)
(* what the tables hold, as long as the writer is healthy; once it is      *)
(* broken, or its process dead, the tables stay as they are.               *)
(***************************************************************************)
EXTENDS RunWriter, TLAPS

Place(s, n) ==
  CASE s.op = "begin" -> 0
    [] s.op = "store" -> 2 * s.seq + 1
    [] s.op = "fold"  -> 2 * s.seq + 2
    [] OTHER          -> 2 * n + 1

\* How many statements were ever queued and are not lost, and executed.
Queued(r) ==
  IF state[r] \in {"new", "killed"} THEN 0
  ELSE IF state[r] = "open" THEN 2 * Len(emitted[r]) + 1
  ELSE 2 * Len(emitted[r]) + 2
Executed(r) == Queued(r) - Len(chain[r])

Healthy(r) == ~broken[r] /\ state[r] # "killed"

ChainOrder(r) ==
  /\ Len(chain[r]) <= Queued(r)
  /\ \A i \in 1..Len(chain[r]) :
       /\ Place(chain[r][i], Len(emitted[r])) = Executed(r) + i - 1
       /\ chain[r][i].op \in {"store", "fold"} => chain[r][i].seq < Len(emitted[r])

Emission(r) ==
  \A i, j \in 1..Len(emitted[r]) :
    i < j => emitted[r][i] # "fatal" /\ (emitted[r][i] = "resolved" => emitted[r][j] = "resolved")

TablesMatch(r) ==
  Healthy(r) =>
    \A s \in Nat : /\ s \in stored[r] <=> s < Len(emitted[r]) /\ 2 * s + 1 < Executed(r)
                   /\ s \in folded[r] <=> 2 * s + 2 < Executed(r)

\* event number s was folded, and had the type e
Told(r, e) == \E s \in Nat : s < Len(emitted[r]) /\ 2 * s + 2 < Executed(r) /\ emitted[r][s + 1] = e

RowMatches(r) ==
  Healthy(r) =>
    /\ Executed(r) >= 1 => run[r].status # "absent"
    /\ run[r].status = "resolved" => Told(r, "resolved")
    /\ Told(r, "resolved") => run[r].status = "resolved"
    /\ run[r].status = "failed" => Told(r, "fatal") \/ Executed(r) = 2 * Len(emitted[r]) + 2
    /\ Executed(r) = 2 * Len(emitted[r]) + 2 => run[r].ended /\ run[r].status # "running"

NoHoles(r) == \A s \in stored[r] : s < Len(emitted[r]) /\ \A t \in 0..s : t \in stored[r]

RowTells(r) ==
  /\ run[r].status = "resolved" => \E s \in stored[r] : emitted[r][s + 1] = "resolved"
  /\ run[r].status = "failed" => \A s \in stored[r] : emitted[r][s + 1] # "resolved"

Ends(r) ==
  /\ state[r] = "new" => emitted[r] = <<>>
  /\ state[r] = "finished" => chain[r] = <<>>

Good(r) ==
  /\ Ends(r) /\ ChainOrder(r) /\ Emission(r) /\ TablesMatch(r) /\ RowMatches(r)
  /\ NoHoles(r) /\ folded[r] \subseteq stored[r] /\ RowTells(r)

IInv == TypeOK /\ \A r \in Runs : Good(r)

-----------------------------------------------------------------------------
(* Types.                                                                  *)

\* A statement keeps the row and the two sets of seqs well typed.
LEMMA EffectTyped ==
  ASSUME TypeOK, NEW r \in Runs, NEW s \in Statement, Effect(r, s)
  PROVE  /\ run' \in [Runs -> Row]
         /\ stored' \in [Runs -> SUBSET Nat] /\ folded' \in [Runs -> SUBSET Nat]
<1>1. PICK new \in Row : run' = [run EXCEPT ![r] = new]
  <2>1. run[r] \in Row
    BY DEF TypeOK
  <2>2. CASE s.op = "begin"
    BY <2>1, <2>2 DEF Effect, BeginRow, Row
  <2>3. CASE s.op = "store"
    BY <2>1, <2>3 DEF Effect
  <2>4. CASE s.op = "fold"
    BY <2>1, <2>4 DEF Effect, Updated, FoldRow, Row
  <2>5. CASE s.op = "finalize"
    BY <2>1, <2>5 DEF Effect, Updated, FinalizeRow, Row
  <2> QED
    BY <2>2, <2>3, <2>4, <2>5 DEF Statement
<1>2. stored' \in [Runs -> SUBSET Nat] /\ folded' \in [Runs -> SUBSET Nat]
  BY DEF Effect, TypeOK, Statement
<1> QED
  BY <1>1, <1>2 DEF TypeOK

\* The initial state is well typed.
LEMMA InitTyped == Init => TypeOK
  BY WriterAssumption DEF Init, TypeOK, NoRow, Row, Event, Statement

\* Every step keeps the types.
LEMMA NextTyped == TypeOK /\ [Next]_vars => TypeOK'
<1> SUFFICES ASSUME TypeOK, [Next]_vars PROVE TypeOK'
  OBVIOUS
<1>1. ASSUME NEW r \in Runs, Begin(r) PROVE TypeOK'
  BY <1>1 DEF Begin, Enqueue, TypeOK, Statement, tables
<1>2. ASSUME NEW r \in Runs, NEW e \in Event, Record(r, e) PROVE TypeOK'
  BY <1>2, WriterAssumption, SMTT(30) DEF Record, Enqueue, TypeOK, Statement, tables
<1>3. ASSUME NEW r \in Runs, Finalize(r) PROVE TypeOK'
  BY <1>3 DEF Finalize, Enqueue, TypeOK, Statement, tables
<1>4. ASSUME NEW r \in Runs, Flush(r) PROVE TypeOK'
  BY <1>4 DEF Flush, TypeOK, tables
<1>5. ASSUME NEW r \in Runs, Execute(r) PROVE TypeOK'
  <2>1. Head(chain[r]) \in Statement /\ Tail(chain[r]) \in Seq(Statement)
    BY <1>5 DEF Execute, TypeOK
  <2> QED
    BY <1>5, <2>1, EffectTyped DEF Execute, TypeOK
<1>6. ASSUME NEW r \in Runs, Fail(r) PROVE TypeOK'
  <2>1. Head(chain[r]) \in Statement /\ Tail(chain[r]) \in Seq(Statement)
    BY <1>6 DEF Fail, TypeOK
  <2>2. /\ run' \in [Runs -> Row]
        /\ stored' \in [Runs -> SUBSET Nat] /\ folded' \in [Runs -> SUBSET Nat]
    BY <1>6, <2>1, EffectTyped DEF Fail, TypeOK, tables
  <2>3. spent' \in [faults: 0..MaxFaults, kills: 0..MaxKills]
    <3>1. spent \in [faults: 0..MaxFaults, kills: 0..MaxKills]
      BY DEF TypeOK
    <3>2. spent.faults + 1 \in 0..MaxFaults
      BY <1>6, <3>1, WriterAssumption DEF Fail
    <3> QED
      BY <1>6, <3>1, <3>2 DEF Fail
  <2>4. chain' \in [Runs -> Seq(Statement)] /\ broken' \in [Runs -> BOOLEAN]
    BY <1>6, <2>1 DEF Fail, TypeOK
  <2> QED
    BY <1>6, <2>2, <2>3, <2>4 DEF Fail, TypeOK
<1>7. ASSUME NEW r \in Runs, Skip(r) PROVE TypeOK'
  BY <1>7 DEF Skip, TypeOK, tables
<1>8. ASSUME Kill PROVE TypeOK'
  <2>1. spent' \in [faults: 0..MaxFaults, kills: 0..MaxKills]
    <3>1. spent \in [faults: 0..MaxFaults, kills: 0..MaxKills]
      BY DEF TypeOK
    <3>2. spent.kills + 1 \in 0..MaxKills
      BY <1>8, <3>1, WriterAssumption DEF Kill
    <3> QED
      BY <1>8, <3>1, <3>2 DEF Kill
  <2>2. chain' \in [Runs -> Seq(Statement)]
    BY <1>8 DEF Kill, TypeOK
  <2>3. state' \in [Runs -> {"new", "open", "closed", "finished", "killed"}]
    BY <1>8 DEF Kill, TypeOK
  <2> QED
    BY <1>8, <2>1, <2>2, <2>3 DEF Kill, TypeOK, tables
<1>9. CASE UNCHANGED vars
  BY <1>9 DEF vars, TypeOK
<1> QED
  BY <1>1, <1>2, <1>3, <1>4, <1>5, <1>6, <1>7, <1>8, <1>9 DEF Next, Write

-----------------------------------------------------------------------------
(* The script.                                                             *)

\* Nothing is queued and nothing stored before a run begins.
LEMMA InitGood == Init => \A r \in Runs : Good(r)
<1> SUFFICES ASSUME Init, NEW r \in Runs PROVE Good(r)
  OBVIOUS
<1>1. Ends(r) /\ ChainOrder(r) /\ Emission(r)
  BY DEF Init, Ends, ChainOrder, Emission, Queued, Executed
<1>2. TablesMatch(r) /\ NoHoles(r) /\ folded[r] \subseteq stored[r]
  BY DEF Init, TablesMatch, NoHoles, Executed, Queued
<1>3. RowMatches(r) /\ RowTells(r)
  BY DEF Init, RowMatches, RowTells, Told, Executed, Queued, NoRow
<1> QED
  BY <1>1, <1>2, <1>3 DEF Good

\* What a step does not touch stays good.
LEMMA SameGood ==
  ASSUME NEW r \in Runs, Good(r),
         state'[r] = state[r], emitted'[r] = emitted[r], chain'[r] = chain[r],
         broken'[r] = broken[r], run'[r] = run[r], stored'[r] = stored[r],
         folded'[r] = folded[r]
  PROVE  Good(r)'
<1>1. Executed(r)' = Executed(r) /\ Queued(r)' = Queued(r) /\ (Healthy(r)' <=> Healthy(r))
  BY DEF Executed, Queued, Healthy
<1>2. Ends(r)' /\ Emission(r)' /\ NoHoles(r)' /\ RowTells(r)' /\ (folded[r] \subseteq stored[r])'
  BY DEF Good, Ends, Emission, NoHoles, RowTells
<1>3. ChainOrder(r)'
  BY <1>1 DEF Good, ChainOrder
<1>4. TablesMatch(r)'
  BY <1>1 DEF Good, TablesMatch
<1>5. RowMatches(r)'
  BY <1>1 DEF Good, RowMatches, Told
<1> QED
  BY <1>2, <1>3, <1>4, <1>5 DEF Good

\* The steps of another run touch nothing of this one.
LEMMA OthersGood ==
  ASSUME IInv, NEW r \in Runs, NEW q \in Runs, q # r,
         \/ Begin(q) \/ Finalize(q) \/ Flush(q) \/ Write(q) \/ Fail(q)
         \/ \E e \in Event : Record(q, e)
  PROVE  Good(r)'
<1>1. Good(r)
  BY DEF IInv
<1>2. ASSUME NEW s \in Statement, Effect(q, s)
      PROVE  run'[r] = run[r] /\ stored'[r] = stored[r] /\ folded'[r] = folded[r]
  BY <1>2 DEF Effect, IInv, TypeOK
<1>3. chain[q] # <<>> => Head(chain[q]) \in Statement
  BY DEF IInv, TypeOK
<1>4. CASE Begin(q) \/ Finalize(q) \/ Flush(q) \/ Skip(q) \/ \E e \in Event : Record(q, e)
  BY <1>1, <1>4, SameGood DEF Begin, Finalize, Flush, Skip, Record, Enqueue, tables, IInv, TypeOK
<1>5. CASE Execute(q)
  BY <1>1, <1>2, <1>3, <1>5, SameGood DEF Execute, IInv, TypeOK
<1>6. CASE Fail(q)
  BY <1>1, <1>2, <1>3, <1>6, SameGood DEF Fail, tables, IInv, TypeOK
<1> QED
  BY <1>4, <1>5, <1>6 DEF Write

\* A run begins.
LEMMA BeginGood ==
  ASSUME IInv, NEW r \in Runs, Begin(r)
  PROVE  Good(r)'
<1> USE DEF IInv, Good
<1>1. /\ state[r] = "new" /\ state'[r] = "open" /\ broken'[r] = broken[r] /\ emitted[r] = <<>>
      /\ emitted' = emitted /\ run' = run /\ stored' = stored /\ folded' = folded
      /\ chain[r] = <<>> /\ chain'[r] = <<[op |-> "begin", seq |-> 0]>>
  <2>1. state[r] = "new" /\ chain[r] \in Seq(Statement) /\ Len(chain[r]) <= 0
    BY DEF Begin, TypeOK, ChainOrder, Queued
  <2>2. chain[r] = <<>>
    BY <2>1
  <2>3. emitted[r] = <<>>
    BY <2>1 DEF Ends
  <2> QED
    BY <2>1, <2>2, <2>3 DEF Begin, Enqueue, tables, TypeOK
<1>2. Executed(r) = 0 /\ Executed(r)' = 0 /\ Queued(r)' = 1
  BY <1>1 DEF Executed, Queued
<1>3. Ends(r)' /\ Emission(r)' /\ NoHoles(r)' /\ RowTells(r)' /\ (folded[r] \subseteq stored[r])'
  BY <1>1 DEF Ends, Emission, NoHoles, RowTells
<1>4. ChainOrder(r)'
  <2>1. Len(chain'[r]) = 1 /\ chain'[r][1] = [op |-> "begin", seq |-> 0]
    BY <1>1
  <2> QED
    BY <1>2, <2>1 DEF ChainOrder, Place
<1>5. TablesMatch(r)'
  BY <1>1, <1>2 DEF TablesMatch, Healthy
<1>6. RowMatches(r)'
  BY <1>1, <1>2 DEF RowMatches, Told, Healthy
<1> QED
  BY <1>3, <1>4, <1>5, <1>6

\* An event is recorded: it is emitted and its two statements are queued.
LEMMA RecordGood ==
  ASSUME IInv, NEW r \in Runs, NEW e \in Event, Record(r, e)
  PROVE  Good(r)'
<1>0. Good(r) /\ TypeOK
  BY DEF IInv
<1>n. PICK n \in Nat : n = Len(emitted[r])
  BY <1>0 DEF TypeOK
<1>k. PICK k \in Nat : k = Len(chain[r])
  BY <1>0 DEF TypeOK
<1> DEFINE store == [op |-> "store", seq |-> n]
           fold == [op |-> "fold", seq |-> n]
<1>1. /\ emitted[r] \in Seq(Event) /\ chain[r] \in Seq(Statement)
      /\ state[r] = "open" /\ state'[r] = "open" /\ broken'[r] = broken[r]
      /\ emitted'[r] = Append(emitted[r], e) /\ chain'[r] = chain[r] \o <<store, fold>>
      /\ run' = run /\ stored' = stored /\ folded' = folded
  <2>1. emitted[r] \in Seq(Event) /\ chain[r] \in Seq(Statement)
    BY <1>0 DEF TypeOK
  <2>2. state[r] = "open" /\ state'[r] = "open" /\ broken'[r] = broken[r]
    BY DEF Record
  <2>3. emitted'[r] = Append(emitted[r], e) /\ chain'[r] = chain[r] \o <<store, fold>>
    BY <1>0, <1>n DEF Record, Enqueue, TypeOK
  <2> QED
    BY <2>1, <2>2, <2>3 DEF Record, tables
<1>2. /\ Len(emitted'[r]) = n + 1 /\ emitted'[r][n + 1] = e
      /\ \A i \in 1..n : emitted'[r][i] = emitted[r][i]
  BY <1>1, <1>n
<1>3. Queued(r) = 2 * n + 1 /\ Queued(r)' = 2 * n + 3
  BY <1>1, <1>2, <1>n DEF Queued
<1>c. Len(chain'[r]) = k + 2 /\ k <= 2 * n + 1
  BY <1>0, <1>1, <1>3, <1>k DEF Good, ChainOrder
<1>d. Executed(r) = 2 * n + 1 - k /\ Executed(r)' = 2 * n + 1 - k
  BY <1>3, <1>c, <1>k DEF Executed
<1>4. Ends(r)' /\ NoHoles(r)' /\ (folded[r] \subseteq stored[r])'
  <2>1. Ends(r)' /\ (folded[r] \subseteq stored[r])'
    BY <1>0, <1>1 DEF Good, Ends
  <2>2. \A s \in stored[r] : s \in Nat /\ s < n /\ \A t \in 0..s : t \in stored[r]
    BY <1>0, <1>n DEF Good, NoHoles, TypeOK
  <2> QED
    BY <1>1, <1>2, <2>1, <2>2 DEF NoHoles
<1>5. Emission(r)'
  <2>1. n > 0 => MayFollow(e, emitted[r][n])
    BY <1>n DEF Record
  <2>2. \A i, j \in 1..n :
          i < j => emitted[r][i] # "fatal" /\ (emitted[r][i] = "resolved" => emitted[r][j] = "resolved")
    BY <1>0, <1>n DEF Good, Emission
  <2>3. ASSUME NEW i \in 1..(n + 1), NEW j \in 1..(n + 1), i < j
        PROVE  /\ emitted'[r][i] # "fatal"
               /\ emitted'[r][i] = "resolved" => emitted'[r][j] = "resolved"
    <3>1. i \in 1..n /\ emitted'[r][i] = emitted[r][i]
      BY <1>2, <2>3
    <3>2. CASE j \in 1..n
      <4>1. emitted'[r][j] = emitted[r][j]
        BY <1>2, <3>2
      <4> QED
        BY <2>2, <2>3, <3>1, <3>2, <4>1
    <3>3. CASE j = n + 1
      <4>1. emitted'[r][j] = e
        BY <1>2, <3>3
      <4>2. emitted[r][n] # "fatal" /\ (emitted[r][n] = "resolved" => e = "resolved")
        BY <2>1, <3>1 DEF MayFollow
      <4>3. CASE i = n
        BY <3>1, <4>1, <4>2, <4>3
      <4>4. CASE i < n
        <5>1. n \in 1..n
          BY <3>1
        <5>2. emitted[r][i] # "fatal" /\ (emitted[r][i] = "resolved" => emitted[r][n] = "resolved")
          BY <2>2, <3>1, <4>4, <5>1
        <5> QED
          BY <3>1, <4>1, <4>2, <5>2
      <4> QED
        BY <3>1, <4>3, <4>4
    <3> QED
      BY <3>2, <3>3
  <2>4. Len(emitted'[r]) = n + 1
    BY <1>2
  <2> QED
    BY <2>3, <2>4 DEF Emission
<1>6. ChainOrder(r)'
  <2>1. ASSUME NEW i \in 1..k
        PROVE  /\ Place(chain[r][i], n + 1) = 2 * n + 1 - k + i - 1
               /\ chain[r][i].op \in {"store", "fold"} => chain[r][i].seq < n + 1
    <3>1. /\ Place(chain[r][i], n) = 2 * n + 1 - k + i - 1
          /\ chain[r][i].op \in {"store", "fold"} => chain[r][i].seq < n
      BY <1>0, <1>d, <1>k, <1>n DEF Good, ChainOrder
    <3>2. chain[r][i] \in Statement
      BY <1>1, <1>k
    <3>3. chain[r][i].op # "finalize"
      <4>1. SUFFICES ASSUME chain[r][i].op = "finalize" PROVE FALSE
        OBVIOUS
      <4>2. 2 * n + 1 = 2 * n + 1 - k + i - 1
        BY <3>1, <4>1 DEF Place
      <4> QED
        BY <4>2
    <3> QED
      BY <3>1, <3>2, <3>3 DEF Place, Statement
  <2>2. Place(store, n + 1) = 2 * n + 1 /\ Place(fold, n + 1) = 2 * n + 2
    BY DEF Place
  <2>3. /\ chain'[r][k + 1] = store /\ chain'[r][k + 2] = fold
        /\ \A i \in 1..k : chain'[r][i] = chain[r][i]
    BY <1>1, <1>k
  <2>4. ASSUME NEW i \in 1..(k + 2)
        PROVE  /\ Place(chain'[r][i], n + 1) = 2 * n + 1 - k + i - 1
               /\ chain'[r][i].op \in {"store", "fold"} => chain'[r][i].seq < n + 1
    <3>1. CASE i \in 1..k
      BY <2>1, <2>3, <3>1
    <3>2. CASE i = k + 1
      BY <2>2, <2>3, <3>2
    <3>3. CASE i = k + 2
      BY <2>2, <2>3, <3>3
    <3>4. i \in 1..k \/ i = k + 1 \/ i = k + 2
      OBVIOUS
    <3> QED
      BY <3>1, <3>2, <3>3, <3>4
  <2> QED
    BY <1>2, <1>3, <1>c, <1>d, <2>4 DEF ChainOrder
<1>7. TablesMatch(r)'
  <2>1. \A t \in Nat : 2 * t + 1 < 2 * n + 1 - k => t < n /\ t < n + 1
    OBVIOUS
  <2> QED
    BY <1>0, <1>1, <1>2, <1>d, <1>n, <2>1 DEF Good, TablesMatch, Healthy
<1>8. \A x \in Event : Told(r, x)' <=> Told(r, x)
  <2>1. ASSUME NEW s \in Nat, 2 * s + 2 < 2 * n + 1 - k
        PROVE  s < n /\ s < n + 1 /\ emitted'[r][s + 1] = emitted[r][s + 1]
    BY <1>2, <2>1
  <2>2. \A x \in Event : Told(r, x) => Told(r, x)'
    BY <1>2, <1>d, <1>n, <2>1 DEF Told
  <2>3. \A x \in Event : Told(r, x)' => Told(r, x)
    BY <1>2, <1>d, <1>n, <2>1 DEF Told
  <2> QED
    BY <2>2, <2>3
<1>9. "resolved" \in Event /\ "fatal" \in Event
  BY DEF Event
<1>10. RowMatches(r)'
  BY <1>0, <1>1, <1>2, <1>d, <1>n, <1>8, <1>9 DEF Good, RowMatches, Healthy
<1>11. RowTells(r)'
  <2>1. \A s \in stored[r] : s \in 0..(n - 1) /\ emitted'[r][s + 1] = emitted[r][s + 1]
    BY <1>0, <1>2, <1>n DEF Good, NoHoles, TypeOK
  <2> QED
    BY <1>0, <1>1, <2>1 DEF Good, RowTells
<1> QED
  BY <1>4, <1>5, <1>6, <1>7, <1>10, <1>11 DEF Good

\* A run ends and queues its last statement.
LEMMA FinalizeGood ==
  ASSUME IInv, NEW r \in Runs, Finalize(r)
  PROVE  Good(r)'
<1> DEFINE last == [op |-> "finalize", seq |-> 0]
<1>0. Good(r) /\ TypeOK
  BY DEF IInv
<1>n. PICK n \in Nat : n = Len(emitted[r])
  BY <1>0 DEF TypeOK
<1>k. PICK k \in Nat : k = Len(chain[r])
  BY <1>0 DEF TypeOK
<1>1. /\ chain[r] \in Seq(Statement)
      /\ state[r] = "open" /\ state'[r] = "closed" /\ broken'[r] = broken[r]
      /\ emitted' = emitted /\ chain'[r] = Append(chain[r], last)
      /\ run' = run /\ stored' = stored /\ folded' = folded
  BY <1>0 DEF Finalize, Enqueue, tables, TypeOK
<1>2. Queued(r) = 2 * n + 1 /\ Queued(r)' = 2 * n + 2
  BY <1>1, <1>n DEF Queued
<1>c. Len(chain'[r]) = k + 1 /\ k <= 2 * n + 1
  BY <1>0, <1>1, <1>2, <1>k DEF Good, ChainOrder
<1>d. Executed(r) = 2 * n + 1 - k /\ Executed(r)' = 2 * n + 1 - k
  BY <1>2, <1>c, <1>k DEF Executed
<1>3. Ends(r)' /\ Emission(r)' /\ NoHoles(r)' /\ RowTells(r)' /\ (folded[r] \subseteq stored[r])'
  BY <1>0, <1>1 DEF Good, Ends, Emission, NoHoles, RowTells
<1>4. ChainOrder(r)'
  <2>1. /\ chain'[r][k + 1] = last
        /\ \A i \in 1..k : chain'[r][i] = chain[r][i]
    BY <1>1, <1>k
  <2>2. Place(last, n) = 2 * n + 1
    BY DEF Place
  <2>3. \A i \in 1..k : /\ Place(chain[r][i], n) = 2 * n + 1 - k + i - 1
                        /\ chain[r][i].op \in {"store", "fold"} => chain[r][i].seq < n
    BY <1>0, <1>d, <1>k, <1>n DEF Good, ChainOrder
  <2>4. ASSUME NEW i \in 1..(k + 1)
        PROVE  /\ Place(chain'[r][i], n) = 2 * n + 1 - k + i - 1
               /\ chain'[r][i].op \in {"store", "fold"} => chain'[r][i].seq < n
    <3>1. CASE i \in 1..k
      BY <2>1, <2>3, <3>1
    <3>2. CASE i = k + 1
      <4>1. chain'[r][i] = last
        BY <2>1, <3>2
      <4>2. 2 * n + 1 - k + i - 1 = 2 * n + 1
        BY <3>2
      <4>3. last.op \notin {"store", "fold"}
        OBVIOUS
      <4> QED
        BY <2>2, <4>1, <4>2, <4>3
    <3> QED
      BY <3>1, <3>2
  <2>5. Len(chain'[r]) <= Queued(r)'
    BY <1>2, <1>c
  <2>6. Len(emitted'[r]) = n
    BY <1>1, <1>n
  <2> QED
    BY <1>c, <1>d, <2>4, <2>5, <2>6 DEF ChainOrder
<1>5. TablesMatch(r)'
  BY <1>0, <1>1, <1>d DEF Good, TablesMatch, Healthy
<1>6. RowMatches(r)'
  BY <1>0, <1>1, <1>d, <1>n DEF Good, RowMatches, Told, Healthy
<1> QED
  BY <1>3, <1>4, <1>5, <1>6 DEF Good

\* The chain is drained and the run finished.
LEMMA FlushGood ==
  ASSUME IInv, NEW r \in Runs, Flush(r)
  PROVE  Good(r)'
<1>0. Good(r) /\ TypeOK
  BY DEF IInv
<1>1. /\ state[r] = "closed" /\ state'[r] = "finished" /\ broken' = broken
      /\ emitted' = emitted /\ chain' = chain /\ chain[r] = <<>>
      /\ run' = run /\ stored' = stored /\ folded' = folded
  BY <1>0 DEF Flush, tables, TypeOK
<1>2. Queued(r)' = Queued(r) /\ Executed(r)' = Executed(r) /\ (Healthy(r)' <=> Healthy(r))
  BY <1>1 DEF Queued, Executed, Healthy
<1>3. Ends(r)' /\ Emission(r)' /\ NoHoles(r)' /\ RowTells(r)' /\ (folded[r] \subseteq stored[r])'
  BY <1>0, <1>1 DEF Good, Ends, Emission, NoHoles, RowTells
<1>4. ChainOrder(r)'
  BY <1>0, <1>1, <1>2 DEF Good, ChainOrder
<1>5. TablesMatch(r)'
  BY <1>0, <1>1, <1>2 DEF Good, TablesMatch
<1>6. RowMatches(r)'
  BY <1>0, <1>1, <1>2 DEF Good, RowMatches, Told
<1> QED
  BY <1>3, <1>4, <1>5, <1>6 DEF Good

\* What is left of a chain after its first statement is the rest of the script.
LEMMA TailOrder ==
  ASSUME IInv, NEW r \in Runs, chain[r] # <<>>,
         state' = state, emitted' = emitted, chain'[r] = Tail(chain[r])
  PROVE  ChainOrder(r)'
<1>0. Good(r) /\ TypeOK
  BY DEF IInv
<1>n. PICK n \in Nat : n = Len(emitted[r])
  BY <1>0 DEF TypeOK
<1>k. PICK k \in Nat : k = Len(chain[r])
  BY <1>0 DEF TypeOK
<1>q. PICK q \in Nat : q = Queued(r)
  BY <1>n DEF Queued
<1>1. k > 0 /\ k <= q /\ Len(chain'[r]) = k - 1
      /\ \A i \in 1..(k - 1) : chain'[r][i] = chain[r][i + 1]
  BY <1>0, <1>k, <1>q DEF Good, ChainOrder, TypeOK
<1>x. PICK x \in Nat : x = q - k
  BY <1>1
<1>2. Queued(r)' = q
  BY <1>q DEF Queued
<1>3. Executed(r) = x /\ Executed(r)' = x + 1
  BY <1>1, <1>2, <1>k, <1>q, <1>x DEF Executed
<1>4. \A i \in 1..k : /\ Place(chain[r][i], n) = x + i - 1
                      /\ chain[r][i].op \in {"store", "fold"} => chain[r][i].seq < n
  BY <1>0, <1>3, <1>k, <1>n DEF Good, ChainOrder
<1>5. \A i \in 1..(k - 1) : i + 1 \in 1..k /\ x + (i + 1) - 1 = x + 1 + i - 1
  OBVIOUS
<1>6. \A i \in 1..(k - 1) :
        /\ Place(chain'[r][i], n) = x + 1 + i - 1
        /\ chain'[r][i].op \in {"store", "fold"} => chain'[r][i].seq < n
  BY <1>1, <1>4, <1>5
<1>7. Len(chain'[r]) = k - 1 /\ Len(chain'[r]) <= Queued(r)'
  BY <1>1, <1>2
<1>8. Len(emitted'[r]) = n
  BY <1>n
<1> QED
  BY <1>3, <1>6, <1>7, <1>8 DEF ChainOrder

\* The first statement of a chain is executed, whether its answer arrives or not.
LEMMA EffectGood ==
  ASSUME IInv, NEW r \in Runs, Healthy(r), chain[r] # <<>>, Effect(r, Head(chain[r])),
         state' = state, emitted' = emitted, chain'[r] = Tail(chain[r])
  PROVE  Good(r)'
<1>0. Good(r) /\ TypeOK
  BY DEF IInv
<1>n. PICK n \in Nat : n = Len(emitted[r])
  BY <1>0 DEF TypeOK
<1>k. PICK k \in Nat : k = Len(chain[r])
  BY <1>0 DEF TypeOK
<1>q. PICK q \in Nat : q = Queued(r) /\ q <= 2 * n + 2
  BY <1>n DEF Queued
<1>s. PICK s \in Statement : s = Head(chain[r])
  BY <1>0 DEF TypeOK
<1>1. k > 0 /\ k <= q /\ chain[r][1] = s /\ Len(chain'[r]) = k - 1
      /\ \A i \in 1..(k - 1) : chain'[r][i] = chain[r][i + 1]
  BY <1>0, <1>k, <1>q, <1>s DEF Good, ChainOrder, TypeOK
<1>x. PICK x \in Nat : x = q - k
  BY <1>1
<1>2. x < q /\ x <= 2 * n + 1
  BY <1>1, <1>x, <1>q
<1>3. Queued(r)' = q
  BY <1>q DEF Queued
<1>4. Executed(r) = x /\ Executed(r)' = x + 1
  BY <1>1, <1>3, <1>k, <1>q, <1>x DEF Executed
<1>5. \A i \in 1..k : /\ Place(chain[r][i], n) = x + i - 1
                      /\ chain[r][i].op \in {"store", "fold"} => chain[r][i].seq < n
  BY <1>0, <1>4, <1>k, <1>n DEF Good, ChainOrder
<1>6. Place(s, n) = x /\ (s.op \in {"store", "fold"} => s.seq < n)
  BY <1>1, <1>5
<1>7. Ends(r)' /\ Emission(r)'
  <2>1. state[r] # "finished"
    BY <1>0 DEF Good, Ends
  <2> QED
    BY <1>0, <2>1 DEF Good, Ends, Emission
<1>8. ChainOrder(r)'
  BY TailOrder
<1>9. /\ \A t \in Nat : t \in stored[r] <=> t < n /\ 2 * t + 1 < x
      /\ \A t \in Nat : t \in folded[r] <=> 2 * t + 2 < x
  BY <1>0, <1>4, <1>n DEF Good, TablesMatch
<1>10. /\ \A t \in Nat : t \in stored'[r] <=> t < n /\ 2 * t + 1 < x + 1
       /\ \A t \in Nat : t \in folded'[r] <=> 2 * t + 2 < x + 1
  <2>1. CASE s.op = "begin"
    <3>1. x = 0 /\ stored'[r] = stored[r] /\ folded'[r] = folded[r]
      BY <1>6, <1>s, <2>1 DEF Effect, Place
    <3> QED
      BY <1>9, <3>1
  <2>2. CASE s.op = "store"
    <3>1. s.seq \in Nat /\ x = 2 * s.seq + 1 /\ s.seq < n
      BY <1>6, <2>2 DEF Place, Statement
    <3>2. stored'[r] = stored[r] \cup {s.seq} /\ folded'[r] = folded[r]
      BY <1>0, <1>s, <2>2 DEF Effect, TypeOK
    <3>3. \A t \in Nat : 2 * t + 1 < x + 1 <=> 2 * t + 1 < x \/ t = s.seq
      BY <3>1
    <3>4. \A t \in Nat : 2 * t + 2 < x + 1 <=> 2 * t + 2 < x
      BY <3>1
    <3> QED
      BY <1>9, <3>1, <3>2, <3>3, <3>4
  <2>3. CASE s.op = "fold"
    <3>1. s.seq \in Nat /\ x = 2 * s.seq + 2
      BY <1>6, <2>3 DEF Place, Statement
    <3>2. stored'[r] = stored[r] /\ folded'[r] = folded[r] \cup {s.seq}
      BY <1>0, <1>s, <2>3 DEF Effect, TypeOK
    <3>3. \A t \in Nat : 2 * t + 1 < x + 1 <=> 2 * t + 1 < x
      BY <3>1
    <3>4. \A t \in Nat : 2 * t + 2 < x + 1 <=> 2 * t + 2 < x \/ t = s.seq
      BY <3>1
    <3> QED
      BY <1>9, <3>1, <3>2, <3>3, <3>4
  <2>4. CASE s.op = "finalize"
    <3>1. x = 2 * n + 1 /\ stored'[r] = stored[r] /\ folded'[r] = folded[r]
      BY <1>6, <1>s, <2>4 DEF Effect, Place
    <3> QED
      BY <1>9, <3>1
  <2> QED
    BY <2>1, <2>2, <2>3, <2>4 DEF Statement
<1> DEFINE Then(y, m) == \E t \in Nat : t < n /\ 2 * t + 2 < m /\ emitted[r][t + 1] = y
<1>11. \A y \in Event : (Told(r, y) <=> Then(y, x)) /\ (Told(r, y)' <=> Then(y, x + 1))
  BY <1>4, <1>n DEF Told
<1>12. run[r] \in Row
  BY <1>0 DEF TypeOK
<1>13. /\ x >= 1 => run[r].status # "absent"
       /\ run[r].status = "resolved" <=> Then("resolved", x)
       /\ run[r].status = "failed" => Then("fatal", x)
  <2>1. "resolved" \in Event /\ "fatal" \in Event
    BY DEF Event
  <2>2. Executed(r) # 2 * n + 2
    BY <1>2, <1>4
  <2>3. RowMatches(r)
    BY <1>0 DEF Good
  <2> QED
    BY <1>4, <1>11, <1>n, <2>1, <2>2, <2>3 DEF RowMatches
<1>14. \A i, j \in 1..n :
         i < j => emitted[r][i] # "fatal" /\ (emitted[r][i] = "resolved" => emitted[r][j] = "resolved")
  BY <1>0, <1>n DEF Good, Emission
<1>15. /\ x + 1 >= 1 => run'[r].status # "absent"
       /\ run'[r].status = "resolved" <=> Then("resolved", x + 1)
       /\ run'[r].status = "failed" => Then("fatal", x + 1) \/ x + 1 = 2 * n + 2
       /\ x + 1 = 2 * n + 2 => run'[r].ended /\ run'[r].status # "running"
  <2>1. CASE s.op = "begin"
    <3>1. x = 0 /\ run'[r] = BeginRow(run[r])
      BY <1>0, <1>6, <1>s, <2>1 DEF Effect, Place, TypeOK
    <3>2. run[r].status \in {"absent", "running"}
      BY <1>12, <1>13, <3>1 DEF Row
    <3> QED
      BY <1>12, <3>1, <3>2 DEF BeginRow, Row
  <2>2. CASE s.op = "store"
    <3>1. s.seq \in Nat /\ s.seq < n /\ x = 2 * s.seq + 1 /\ run'[r] = run[r]
      BY <1>0, <1>6, <1>s, <2>2 DEF Effect, Place, TypeOK, Statement
    <3>2. \A t \in Nat : 2 * t + 2 < x + 1 <=> 2 * t + 2 < x
      BY <3>1
    <3>3. x >= 1 /\ x + 1 # 2 * n + 2
      BY <3>1
    <3> QED
      BY <1>13, <3>1, <3>2, <3>3
  <2>3. CASE s.op = "fold"
    <3> DEFINE e == emitted[r][s.seq + 1]
    <3>1. s.seq \in Nat /\ s.seq < n /\ x = 2 * s.seq + 2 /\ s.seq + 1 \in 1..n
      BY <1>6, <2>3 DEF Place, Statement
    <3>2. x >= 1 /\ x + 1 # 2 * n + 2
      BY <3>1
    <3>3. run[r].status # "absent" /\ run'[r] = FoldRow(run[r], e)
      BY <1>0, <1>13, <1>s, <2>3, <3>2 DEF Effect, TypeOK, Updated
    <3>4. \A t \in Nat : 2 * t + 2 < x + 1 <=> 2 * t + 2 < x \/ t = s.seq
      BY <3>1
    <3>5. \A y \in Event : Then(y, x + 1) <=> Then(y, x) \/ e = y
      BY <3>1, <3>4
    <3>6. e = "fatal" => ~Then("resolved", x)
      <4>1. ASSUME NEW t \in Nat, t < n, 2 * t + 2 < x, emitted[r][t + 1] = "resolved", e = "fatal"
            PROVE  FALSE
        <5>1. t + 1 \in 1..n /\ t + 1 < s.seq + 1
          BY <3>1, <4>1, SMTT(30)
        <5> QED
          BY <1>14, <3>1, <4>1, <5>1
      <4> QED
        BY <4>1
    <3>7. e = "resolved" \/ e = "fatal" \/ (e # "resolved" /\ e # "fatal" /\ run'[r] = run[r])
      BY <3>3 DEF FoldRow
    <3>8. CASE e = "resolved"
      BY <1>12, <3>2, <3>3, <3>5, <3>8 DEF FoldRow, Row, Event
    <3>9. CASE e = "fatal"
      BY <1>12, <3>2, <3>3, <3>5, <3>6, <3>9 DEF FoldRow, Row, Event
    <3>10. CASE e # "resolved" /\ e # "fatal" /\ run'[r] = run[r]
      BY <1>13, <3>2, <3>3, <3>5, <3>10 DEF Event
    <3> QED
      BY <3>7, <3>8, <3>9, <3>10
  <2>4. CASE s.op = "finalize"
    <3>1. x = 2 * n + 1 /\ x >= 1
      BY <1>6, <2>4 DEF Place
    <3>2. run'[r] = FinalizeRow(run[r]) /\ run[r].status # "absent"
      BY <1>0, <1>13, <1>s, <2>4, <3>1 DEF Effect, TypeOK, Updated
    <3>3. Then("resolved", x + 1) <=> Then("resolved", x)
      BY <3>1
    <3> QED
      BY <1>12, <1>13, <3>1, <3>2, <3>3, SMTT(30) DEF FinalizeRow, Row
  <2> QED
    BY <2>1, <2>2, <2>3, <2>4 DEF Statement
<1>16. TablesMatch(r)'
  BY <1>4, <1>10, <1>n DEF TablesMatch
<1>17. RowMatches(r)'
  <2>1. "resolved" \in Event /\ "fatal" \in Event
    BY DEF Event
  <2> QED
    BY <1>4, <1>11, <1>15, <1>n, <2>1 DEF RowMatches
<1>18. stored'[r] \subseteq Nat /\ folded'[r] \subseteq Nat
  BY <1>0, <1>s, EffectTyped
<1>19. NoHoles(r)' /\ (folded[r] \subseteq stored[r])'
  <2>1. NoHoles(r)'
    BY <1>10, <1>18, <1>n DEF NoHoles
  <2>2. ASSUME NEW t \in folded'[r] PROVE t \in stored'[r]
    <3>1. t \in Nat /\ 2 * t + 2 < x + 1
      BY <1>10, <1>18, <2>2
    <3>2. t < n /\ 2 * t + 1 < x + 1
      BY <1>2, <3>1
    <3> QED
      BY <1>10, <3>1, <3>2
  <2> QED
    BY <2>1, <2>2
<1>20. RowTells(r)'
  <2>1. run'[r].status = "resolved" => \E t \in stored'[r] : emitted'[r][t + 1] = "resolved"
    <3>1. ASSUME NEW t \in Nat, t < n, 2 * t + 2 < x + 1 PROVE t \in stored'[r]
      BY <1>10, <3>1
    <3> QED
      BY <1>15, <3>1
  <2>2. ASSUME run'[r].status = "failed", NEW t \in stored'[r], emitted'[r][t + 1] = "resolved"
        PROVE  FALSE
    <3>1. t \in Nat /\ t < n /\ t + 1 \in 1..n
      <4>1. t \in Nat
        BY <1>18
      <4>2. t < n
        BY <1>10, <2>2, <4>1
      <4> QED
        BY <4>1, <4>2
    <3>2. x + 1 # 2 * n + 2
      <4>1. SUFFICES ASSUME x + 1 = 2 * n + 2 PROVE FALSE
        OBVIOUS
      <4>2. Then("resolved", x + 1)
        BY <2>2, <3>1, <4>1
      <4> QED
        BY <1>15, <2>2, <4>2
    <3>3. PICK f \in Nat : f < n /\ emitted[r][f + 1] = "fatal"
      BY <1>15, <2>2, <3>2
    <3>4. f + 1 \in 1..n /\ (t + 1 < f + 1 \/ f + 1 < t + 1 \/ f = t)
      BY <3>1, <3>3
    <3> QED
      BY <1>14, <2>2, <3>1, <3>3, <3>4
  <2> QED
    BY <2>1, <2>2 DEF RowTells
<1> QED
  BY <1>7, <1>8, <1>16, <1>17, <1>19, <1>20 DEF Good

\* A statement is executed.
LEMMA ExecuteGood ==
  ASSUME IInv, NEW r \in Runs, Execute(r)
  PROVE  Good(r)'
<1>1. state[r] # "killed"
  BY DEF Execute, IInv, Good, ChainOrder, Queued, TypeOK
<1>2. chain'[r] = Tail(chain[r])
  BY DEF Execute, IInv, TypeOK
<1> QED
  BY <1>1, <1>2, EffectGood DEF Execute, Healthy

\* A broken writer's run stays good whatever becomes of its chain.
LEMMA BrokenGood ==
  ASSUME IInv, NEW r \in Runs, state' = state, emitted' = emitted, tables' = tables,
         broken'[r], ChainOrder(r)', state[r] # "finished"
  PROVE  Good(r)'
<1>1. Good(r)
  BY DEF IInv
<1>2. Ends(r)' /\ Emission(r)' /\ NoHoles(r)' /\ RowTells(r)' /\ (folded[r] \subseteq stored[r])'
  BY <1>1 DEF Good, Ends, Emission, NoHoles, RowTells, tables
<1>3. TablesMatch(r)' /\ RowMatches(r)'
  BY DEF TablesMatch, RowMatches, Healthy
<1> QED
  BY <1>2, <1>3 DEF Good

\* A statement fails.
LEMMA FailGood ==
  ASSUME IInv, NEW r \in Runs, Fail(r)
  PROVE  Good(r)'
<1>1. state[r] \notin {"killed", "finished"}
  BY DEF Fail, IInv, Good, ChainOrder, Queued, Ends, TypeOK
<1>2. /\ chain[r] # <<>> /\ ~broken[r] /\ state' = state /\ emitted' = emitted
      /\ chain'[r] = Tail(chain[r]) /\ broken'[r]
  BY DEF Fail, IInv, TypeOK
<1>3. CASE tables' = tables
  BY <1>1, <1>2, <1>3, BrokenGood, TailOrder
<1>4. CASE Effect(r, Head(chain[r]))
  BY <1>1, <1>2, <1>4, EffectGood DEF Healthy
<1> QED
  BY <1>3, <1>4 DEF Fail

\* The rest of a broken writer's chain is skipped.
LEMMA SkipGood ==
  ASSUME IInv, NEW r \in Runs, Skip(r)
  PROVE  Good(r)'
<1>1. state[r] # "finished" /\ chain'[r] = <<>> /\ broken'[r]
  BY DEF Skip, IInv, Good, Ends, TypeOK
<1>2. Queued(r)' \in Nat /\ Len(chain'[r]) = 0
  BY <1>1 DEF Skip, Queued, IInv, TypeOK
<1>3. ChainOrder(r)'
  BY <1>2 DEF ChainOrder
<1> QED
  BY <1>1, <1>3, BrokenGood DEF Skip, tables

\* The process dies with the run, or after it.
LEMMA KillGood ==
  ASSUME IInv, NEW r \in Runs, Kill
  PROVE  Good(r)'
<1>1. Good(r) /\ TypeOK
  BY DEF IInv
<1>2. CASE state[r] \in {"open", "closed"}
  <2>1. state'[r] = "killed" /\ chain'[r] = <<>>
    BY <1>2 DEF Kill
  <2>2. Ends(r)' /\ Emission(r)' /\ NoHoles(r)' /\ RowTells(r)' /\ (folded[r] \subseteq stored[r])'
    BY <1>1, <2>1 DEF Kill, Good, Ends, Emission, NoHoles, RowTells, tables
  <2>3. ChainOrder(r)'
    BY <2>1 DEF ChainOrder, Queued
  <2>4. TablesMatch(r)' /\ RowMatches(r)'
    BY <2>1 DEF TablesMatch, RowMatches, Healthy
  <2> QED
    BY <2>2, <2>3, <2>4 DEF Good
<1>3. CASE state[r] \notin {"open", "closed"}
  BY <1>1, <1>3, SameGood DEF Kill, tables, TypeOK
<1> QED
  BY <1>2, <1>3

-----------------------------------------------------------------------------
(* The theorems.                                                           *)

\* IInv is inductive.
LEMMA IInvHolds == Spec => []IInv
<1>1. Init => IInv
  BY InitTyped, InitGood DEF IInv
<1>2. IInv /\ [Next]_vars => IInv'
  <2> SUFFICES ASSUME IInv, [Next]_vars PROVE IInv'
    OBVIOUS
  <2>1. TypeOK'
    BY NextTyped DEF IInv
  <2>2. ASSUME NEW r \in Runs PROVE Good(r)'
    <3>1. ASSUME NEW q \in Runs,
                 \/ Begin(q) \/ Finalize(q) \/ Flush(q) \/ Write(q) \/ Fail(q)
                 \/ \E e \in Event : Record(q, e)
          PROVE  Good(r)'
      <4>1. CASE q # r
        BY <2>2, <3>1, <4>1, OthersGood
      <4>2. CASE q = r
        BY <3>1, <4>2, BeginGood, RecordGood, FinalizeGood, FlushGood, ExecuteGood,
           SkipGood, FailGood DEF Write
      <4> QED
        BY <4>1, <4>2
    <3>2. CASE Kill
      BY <2>2, <3>2, KillGood
    <3>3. CASE UNCHANGED vars
      BY <2>2, <3>3, SameGood DEF vars, IInv
    <3> QED
      BY <3>1, <3>2, <3>3 DEF Next
  <2> QED
    BY <2>1, <2>2 DEF IInv
<1> QED
  BY <1>1, <1>2, PTL DEF Spec

\* Every reachable state is well typed.
THEOREM WriterTypes == Spec => []TypeOK
  BY IInvHolds, PTL DEF IInv

\* The stored timeline of a run is a prefix of what it emitted: no failure and no
\* kill leaves a hole (the promise chain of store.ts:22-38).
THEOREM StoredIsPrefix == Spec => []TimelineHasNoHoles
<1>1. IInv => TimelineHasNoHoles
  BY DEF IInv, Good, NoHoles, TimelineHasNoHoles
<1> QED
  BY <1>1, IInvHolds, PTL

\* No derived row describes an event that was not stored (store.ts:51-70).
THEOREM FoldedAreStored == Spec => []FindingsAreStored
<1>1. IInv => FindingsAreStored
  BY DEF IInv, Good, FindingsAreStored
<1> QED
  BY <1>1, IInvHolds, PTL

\* The status of a row never contradicts the timeline stored with it
\* (store.ts:167-203).
THEOREM StatusIsTrue == Spec => []RowTellsTimeline
<1>1. IInv => RowTellsTimeline
  <2> SUFFICES ASSUME IInv, NEW r \in Runs
               PROVE  LET types == {emitted[r][s + 1] : s \in stored[r]}
                      IN /\ run[r].status = "resolved" => "resolved" \in types
                         /\ run[r].status = "failed" => "resolved" \notin types
    BY DEF RowTellsTimeline
  <2> QED
    BY DEF IInv, Good, RowTells
<1> QED
  BY <1>1, IInvHolds, PTL

\* When `finished` resolves and the writer is not broken, everything the run
\* emitted is stored and folded, and its row is settled (runner.ts:133-143).
THEOREM FinishedMeansStored == Spec => []FinishedIsHonest
<1>1. IInv => FinishedIsHonest
  <2> SUFFICES ASSUME IInv, NEW r \in Runs, state[r] = "finished", ~broken[r]
               PROVE  /\ stored[r] = 0..(Len(emitted[r]) - 1)
                      /\ folded[r] = stored[r]
                      /\ run[r].status \in {"resolved", "failed"} /\ run[r].ended
    BY DEF FinishedIsHonest
  <2>1. Good(r) /\ TypeOK
    BY DEF IInv
  <2>2. PICK n \in Nat : n = Len(emitted[r])
    BY <2>1 DEF TypeOK
  <2>3. Executed(r) = 2 * n + 2
    <3>1. Len(chain[r]) = 0
      BY <2>1 DEF Good, Ends
    <3> QED
      BY <2>2, <3>1 DEF Executed, Queued
  <2>4. Healthy(r)
    BY DEF Healthy
  <2>a. /\ \A s \in Nat : s \in stored[r] <=> s < n /\ 2 * s + 1 < 2 * n + 2
        /\ \A s \in Nat : s \in folded[r] <=> 2 * s + 2 < 2 * n + 2
    BY <2>1, <2>2, <2>3, <2>4 DEF Good, TablesMatch
  <2>5. \A s \in Nat : s \in stored[r] <=> s < n
    BY <2>a
  <2>6. \A s \in Nat : s \in folded[r] <=> s < n
    BY <2>a
  <2>7. stored[r] \subseteq Nat /\ folded[r] \subseteq Nat /\ run[r] \in Row
    BY <2>1 DEF TypeOK
  <2>8. run[r].status \notin {"absent", "running"} /\ run[r].ended
    BY <2>1, <2>2, <2>3, <2>4 DEF Good, RowMatches
  <2> QED
    BY <2>2, <2>5, <2>6, <2>7, <2>8 DEF Row
<1> QED
  BY <1>1, IInvHolds, PTL
=============================================================================
