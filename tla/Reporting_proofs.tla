--------------------------- MODULE Reporting_proofs ---------------------------
(***************************************************************************)
(* For any number of callers, limits and windows: the budgets of the       *)
(* relays hold over every window, a refusal names a wait that suffices,    *)
(* and what a reporter reads is true of the queue. Callers choose their    *)
(* names, so budgets with different limits may share a key of the table.   *)
(*                                                                         *)
(* The budget's argument: every recent admission has a place of its own    *)
(* among the times that the table keeps for its key, with its own time. An *)
(* admission leaves no more times than its own limit, so there are no more *)
(* recent admissions of a budget than its limit when one of them joins.    *)
(***************************************************************************)
EXTENDS Reporting, FiniteSetTheorems, SequenceTheorems, WellFoundedInduction, TLAPS

Keys == {Key(b) : b \in Budgets}

Ascending(times) == \A i, j \in 1..Len(times) : i <= j => times[i] <= times[j]

\* The times the table keeps for a key: no more than one of its budgets allows.
Times(table, key) == IF key \in DOMAIN table THEN table[key] ELSE <<>>

WellKept(times, key) ==
  /\ times \in Seq(Nat) /\ Ascending(times) /\ \A i \in 1..Len(times) : times[i] <= now
  /\ \E b \in Budgets : Key(b) = key /\ Len(times) <= LimitOf(b)

TableFits(table) == \A key \in DOMAIN table : WellKept(table[key], key)

Admission == [route: Routes, client: Clients, at: Nat]

LimiterTypes ==
  /\ now \in Nat
  /\ admitted \in Seq(Admission) /\ \A n \in 1..Len(admitted) : admitted[n].at <= now
  /\ TableFits(hits)

\* An admission spends a place of two budgets, the caller's and everyone's.
Counts(a, b) == a.route = b[1] /\ (b[2] = Everyone \/ a.client = b[2])

Recent(b) ==
  {n \in 1..Len(admitted) : Counts(admitted[n], b) /\ now - admitted[n].at < Window}

\* Places in `times` for the admissions of R, which are `of` by number, each with its own time.
PlacesIn(R, of, times) ==
  {f \in Injection(R, 1..Len(times)) : \A n \in R : times[f[n]] = of[n].at}

HasPlaces(b) == \E f : f \in PlacesIn(Recent(b), admitted, Times(hits, Key(b)))

\* The admissions of a budget in the window that starts at t.
InWindow(b, t) ==
  {n \in 1..Len(admitted) : /\ Counts(admitted[n], b)
                            /\ admitted[n].at \in t..(t + Window - 1)}

BudgetsKept ==
  \A b \in Budgets : \A t \in 0..now : Cardinality(InWindow(b, t)) <= LimitOf(b)

LimiterInv == LimiterTypes /\ (\A b \in Budgets : HasPlaces(b)) /\ BudgetsKept

-----------------------------------------------------------------------------
(* The answers.                                                            *)

Busy(c) == open[c].pc \in {"body", "waiting"}

\* Where each event is: admitted once, then open, called and stored in turn.
EventsFit ==
  /\ open = [c \in Clients |-> open[c]]
  /\ DOMAIN calls \subseteq 1..Len(admitted) /\ stored \subseteq 1..Len(admitted)
  /\ \A c \in Clients :
       /\ open[c].pc \in {"idle", "body", "waiting"}
       /\ Busy(c) => open[c].event \in 1..Len(admitted)
       /\ open[c].pc = "body" => open[c].event \notin DOMAIN calls \cup stored
       /\ open[c].pc = "waiting" => open[c].event \in DOMAIN calls
  /\ \A c, d \in Clients : Busy(c) /\ Busy(d) /\ open[c].event = open[d].event => c = d
  /\ \A e \in DOMAIN calls : /\ calls[e].pc = "accepted" => e \in stored
                             /\ calls[e].pc \in {"sent", "quiet"} => e \notin stored

\* What was told refused is nowhere any more.
AnswerFits ==
  /\ answer.text = "received" => answer.event \in stored
  /\ answer.text = "refused" =>
       /\ answer.event \in 0..Len(admitted)
       /\ answer.event \notin DOMAIN calls \cup stored
       /\ \A c \in Clients : Busy(c) => open[c].event # answer.event

AnswerInv == EventsFit /\ AnswerFits

-----------------------------------------------------------------------------
(* What is left of a key's times.                                          *)

LEMMA LeastElement ==
  ASSUME NEW T \in SUBSET Nat, T # {}
  PROVE  \E x \in T : \A y \in T : x <= y
<1>1. PICK x \in T : \A y \in T : ~(<<y, x>> \in OpToRel(<, Nat))
  BY WFMin, NatLessThanWellFounded
<1>2. \A y \in T : ~(y < x)
  BY <1>1 DEF OpToRel
<1>. QED  BY <1>2

\* What is live is a tail: all but the first d.
LEMMA LiveIsTail ==
  ASSUME NEW times \in Seq(Nat), Ascending(times), NEW t \in Nat
  PROVE  \E d \in 0..Len(times) :
           /\ \A i \in 1..Len(times) : i > d <=> t - times[i] < Window
           /\ Live(times, t) \in Seq(Nat) /\ Len(Live(times, t)) = Len(times) - d
           /\ \A i \in 1..Len(times) - d : Live(times, t)[i] = times[i + d]
<1>. DEFINE late(i) == t - times[i] < Window
            T == {i \in 1..Len(times) + 1 : i = Len(times) + 1 \/ late(i)}
<1>1. PICK n \in T : \A i \in T : n <= i
  <2>1. Len(times) + 1 \in T /\ T \subseteq Nat
    OBVIOUS
  <2>. QED  BY <2>1, LeastElement
<1>. DEFINE d == n - 1
<1>2. d \in 0..Len(times) /\ d + 1 = n
  BY <1>1
<1>3. \A i \in 1..Len(times) : i > d <=> late(i)
  <2>1. ASSUME NEW i \in 1..Len(times), i > d PROVE late(i)
    <3>1. n \in 1..Len(times) /\ late(n) /\ n <= i
      BY <1>1, <1>2, <2>1
    <3>2. times[n] <= times[i] /\ times[n] \in Nat /\ times[i] \in Nat
      BY <3>1 DEF Ascending
    <3>3. Window \in Nat
      BY ReportingAssumption
    <3>4. \A x, y \in Nat : x <= y /\ t - x < Window => t - y < Window
      BY <3>3
    <3>. QED  BY <3>1, <3>2, <3>4
  <2>2. ASSUME NEW i \in 1..Len(times), late(i) PROVE i > d
    BY <1>1, <1>2, <2>2
  <2>. QED  BY <2>1, <2>2
<1>4. Live(times, t) = SubSeq(times, d + 1, Len(times))
  <2>1. {i \in DOMAIN times : t - times[i] >= Window} = 1..d
    <3>1. \A i \in 1..Len(times) : (t - times[i] >= Window) <=> ~late(i)
      BY ReportingAssumption
    <3>2. \A i \in 1..Len(times) : (t - times[i] >= Window) <=> i <= d
      BY <1>2, <1>3, <3>1
    <3>. HIDE DEF d
    <3>. QED  BY <1>2, <3>2
  <2>2. Cardinality(1..d) = d
    BY <1>2, FS_Interval
  <2>. QED  BY <2>1, <2>2 DEF Live
<1>. HIDE DEF d
<1>5. LET left == SubSeq(times, d + 1, Len(times)) IN
        /\ left \in Seq(Nat) /\ Len(left) = Len(times) - d
        /\ \A i \in 1..Len(times) - d : left[i] = times[i + d]
  BY <1>2, SubSeqProperties
<1>. QED  BY <1>2, <1>3, <1>4, <1>5

\* Every live time of `old` has a place in `new`, d earlier ...
Keeps(old, new) ==
  \E d \in Nat : \A i \in 1..Len(old) :
    now - old[i] < Window => i - d \in 1..Len(new) /\ new[i - d] = old[i]

\* ... and before the place of a new time, which is now.
Grows(old, new) ==
  \E p \in 1..Len(new) : \E d \in Nat :
    /\ new[p] = now
    /\ \A i \in 1..Len(old) : now - old[i] < Window => i - d \in 1..p - 1 /\ new[i - d] = old[i]

LEMMA KeepsSame ==
  ASSUME NEW old \in Seq(Nat) PROVE Keeps(old, old)
<1>1. 0 \in Nat /\ \A i \in 1..Len(old) : i - 0 = i
  OBVIOUS
<1>. QED  BY <1>1 DEF Keeps

LEMMA KeepsKeeps ==
  ASSUME NEW a \in Seq(Nat), NEW b \in Seq(Nat), NEW c \in Seq(Nat), Keeps(a, b), Keeps(b, c)
  PROVE  Keeps(a, c)
<1>1. PICK d \in Nat : \A i \in 1..Len(a) :
        now - a[i] < Window => i - d \in 1..Len(b) /\ b[i - d] = a[i]
  BY DEF Keeps
<1>2. PICK e \in Nat : \A i \in 1..Len(b) :
        now - b[i] < Window => i - e \in 1..Len(c) /\ c[i - e] = b[i]
  BY DEF Keeps
<1>3. \A i \in 1..Len(a) :
        now - a[i] < Window => i - (d + e) \in 1..Len(c) /\ c[i - (d + e)] = a[i]
  <2>. SUFFICES ASSUME NEW i \in 1..Len(a), now - a[i] < Window
                PROVE  i - (d + e) \in 1..Len(c) /\ c[i - (d + e)] = a[i]
    OBVIOUS
  <2>1. i - d \in 1..Len(b) /\ b[i - d] = a[i]
    BY <1>1
  <2>2. (i - d) - e \in 1..Len(c) /\ c[(i - d) - e] = b[i - d]
    BY <1>2, <2>1
  <2>3. (i - d) - e = i - (d + e)
    OBVIOUS
  <2>. QED  BY <2>1, <2>2, <2>3
<1>. DEFINE f == d + e
<1>4. f \in Nat
  OBVIOUS
<1>5. \A i \in 1..Len(a) : now - a[i] < Window => i - f \in 1..Len(c) /\ c[i - f] = a[i]
  BY <1>3 DEF f
<1>. HIDE DEF f
<1>. QED  BY <1>4, <1>5 DEF Keeps

LEMMA KeepsGrows ==
  ASSUME NEW a \in Seq(Nat), NEW b \in Seq(Nat), NEW c \in Seq(Nat), Keeps(a, b), Grows(b, c)
  PROVE  Grows(a, c)
<1>1. PICK d \in Nat : \A i \in 1..Len(a) :
        now - a[i] < Window => i - d \in 1..Len(b) /\ b[i - d] = a[i]
  BY DEF Keeps
<1>2. PICK p \in 1..Len(c), e \in Nat :
        /\ c[p] = now
        /\ \A i \in 1..Len(b) : now - b[i] < Window => i - e \in 1..p - 1 /\ c[i - e] = b[i]
  BY DEF Grows
<1>. DEFINE f == d + e
<1>3. f \in Nat
  OBVIOUS
<1>4. \A i \in 1..Len(a) : now - a[i] < Window => i - f \in 1..p - 1 /\ c[i - f] = a[i]
  <2>. SUFFICES ASSUME NEW i \in 1..Len(a), now - a[i] < Window
                PROVE  i - f \in 1..p - 1 /\ c[i - f] = a[i]
    OBVIOUS
  <2>1. i - d \in 1..Len(b) /\ b[i - d] = a[i]
    BY <1>1
  <2>2. (i - d) - e \in 1..p - 1 /\ c[(i - d) - e] = b[i - d]
    BY <1>2, <2>1
  <2>3. (i - d) - e = i - f
    OBVIOUS
  <2>. QED  BY <2>1, <2>2, <2>3
<1>. HIDE DEF f
<1>. QED  BY <1>2, <1>3, <1>4 DEF Grows

LEMMA GrowsKeeps ==
  ASSUME now \in Nat, NEW a \in Seq(Nat), NEW b \in Seq(Nat), NEW c \in Seq(Nat),
         Grows(a, b), Keeps(b, c)
  PROVE  Grows(a, c)
<1>1. PICK p \in 1..Len(b), d \in Nat :
        /\ b[p] = now
        /\ \A i \in 1..Len(a) : now - a[i] < Window => i - d \in 1..p - 1 /\ b[i - d] = a[i]
  BY DEF Grows
<1>2. PICK e \in Nat : \A i \in 1..Len(b) :
        now - b[i] < Window => i - e \in 1..Len(c) /\ c[i - e] = b[i]
  BY DEF Keeps
<1>. DEFINE f == d + e
            q == p - e
<1>3. f \in Nat
  OBVIOUS
<1>4. q \in 1..Len(c) /\ c[q] = now
  <2>1. now - b[p] < Window
    BY <1>1, ReportingAssumption
  <2>. QED  BY <1>1, <1>2, <2>1
<1>5. \A i \in 1..Len(a) : now - a[i] < Window => i - f \in 1..q - 1 /\ c[i - f] = a[i]
  <2>. SUFFICES ASSUME NEW i \in 1..Len(a), now - a[i] < Window
                PROVE  i - f \in 1..q - 1 /\ c[i - f] = a[i]
    OBVIOUS
  <2>1. i - d \in 1..p - 1 /\ i - d \in 1..Len(b) /\ b[i - d] = a[i]
    <3>1. i - d \in 1..p - 1 /\ b[i - d] = a[i]
      BY <1>1
    <3>2. p \in 1..Len(b) /\ Len(b) \in Nat
      OBVIOUS
    <3>. QED  BY <3>1, <3>2
  <2>2. (i - d) - e \in 1..Len(c) /\ c[(i - d) - e] = b[i - d]
    BY <1>2, <2>1
  <2>3. (i - d) - e = i - f /\ i - f <= q - 1
    BY <2>1
  <2>. QED  BY <2>1, <2>2, <2>3
<1>. HIDE DEF f, q
<1>. QED  BY <1>3, <1>4, <1>5 DEF Grows

LEMMA GrowsIsKeeping ==
  ASSUME NEW a \in Seq(Nat), NEW b \in Seq(Nat), Grows(a, b) PROVE Keeps(a, b)
<1>1. PICK p \in 1..Len(b), d \in Nat :
        \A i \in 1..Len(a) : now - a[i] < Window => i - d \in 1..p - 1 /\ b[i - d] = a[i]
  BY DEF Grows
<1>2. 1..p - 1 \subseteq 1..Len(b)
  OBVIOUS
<1>. QED  BY <1>1, <1>2 DEF Keeps

LEMMA LimitIsNat ==
  ASSUME NEW b \in Budgets PROVE LimitOf(b) \in Nat \ {0}
BY ReportingAssumption DEF Budgets, LimitOf

\* The tail keeps what is live, and one more time makes it grow.
LEMMA LiveKeeps ==
  ASSUME now \in Nat, NEW key, NEW times, WellKept(times, key)
  PROVE  WellKept(Live(times, now), key) /\ Keeps(times, Live(times, now))
<1>. DEFINE left == Live(times, now)
<1>1. PICK d \in 0..Len(times) :
        /\ \A i \in 1..Len(times) : i > d <=> now - times[i] < Window
        /\ left \in Seq(Nat) /\ Len(left) = Len(times) - d
        /\ \A i \in 1..Len(times) - d : left[i] = times[i + d]
  BY LiveIsTail DEF WellKept
<1>. HIDE DEF left
<1>2. \E b \in Budgets : Key(b) = key /\ Len(left) <= LimitOf(b)
  <2>1. PICK b \in Budgets : Key(b) = key /\ Len(times) <= LimitOf(b)
    BY DEF WellKept
  <2>2. Len(left) <= Len(times) /\ times \in Seq(Nat) /\ LimitOf(b) \in Nat
    BY <1>1, LimitIsNat DEF WellKept
  <2>3. Len(left) <= LimitOf(b)
    BY <1>1, <2>1, <2>2
  <2>. QED  BY <2>1, <2>3
<1>3. \A i \in 1..Len(left) : i + d \in 1..Len(times) /\ left[i] = times[i + d]
  BY <1>1
<1>4. Ascending(left) /\ \A i \in 1..Len(left) : left[i] <= now
  <2>1. Ascending(times) /\ \A i \in 1..Len(times) : times[i] <= now
    BY DEF WellKept
  <2>2. \A i \in 1..Len(left) : left[i] <= now
    BY <1>3, <2>1
  <2>3. \A i, j \in 1..Len(left) : i <= j => left[i] <= left[j]
    <3>. SUFFICES ASSUME NEW i \in 1..Len(left), NEW j \in 1..Len(left), i <= j
                  PROVE  left[i] <= left[j]
      OBVIOUS
    <3>1. i + d \in 1..Len(times) /\ j + d \in 1..Len(times) /\ i + d <= j + d
      BY <1>1, <1>3
    <3>2. times[i + d] <= times[j + d]
      BY <2>1, <3>1 DEF Ascending
    <3>. QED  BY <1>3, <3>2
  <2>. QED  BY <2>2, <2>3 DEF Ascending
<1>5. Keeps(times, left)
  <2>1. \A i \in 1..Len(times) : now - times[i] < Window
          => i - d \in 1..Len(left) /\ left[i - d] = times[i]
    <3>. SUFFICES ASSUME NEW i \in 1..Len(times), now - times[i] < Window
                  PROVE  i - d \in 1..Len(left) /\ left[i - d] = times[i]
      OBVIOUS
    <3>1. i - d \in 1..Len(left) /\ (i - d) + d = i
      BY <1>1
    <3>. QED  BY <1>3, <3>1
  <2>2. d \in Nat
    OBVIOUS
  <2>. QED  BY <2>1, <2>2 DEF Keeps
<1>. QED  BY <1>1, <1>2, <1>4, <1>5 DEF WellKept, left

LEMMA AppendGrows ==
  ASSUME now \in Nat, NEW b \in Budgets, NEW times, WellKept(times, Key(b)),
         Len(times) < LimitOf(b)
  PROVE  /\ WellKept(Append(times, now), Key(b)) /\ Grows(times, Append(times, now))
         /\ Len(Append(times, now)) <= LimitOf(b)
<1>. DEFINE new == Append(times, now)
<1>1. times \in Seq(Nat) /\ Ascending(times) /\ \A i \in 1..Len(times) : times[i] <= now
  BY DEF WellKept
<1>2. /\ new \in Seq(Nat) /\ Len(new) = Len(times) + 1 /\ new[Len(new)] = now
      /\ \A i \in 1..Len(times) : new[i] = times[i]
  BY <1>1
<1>. HIDE DEF new
<1>3. Len(new) <= LimitOf(b)
  BY <1>1, <1>2, LimitIsNat
<1>4. \A i \in 1..Len(new) : new[i] <= now
  <2>. SUFFICES ASSUME NEW i \in 1..Len(new) PROVE new[i] <= now
    OBVIOUS
  <2>1. CASE i = Len(new)
    BY <1>2, <2>1
  <2>2. CASE i # Len(new)
    <3>1. i \in 1..Len(times)
      BY <1>1, <1>2, <2>2
    <3>. QED  BY <1>1, <1>2, <3>1
  <2>. QED  BY <2>1, <2>2
<1>5. Ascending(new)
  <2>. SUFFICES ASSUME NEW i \in 1..Len(new), NEW j \in 1..Len(new), i <= j
                PROVE  new[i] <= new[j]
    BY DEF Ascending
  <2>1. CASE j = Len(new)
    BY <1>2, <1>4, <2>1
  <2>2. CASE j # Len(new)
    <3>1. i \in 1..Len(times) /\ j \in 1..Len(times)
      BY <1>1, <1>2, <2>2
    <3>. QED  BY <1>1, <1>2, <3>1 DEF Ascending
  <2>. QED  BY <2>1, <2>2
<1>6. Grows(times, new)
  <2>1. \A i \in 1..Len(times) : i - 0 \in 1..Len(new) - 1 /\ new[i - 0] = times[i]
    BY <1>1, <1>2
  <2>2. Len(new) \in 1..Len(new) /\ 0 \in Nat
    BY <1>1, <1>2
  <2>. QED  BY <1>2, <2>1, <2>2 DEF Grows
<1>. QED  BY <1>2, <1>3, <1>4, <1>5, <1>6 DEF WellKept, new

-----------------------------------------------------------------------------
(* Take: what it does to the times of every key.                           *)

LEMMA TimesFit ==
  ASSUME NEW table, TableFits(table), NEW key
  PROVE  /\ Times(table, key) \in Seq(Nat)
         /\ key \in Keys /\ now \in Nat => WellKept(Times(table, key), key)
<1>1. CASE key \in DOMAIN table
  BY <1>1 DEF Times, TableFits, WellKept
<1>2. CASE key \notin DOMAIN table
  <2>1. Times(table, key) = <<>> /\ <<>> \in Seq(Nat) /\ Len(<<>>) = 0
    BY <1>2 DEF Times
  <2>2. ASSUME key \in Keys PROVE WellKept(<<>>, key)
    <3>1. PICK b \in Budgets : Key(b) = key
      BY <2>2 DEF Keys
    <3>. QED  BY <2>1, <3>1, LimitIsNat DEF WellKept, Ascending
  <2>. QED  BY <2>1, <2>2
<1>. QED  BY <1>1, <1>2

LEMMA PruneKeeps ==
  ASSUME now \in Nat, NEW table, TableFits(table)
  PROVE  /\ TableFits(Prune(table, now))
         /\ \A k : Keeps(Times(table, k), Times(Prune(table, now), k))
<1>. DEFINE known == Prune(table, now)
<1>1. \A k \in DOMAIN table : /\ WellKept(Live(table[k], now), k)
                              /\ Keeps(table[k], Live(table[k], now))
  BY LiveKeeps DEF TableFits
<1>2. /\ DOMAIN known \subseteq DOMAIN table
      /\ \A k \in DOMAIN known : known[k] = Live(table[k], now)
      /\ \A k \in DOMAIN table \ DOMAIN known : Live(table[k], now) = <<>>
  BY DEF Prune
<1>. HIDE DEF known
<1>3. TableFits(known)
  BY <1>1, <1>2 DEF TableFits
<1>4. ASSUME NEW k PROVE Keeps(Times(table, k), Times(known, k))
  <2>1. CASE k \in DOMAIN table
    BY <1>1, <1>2, <2>1 DEF Times
  <2>2. CASE k \notin DOMAIN table
    <3>1. Times(table, k) = <<>> /\ Times(known, k) = <<>>
      BY <1>2, <2>2 DEF Times
    <3>2. Keeps(<<>>, <<>>)
      <4>1. <<>> \in Seq(Nat)
        OBVIOUS
      <4>. QED  BY <4>1, KeepsSame
    <3>. QED  BY <3>1, <3>2
  <2>. QED  BY <2>1, <2>2
<1>. QED  BY <1>3, <1>4 DEF known

LEMMA TakeKeeps ==
  ASSUME now \in Nat, NEW table, TableFits(table), NEW b \in Budgets,
         NEW take, take = TakeOf(table, b, now)
  PROVE  /\ TableFits(take.hits)
         /\ \A k : Keeps(Times(table, k), Times(take.hits, k))
         /\ take.ok => /\ Grows(Times(table, Key(b)), Times(take.hits, Key(b)))
                       /\ Len(Times(take.hits, Key(b))) <= LimitOf(b)
<1>. DEFINE key   == Key(b)
            known == IF Cardinality(DOMAIN table) > MaxKeys THEN Prune(table, now) ELSE table
            times == IF key \in DOMAIN known THEN Live(known[key], now) ELSE <<>>
            ok    == Len(times) < LimitOf(b)
            kept  == IF ok THEN Append(times, now) ELSE times
            new   == [k \in DOMAIN known \cup {key} |-> IF k = key THEN kept ELSE known[k]]
<1>1. take.hits = new /\ take.ok = ok
  BY DEF Take, TakeOf
<1>0. key \in Keys
  BY DEF Keys
<1>2. TableFits(known) /\ \A k : Keeps(Times(table, k), Times(known, k))
  <2>1. CASE Cardinality(DOMAIN table) > MaxKeys
    BY <2>1, PruneKeeps
  <2>2. CASE ~(Cardinality(DOMAIN table) > MaxKeys)
    BY <2>2, KeepsSame, TimesFit
  <2>. QED  BY <2>1, <2>2
<1>. HIDE DEF known
<1>3. WellKept(times, key) /\ Keeps(Times(known, key), times)
  <2>1. CASE key \in DOMAIN known
    BY <1>2, <2>1, LiveKeeps DEF TableFits, Times
  <2>2. CASE key \notin DOMAIN known
    <3>1. Times(known, key) = <<>> /\ times = <<>>
      BY <2>2 DEF Times
    <3>. HIDE DEF key
    <3>. QED  BY <1>0, <1>2, <3>1, TimesFit, KeepsSame
  <2>. QED  BY <2>1, <2>2
<1>. HIDE DEF times
<1>4. /\ WellKept(kept, key) /\ Keeps(times, kept)
      /\ ok => Grows(times, kept) /\ Len(kept) <= LimitOf(b)
  <2>1. times \in Seq(Nat)
    BY <1>3 DEF WellKept
  <2>2. CASE ok
    <3>1. WellKept(kept, key) /\ Grows(times, kept) /\ Len(kept) <= LimitOf(b)
      BY <1>3, <2>2, AppendGrows
    <3>2. kept \in Seq(Nat)
      BY <3>1 DEF WellKept
    <3>. QED  BY <2>1, <3>1, <3>2, GrowsIsKeeping
  <2>3. CASE ~ok
    BY <1>3, <2>1, <2>3, KeepsSame
  <2>. QED  BY <2>2, <2>3
<1>. HIDE DEF ok, kept, key
<1>5. TableFits(new)
  BY <1>2, <1>4 DEF TableFits
<1>6. Times(new, key) = kept /\ \A k : k # key => Times(new, k) = Times(known, k)
  BY DEF Times
<1>. HIDE DEF new
<1>7. /\ Times(table, key) \in Seq(Nat) /\ Times(known, key) \in Seq(Nat)
      /\ times \in Seq(Nat) /\ kept \in Seq(Nat)
  BY <1>2, <1>3, <1>4, TimesFit DEF WellKept
<1>8. Keeps(Times(table, key), times)
  BY <1>2, <1>3, <1>7, KeepsKeeps
<1>9. ok => Grows(Times(table, key), kept)
  BY <1>4, <1>7, <1>8, KeepsGrows
<1>10. ASSUME NEW k PROVE Keeps(Times(table, k), Times(new, k))
  <2>1. CASE k = key
    BY <1>4, <1>6, <1>7, <1>8, <2>1, KeepsKeeps
  <2>2. CASE k # key
    BY <1>2, <1>6, <2>2
  <2>. QED  BY <2>1, <2>2
<1>. QED  BY <1>1, <1>4, <1>5, <1>6, <1>9, <1>10 DEF key

-----------------------------------------------------------------------------
(* The places of recent admissions.                                        *)

LEMMA UpTo ==
  ASSUME NEW n \in Nat PROVE IsFiniteSet(1..n) /\ Cardinality(1..n) = n
BY FS_Interval

LEMMA PlacesBound ==
  ASSUME NEW R, NEW of, NEW times \in Seq(Nat), NEW f \in PlacesIn(R, of, times)
  PROVE  IsFiniteSet(R) /\ Cardinality(R) <= Len(times)
<1>1. Len(times) \in Nat /\ f \in Injection(R, 1..Len(times))
  BY DEF PlacesIn
<1>2. IsFiniteSet(1..Len(times)) /\ Cardinality(1..Len(times)) = Len(times)
  BY <1>1, UpTo
<1>3. IsFiniteSet(R) /\ Cardinality(R) <= Cardinality(1..Len(times))
  BY <1>1, <1>2, FS_Injection
<1>. QED  BY <1>2, <1>3

LEMMA PlacesShrink ==
  ASSUME NEW R, NEW Q \in SUBSET R, NEW of, NEW times, NEW f \in PlacesIn(R, of, times)
  PROVE  [n \in Q |-> f[n]] \in PlacesIn(Q, of, times)
BY DEF PlacesIn, Injection, IsInjective

LEMMA PlacesKept ==
  ASSUME NEW R, NEW of, NEW old \in Seq(Nat), NEW new \in Seq(Nat),
         NEW f \in PlacesIn(R, of, old), \A n \in R : now - of[n].at < Window, Keeps(old, new)
  PROVE  \E g : g \in PlacesIn(R, of, new)
<1>1. PICK d \in Nat : \A i \in 1..Len(old) :
        now - old[i] < Window => i - d \in 1..Len(new) /\ new[i - d] = old[i]
  BY DEF Keeps
<1>2. /\ \A n \in R : f[n] \in 1..Len(old) /\ old[f[n]] = of[n].at
      /\ \A i, j \in R : f[i] = f[j] => i = j
  BY DEF PlacesIn, Injection, IsInjective
<1>. DEFINE g == [n \in R |-> f[n] - d]
<1>3. ASSUME NEW n \in R PROVE g[n] = f[n] - d /\ g[n] \in 1..Len(new) /\ new[g[n]] = of[n].at
  <2>1. f[n] \in 1..Len(old) /\ old[f[n]] = of[n].at /\ now - of[n].at < Window
    BY <1>2
  <2>2. f[n] - d \in 1..Len(new) /\ new[f[n] - d] = old[f[n]]
    BY <1>1, <2>1
  <2>. QED  BY <2>1, <2>2
<1>4. \A i, j \in R : g[i] = g[j] => i = j
  <2>1. \A n \in R : g[n] = f[n] - d /\ f[n] \in Int
    BY <1>2, <1>3
  <2>. HIDE DEF g
  <2>2. \A i, j \in R : g[i] = g[j] => f[i] = f[j]
    BY <2>1
  <2>. QED  BY <1>2, <2>2
<1>5. g = [n \in R |-> g[n]]
  OBVIOUS
<1>. HIDE DEF g
<1>6. g \in PlacesIn(R, of, new)
  BY <1>3, <1>4, <1>5 DEF PlacesIn, Injection, IsInjective
<1>. QED  BY <1>6

LEMMA PlacesGrow ==
  ASSUME NEW R, NEW m, m \notin R, NEW of, of[m].at = now,
         NEW old \in Seq(Nat), NEW new \in Seq(Nat),
         NEW f \in PlacesIn(R, of, old), \A n \in R : now - of[n].at < Window, Grows(old, new)
  PROVE  \E g : g \in PlacesIn(R \cup {m}, of, new)
<1>1. PICK p \in 1..Len(new), d \in Nat :
        /\ new[p] = now
        /\ \A i \in 1..Len(old) : now - old[i] < Window => i - d \in 1..p - 1 /\ new[i - d] = old[i]
  BY DEF Grows
<1>2. /\ \A n \in R : f[n] \in 1..Len(old) /\ old[f[n]] = of[n].at
      /\ \A i, j \in R : f[i] = f[j] => i = j
  BY DEF PlacesIn, Injection, IsInjective
<1>. DEFINE g == [n \in R \cup {m} |-> IF n = m THEN p ELSE f[n] - d]
<1>3. /\ g[m] = p
      /\ \A n \in R : f[n] \in Int /\ g[n] = f[n] - d /\ g[n] \in 1..p - 1 /\ new[g[n]] = of[n].at
  <2>. SUFFICES ASSUME NEW n \in R
                PROVE  f[n] \in Int /\ g[n] = f[n] - d /\ g[n] \in 1..p - 1 /\ new[g[n]] = of[n].at
    OBVIOUS
  <2>1. f[n] \in 1..Len(old) /\ old[f[n]] = of[n].at /\ now - of[n].at < Window
    BY <1>2
  <2>2. f[n] - d \in 1..p - 1 /\ new[f[n] - d] = old[f[n]]
    BY <1>1, <2>1
  <2>3. n # m /\ n \in R \cup {m}
    OBVIOUS
  <2>4. g[n] = f[n] - d
    BY <2>3
  <2>. HIDE DEF g
  <2>. QED  BY <2>1, <2>2, <2>4
<1>4. \A i, j \in R \cup {m} : g[i] = g[j] => i = j
  <2>. HIDE DEF g
  <2>1. \A i, j \in R : g[i] = g[j] => i = j
    <3>1. \A n \in R : f[n] \in Int /\ g[n] = f[n] - d
      BY <1>3
    <3>2. \A i, j \in R : g[i] = g[j] => f[i] = f[j]
      BY <3>1
    <3>. QED  BY <1>2, <3>2
  <2>2. \A n \in R : g[n] # p
    BY <1>3
  <2>. QED  BY <1>3, <2>1, <2>2
<1>5. g = [n \in R \cup {m} |-> g[n]]
  OBVIOUS
<1>. HIDE DEF g
<1>6. \A n \in R \cup {m} : g[n] \in 1..Len(new) /\ new[g[n]] = of[n].at
  <2>1. 1..p - 1 \subseteq 1..Len(new)
    OBVIOUS
  <2>. QED  BY <1>1, <1>3, <2>1
<1>7. g \in PlacesIn(R \cup {m}, of, new)
  BY <1>4, <1>5, <1>6 DEF PlacesIn, Injection, IsInjective
<1>. QED  BY <1>7

-----------------------------------------------------------------------------
(* The limiter's invariant through a step.                                 *)

LEMMA PlacesSame ==
  ASSUME NEW R, NEW of, NEW to, \A n \in R : of[n].at = to[n].at, NEW times
  PROVE  PlacesIn(R, of, times) = PlacesIn(R, to, times)
BY DEF PlacesIn

LEMMA AdmissionTimes ==
  ASSUME NEW of \in Seq(Admission) PROVE \A n \in 1..Len(of) : of[n].at \in Nat
<1>1. \A n \in 1..Len(of) : of[n] \in Admission
  OBVIOUS
<1>. QED  BY <1>1 DEF Admission

\* The recent admissions of a budget that has places for them all.
LEMMA RecentBounded ==
  ASSUME LimiterTypes', NEW b \in Budgets, NEW times \in Seq(Nat), Len(times) <= LimitOf(b),
         NEW f \in PlacesIn(Recent(b)', admitted', times), NEW t \in 0..now', now' < t + Window
  PROVE  Cardinality(InWindow(b, t)') <= LimitOf(b)
<1>. DEFINE R == Recent(b)'
<1>1. InWindow(b, t)' \in SUBSET R
  <2>1. now' \in Nat /\ Window \in Nat /\ \A n \in 1..Len(admitted') : admitted'[n].at \in Nat
    BY ReportingAssumption, AdmissionTimes DEF LimiterTypes
  <2>2. \A n \in 1..Len(admitted') :
          admitted'[n].at \in t..(t + Window - 1) => now' - admitted'[n].at < Window
    BY <2>1
  <2>. QED  BY <2>2 DEF InWindow, Recent
<1>. HIDE DEF R
<1>2. IsFiniteSet(R) /\ Cardinality(R) <= Len(times)
  BY PlacesBound DEF R
<1>3. Cardinality(InWindow(b, t)') <= Cardinality(R) /\ IsFiniteSet(InWindow(b, t)')
  BY <1>1, <1>2, FS_Subset
<1>4. /\ Cardinality(R) \in Nat /\ Cardinality(InWindow(b, t)') \in Nat
      /\ LimitOf(b) \in Nat /\ Len(times) \in Nat
  BY <1>2, <1>3, FS_CardinalityType, LimitIsNat
<1>. QED  BY <1>2, <1>3, <1>4

LEMMA RefusalKeeps ==
  ASSUME LimiterInv, now' = now, admitted' = admitted, TableFits(hits'),
         \A key : Keeps(Times(hits, key), Times(hits', key))
  PROVE  LimiterInv'
<1>1. LimiterTypes'
  BY DEF LimiterInv, LimiterTypes, TableFits, WellKept
<1>2. ASSUME NEW b \in Budgets PROVE HasPlaces(b)'
  <2>. DEFINE key == Key(b)
  <2>1. PICK f : f \in PlacesIn(Recent(b), admitted, Times(hits, key))
    BY DEF LimiterInv, HasPlaces
  <2>2. Times(hits, key) \in Seq(Nat) /\ Times(hits', key) \in Seq(Nat)
    BY TimesFit DEF LimiterInv, LimiterTypes
  <2>3. \A n \in Recent(b) : now - admitted[n].at < Window
    BY DEF Recent
  <2>4. \E g : g \in PlacesIn(Recent(b), admitted, Times(hits', key))
    <3>. HIDE DEF key
    <3>. QED  BY <2>1, <2>2, <2>3, PlacesKept
  <2>5. Recent(b)' = Recent(b) /\ Times(hits, key)' = Times(hits', key)
    BY DEF Recent, Counts, Times
  <2>. QED  BY <2>4, <2>5 DEF HasPlaces
<1>3. BudgetsKept'
  BY DEF LimiterInv, BudgetsKept, InWindow, Counts
<1>. QED  BY <1>1, <1>2, <1>3 DEF LimiterInv

\* The times that the admission itself leaves are within its limit; what comes
\* after it in the same step may share the key, and add to them.
LEMMA AdmissionKeeps ==
  ASSUME LimiterInv, now' = now, TableFits(hits'),
         \A key : Keeps(Times(hits, key), Times(hits', key)),
         NEW a \in Admission, a.at = now, admitted' = Append(admitted, a),
         \A b \in Budgets : Counts(a, b) =>
           /\ Grows(Times(hits, Key(b)), Times(hits', Key(b)))
           /\ \E times \in Seq(Nat) : Len(times) <= LimitOf(b) /\ Grows(Times(hits, Key(b)), times)
  PROVE  LimiterInv'
<1>. DEFINE m == Len(admitted) + 1
<1>1. /\ admitted \in Seq(Admission) /\ admitted' \in Seq(Admission) /\ now \in Nat
      /\ Len(admitted') = m /\ m \in Nat /\ admitted'[m] = a /\ m \notin 1..Len(admitted)
      /\ \A n \in 1..Len(admitted) : admitted'[n] = admitted[n]
      /\ 1..Len(admitted') = 1..Len(admitted) \cup {m}
  BY DEF LimiterInv, LimiterTypes
<1>. HIDE DEF m
<1>2. LimiterTypes'
  <2>1. TableFits(hits)'
    BY DEF TableFits, WellKept
  <2>2. \A n \in 1..Len(admitted') : admitted'[n].at <= now
    BY <1>1 DEF LimiterInv, LimiterTypes
  <2>. QED  BY <1>1, <2>1, <2>2 DEF LimiterTypes
<1>3. ASSUME NEW b \in Budgets
      PROVE  /\ HasPlaces(b)'
             /\ Counts(a, b) => \E times \in Seq(Nat) :
                                  /\ Len(times) <= LimitOf(b)
                                  /\ \E g : g \in PlacesIn(Recent(b)', admitted', times)
  <2>. DEFINE R == Recent(b)
              old == Times(hits, Key(b))
              new == Times(hits', Key(b))
  <2>1. PICK f : f \in PlacesIn(R, admitted, old)
    BY DEF LimiterInv, HasPlaces
  <2>2. old \in Seq(Nat) /\ new \in Seq(Nat) /\ Times(hits, Key(b))' = new
    <3>1. Times(hits, Key(b))' = new
      BY DEF Times
    <3>. QED  BY <3>1, TimesFit DEF LimiterInv, LimiterTypes
  <2>3. R \subseteq 1..Len(admitted) /\ \A n \in R : now - admitted'[n].at < Window
    BY <1>1 DEF Recent
  <2>4. f \in PlacesIn(R, admitted', old)
    <3>1. \A n \in R : admitted[n].at = admitted'[n].at
      BY <1>1, <2>3
    <3>. HIDE DEF R, old
    <3>. QED  BY <2>1, <3>1, PlacesSame
  <2>5. Recent(b)' = IF Counts(a, b) THEN R \cup {m} ELSE R
    <3>1. now - a.at < Window
      BY <1>1, ReportingAssumption
    <3>. QED  BY <1>1, <3>1 DEF Recent, Counts
  <2>. HIDE DEF R, old, new
  <2>6. CASE Counts(a, b)
    <3>1. Grows(old, new) /\ m \notin R /\ admitted'[m].at = now
      BY <1>1, <2>3, <2>6 DEF old, new
    <3>2. \A times \in Seq(Nat) :
            Grows(old, times) => \E g : g \in PlacesIn(R \cup {m}, admitted', times)
      BY <2>2, <2>3, <2>4, <3>1, PlacesGrow
    <3>3. PICK times \in Seq(Nat) : Len(times) <= LimitOf(b) /\ Grows(old, times)
      BY <2>6 DEF old
    <3>4. Recent(b)' = R \cup {m}
      BY <2>5, <2>6
    <3>5. HasPlaces(b)'
      BY <2>2, <3>1, <3>2, <3>4 DEF HasPlaces
    <3>. QED  BY <3>2, <3>3, <3>4, <3>5
  <2>7. CASE ~Counts(a, b)
    <3>1. Keeps(old, new)
      BY DEF old, new
    <3>2. \E g : g \in PlacesIn(R, admitted', new)
      BY <2>2, <2>3, <2>4, <3>1, PlacesKept
    <3>. QED  BY <2>2, <2>5, <2>7, <3>2 DEF HasPlaces
  <2>. QED  BY <2>6, <2>7
<1>4. BudgetsKept'
  <2>. SUFFICES ASSUME NEW b \in Budgets, NEW t \in 0..now
                PROVE  Cardinality(InWindow(b, t)') <= LimitOf(b)
    BY DEF BudgetsKept, LimitOf
  <2>1. CASE Counts(a, b) /\ now < t + Window
    <3>1. PICK times \in Seq(Nat) : /\ Len(times) <= LimitOf(b)
                                    /\ \E g : g \in PlacesIn(Recent(b)', admitted', times)
      BY <1>3, <2>1
    <3>. QED  BY <1>2, <2>1, <3>1, RecentBounded
  <2>2. CASE ~(Counts(a, b) /\ now < t + Window)
    <3>1. ~Counts(a, b) \/ a.at \notin t..(t + Window - 1)
      BY <1>1, <2>2, ReportingAssumption
    <3>2. InWindow(b, t)' = InWindow(b, t)
      BY <1>1, <3>1 DEF InWindow, Counts
    <3>. QED  BY <3>2 DEF LimiterInv, BudgetsKept
  <2>. QED  BY <2>1, <2>2
<1>. QED  BY <1>2, <1>3, <1>4 DEF LimiterInv

LEMMA TickKeeps ==
  ASSUME LimiterInv, Tick
  PROVE  LimiterInv'
<1>1. now \in Nat /\ now' = now + 1 /\ hits' = hits /\ admitted' = admitted
  BY DEF LimiterInv, LimiterTypes, Tick
<1>2. \A n \in 1..Len(admitted) : admitted[n].at \in Nat /\ admitted[n].at <= now
  BY AdmissionTimes DEF LimiterInv, LimiterTypes
<1>3. LimiterTypes'
  <2>1. TableFits(hits)'
    <3>. SUFFICES ASSUME NEW key \in DOMAIN hits PROVE WellKept(hits[key], key)'
      BY <1>1 DEF TableFits
    <3>1. WellKept(hits[key], key)
      BY DEF LimiterInv, LimiterTypes, TableFits
    <3>2. hits[key] \in Seq(Nat) /\ \A i \in 1..Len(hits[key]) : hits[key][i] <= now
      BY <3>1 DEF WellKept
    <3>3. \A i \in 1..Len(hits[key]) : hits[key][i] <= now + 1
      BY <1>1, <3>2
    <3>. QED  BY <1>1, <3>1, <3>3 DEF WellKept
  <2>2. \A n \in 1..Len(admitted) : admitted[n].at <= now + 1
    BY <1>1, <1>2
  <2>. QED  BY <1>1, <2>1, <2>2 DEF LimiterInv, LimiterTypes
<1>4. ASSUME NEW b \in Budgets PROVE HasPlaces(b)'
  <2>1. PICK f : f \in PlacesIn(Recent(b), admitted, Times(hits, Key(b)))
    BY DEF LimiterInv, HasPlaces
  <2>2. Recent(b)' \in SUBSET Recent(b)
    BY <1>1, <1>2, ReportingAssumption DEF Recent, Counts
  <2>3. \E g : g \in PlacesIn(Recent(b)', admitted, Times(hits, Key(b)))
    BY <2>1, <2>2, PlacesShrink
  <2>. QED  BY <1>1, <2>3 DEF HasPlaces, Times
<1>5. BudgetsKept'
  <2>. SUFFICES ASSUME NEW b \in Budgets, NEW t \in 0..now + 1
                PROVE  Cardinality(InWindow(b, t)') <= LimitOf(b)
    BY <1>1 DEF BudgetsKept, LimitOf
  <2>1. InWindow(b, t)' = InWindow(b, t)
    BY <1>1 DEF InWindow, Counts
  <2>2. CASE t \in 0..now
    BY <2>1, <2>2 DEF LimiterInv, BudgetsKept
  <2>3. CASE t \notin 0..now
    <3>1. InWindow(b, t) = {}
      BY <1>1, <1>2, <2>3 DEF InWindow
    <3>. QED  BY <2>1, <3>1, FS_EmptySet, LimitIsNat
  <2>. QED  BY <2>2, <2>3
<1>. QED  BY <1>3, <1>4, <1>5 DEF LimiterInv

LEMMA AdmitKeeps ==
  ASSUME LimiterInv, now' = now,
         NEW c \in Clients, NEW route \in Routes, NEW request, Admit(c, route, request)
  PROVE  LimiterInv'
<1>. DEFINE my   == <<route, c>>
            ours == <<route, Everyone>>
            mine == TakeOf(hits, my, now)
            all  == TakeOf(mine.hits, ours, now)
<1>1. my \in Budgets /\ ours \in Budgets
  BY DEF Budgets
<1>2. now \in Nat /\ TableFits(hits)
  BY DEF LimiterInv, LimiterTypes
<1>3. /\ TableFits(mine.hits) /\ \A k : Keeps(Times(hits, k), Times(mine.hits, k))
      /\ mine.ok => /\ Grows(Times(hits, Key(my)), Times(mine.hits, Key(my)))
                    /\ Len(Times(mine.hits, Key(my))) <= LimitOf(my)
  <2>. HIDE DEF my
  <2>. QED  BY <1>1, <1>2, TakeKeeps
<1>4. /\ TableFits(all.hits) /\ \A k : Keeps(Times(mine.hits, k), Times(all.hits, k))
      /\ all.ok => /\ Grows(Times(mine.hits, Key(ours)), Times(all.hits, Key(ours)))
                   /\ Len(Times(all.hits, Key(ours))) <= LimitOf(ours)
  <2>. HIDE DEF mine, ours
  <2>. QED  BY <1>1, <1>2, <1>3, TakeKeeps
<1>5. \/ ~mine.ok /\ Refuse(c, mine)
      \/ mine.ok /\ ~all.ok /\ Refuse(c, all)
      \/ /\ mine.ok /\ all.ok /\ hits' = all.hits
         /\ admitted' = Append(admitted, [route |-> route, client |-> c, at |-> now])
  <2>1. Spend(hits, route, c, now) = IF mine.ok THEN all ELSE mine
    BY DEF Spend
  <2>. DEFINE spent == Spend(hits, route, c, now)
  <2>2. \/ ~spent.ok /\ Refuse(c, spent)
        \/ /\ spent.ok /\ hits' = spent.hits
           /\ admitted' = Append(admitted, [route |-> route, client |-> c, at |-> now])
    BY Zenon DEF Admit
  <2>. HIDE DEF mine, all, spent
  <2>. QED  BY <2>1, <2>2 DEF spent
<1>. HIDE DEF mine, all
<1>6. ASSUME NEW k
      PROVE  /\ Keeps(Times(hits, k), Times(all.hits, k))
             /\ Times(hits, k) \in Seq(Nat) /\ Times(mine.hits, k) \in Seq(Nat)
             /\ Times(all.hits, k) \in Seq(Nat)
  <2>1. /\ Times(hits, k) \in Seq(Nat) /\ Times(mine.hits, k) \in Seq(Nat)
        /\ Times(all.hits, k) \in Seq(Nat)
    BY <1>2, <1>3, <1>4, TimesFit
  <2>. QED  BY <1>3, <1>4, <2>1, KeepsKeeps
<1>7. CASE ~mine.ok /\ Refuse(c, mine)
  <2>1. hits' = mine.hits /\ admitted' = admitted
    BY <1>7 DEF Refuse
  <2>. QED  BY <1>3, <2>1, RefusalKeeps
<1>8. CASE mine.ok /\ ~all.ok /\ Refuse(c, all)
  <2>1. hits' = all.hits /\ admitted' = admitted
    BY <1>8 DEF Refuse
  <2>. QED  BY <1>4, <1>6, <2>1, RefusalKeeps
<1>9. ASSUME mine.ok, all.ok, hits' = all.hits,
             admitted' = Append(admitted, [route |-> route, client |-> c, at |-> now])
      PROVE  LimiterInv'
  <2>. DEFINE a == [route |-> route, client |-> c, at |-> now]
  <2>1. a \in Admission /\ a.at = now /\ a.route = route /\ a.client = c
    BY <1>2 DEF Admission
  <2>2. ASSUME NEW b \in Budgets, Counts(a, b) PROVE b = my \/ b = ours
    BY <2>1, <2>2 DEF Counts, Budgets
  <2>3. /\ Grows(Times(hits, Key(my)), Times(all.hits, Key(my)))
        /\ Grows(Times(hits, Key(my)), Times(mine.hits, Key(my)))
        /\ Len(Times(mine.hits, Key(my))) <= LimitOf(my)
    <3>. HIDE DEF my
    <3>. QED  BY <1>2, <1>3, <1>4, <1>6, <1>9, GrowsKeeps
  <2>4. /\ Grows(Times(hits, Key(ours)), Times(all.hits, Key(ours)))
        /\ Len(Times(all.hits, Key(ours))) <= LimitOf(ours)
    <3>. HIDE DEF ours
    <3>. QED  BY <1>3, <1>4, <1>6, <1>9, KeepsGrows
  <2>. HIDE DEF a, my, ours
  <2>5. ASSUME NEW b \in Budgets, Counts(a, b)
        PROVE  /\ Grows(Times(hits, Key(b)), Times(hits', Key(b)))
               /\ \E times \in Seq(Nat) : /\ Len(times) <= LimitOf(b)
                                          /\ Grows(Times(hits, Key(b)), times)
    <3>1. CASE b = my
      BY <1>6, <1>9, <2>3, <3>1
    <3>2. CASE b = ours
      BY <1>6, <1>9, <2>4, <3>2
    <3>. QED  BY <2>2, <2>5, <3>1, <3>2
  <2>6. TableFits(hits') /\ \A k : Keeps(Times(hits, k), Times(hits', k))
    BY <1>4, <1>6, <1>9
  <2>7. admitted' = Append(admitted, a)
    BY <1>9 DEF a
  <2>. QED  BY <2>1, <2>5, <2>6, <2>7, AdmissionKeeps
<1>. QED  BY <1>5, <1>7, <1>8, <1>9

LEMMA LimiterSame ==
  ASSUME LimiterInv, UNCHANGED <<now, hits, admitted>>
  PROVE  LimiterInv'
<1>1. LimiterTypes' /\ BudgetsKept'
  BY DEF LimiterInv, LimiterTypes, TableFits, WellKept, BudgetsKept, InWindow, Counts
<1>2. \A b \in Budgets : HasPlaces(b)'
  BY DEF LimiterInv, HasPlaces, Recent, Counts, Times
<1>. QED  BY <1>1, <1>2 DEF LimiterInv

LEMMA LimiterInit == Init => LimiterInv
<1>. SUFFICES ASSUME Init PROVE LimiterInv
  OBVIOUS
<1>1. now = 0 /\ hits = << >> /\ admitted = << >> /\ DOMAIN << >> = {}
  BY DEF Init
<1>2. LimiterTypes
  BY <1>1 DEF LimiterTypes, TableFits
<1>3. ASSUME NEW b \in Budgets PROVE HasPlaces(b)
  <2>1. Recent(b) = {}
    BY <1>1 DEF Recent
  <2>2. [n \in {} |-> 0] \in PlacesIn({}, admitted, Times(hits, Key(b)))
    BY DEF PlacesIn, Injection, IsInjective
  <2>. QED  BY <2>1, <2>2 DEF HasPlaces
<1>4. BudgetsKept
  <2>. SUFFICES ASSUME NEW b \in Budgets, NEW t \in 0..now
                PROVE  Cardinality(InWindow(b, t)) <= LimitOf(b)
    BY DEF BudgetsKept
  <2>1. InWindow(b, t) = {}
    BY <1>1 DEF InWindow
  <2>. QED  BY <2>1, FS_EmptySet, LimitIsNat
<1>. QED  BY <1>2, <1>3, <1>4 DEF LimiterInv

LEMMA LimiterNext == LimiterInv /\ [Next]_vars => LimiterInv'
<1>. SUFFICES ASSUME LimiterInv, [Next]_vars PROVE LimiterInv'
  OBVIOUS
<1>1. ASSUME NEW c \in Clients, NEW form, PostReport(c, form) PROVE LimiterInv'
  <2>1. CASE UNCHANGED <<now, hits, admitted>>
    BY <2>1, LimiterSame
  <2>2. CASE now' = now /\ \E request : Admit(c, "report", request)
    <3>1. "report" \in Routes
      BY DEF Routes
    <3>. QED  BY <2>2, <3>1, AdmitKeeps
  <2>. QED  BY <1>1, <2>1, <2>2 DEF PostReport
<1>2. ASSUME NEW c \in Clients, SendLogs(c) PROVE LimiterInv'
  <2>1. now' = now /\ \E request : Admit(c, "logs", request)
    BY <1>2 DEF SendLogs
  <2>2. "logs" \in Routes
    BY DEF Routes
  <2>. QED  BY <2>1, <2>2, AdmitKeeps
<1>3. ASSUME NEW c \in Clients, Relay(c) \/ Return(c) \/ GiveUp(c) PROVE LimiterInv'
  BY <1>3, LimiterSame DEF Relay, Return, GiveUp
<1>4. ASSUME NEW e, Decline(e) \/ Insert(e) PROVE LimiterInv'
  BY <1>4, LimiterSame DEF Decline, Insert
<1>5. CASE Tick
  BY <1>5, TickKeeps
<1>6. CASE UNCHANGED vars
  BY <1>6, LimiterSame DEF vars
<1>. QED  BY <1>1, <1>2, <1>3, <1>4, <1>5, <1>6 DEF Next, SubmitReport, ReportFromShop

THEOREM LimiterHolds == Spec => []LimiterInv
BY LimiterInit, LimiterNext, PTL DEF Spec

-----------------------------------------------------------------------------
(* The budgets.                                                            *)

\* No window admits more than a caller's limit, or everyone's ceiling, whatever
\* was pruned between and in whatever order the relays used the table.
THEOREM BudgetHolds == Spec => []BudgetKept
<1>1. LimiterInv => BudgetKept
  <2>. SUFFICES ASSUME LimiterInv, NEW route \in Routes, NEW t \in 0..now
                PROVE  /\ Admissions(LAMBDA a : a.route = route, t) <= Ceiling[route]
                       /\ \A c \in Clients :
                            Admissions(LAMBDA a : a.route = route /\ a.client = c, t) <= Limit[route]
    BY DEF BudgetKept
  <2>1. DOMAIN admitted = 1..Len(admitted)
    BY DEF LimiterInv, LimiterTypes
  <2>2. Admissions(LAMBDA a : a.route = route, t) <= Ceiling[route]
    <3>. DEFINE b == <<route, Everyone>>
    <3>1. b \in Budgets /\ LimitOf(b) = Ceiling[route]
      BY DEF Budgets, LimitOf
    <3>2. Admissions(LAMBDA a : a.route = route, t) = Cardinality(InWindow(b, t))
      BY <2>1 DEF Admissions, InWindow, Counts
    <3>. HIDE DEF b
    <3>. QED  BY <3>1, <3>2 DEF LimiterInv, BudgetsKept
  <2>3. ASSUME NEW c \in Clients
        PROVE  Admissions(LAMBDA a : a.route = route /\ a.client = c, t) <= Limit[route]
    <3>. DEFINE b == <<route, c>>
    <3>1. b \in Budgets /\ LimitOf(b) = Limit[route] /\ c # Everyone
      BY ReportingAssumption DEF Budgets, LimitOf
    <3>2. Admissions(LAMBDA a : a.route = route /\ a.client = c, t) = Cardinality(InWindow(b, t))
      BY <2>1, <3>1 DEF Admissions, InWindow, Counts
    <3>. HIDE DEF b
    <3>. QED  BY <3>1, <3>2 DEF LimiterInv, BudgetsKept
  <2>. QED  BY <2>2, <2>3
<1>. QED  BY <1>1, LimiterHolds, PTL

-----------------------------------------------------------------------------
(* The wait.                                                               *)

\* A number of seconds covers the ticks it stands for.
LEMMA SecondsCover ==
  ASSUME NEW ticks \in Nat
  PROVE  Seconds(ticks) \in Nat /\ Seconds(ticks) * Second >= ticks
<1>. DEFINE x == ticks + Second - 1
            q == x \div Second
<1>1. Second \in Nat \ {0} /\ x \in Nat
  BY ReportingAssumption
<1>2. q \in Nat /\ Second * q \in Nat /\ x < Second * q + Second
  <2>. HIDE DEF x
  <2>. QED  BY <1>1
<1>. HIDE DEF q
<1>3. q * Second >= ticks
  <2>. DEFINE p == Second * q
  <2>1. p \in Nat /\ ticks + Second - 1 < p + Second /\ q * Second = p
    BY <1>1, <1>2
  <2>. HIDE DEF p
  <2>. QED  BY <1>1, <2>1
<1>4. CASE ticks = 0
  BY <1>1, <1>4 DEF Seconds
<1>5. CASE ticks # 0
  BY <1>2, <1>3, <1>5 DEF Seconds, q
<1>. QED  BY <1>4, <1>5

Larger(b) == \E d \in Budgets : Key(d) = Key(b) /\ LimitOf(d) > LimitOf(b)

\* A refusal has kept as many live times as the limit: all that the table had,
\* unless a larger budget has put more there.
LEMMA RefusalIsFull ==
  ASSUME LimiterTypes, NEW b \in Budgets, ~Larger(b),
         NEW take, take = TakeOf(hits, b, now), ~take.ok
  PROVE  /\ WellKept(hits[Key(b)], Key(b)) /\ Len(hits[Key(b)]) = LimitOf(b)
         /\ take.wait = Seconds(Window - (now - hits[Key(b)][1]))
         /\ now - hits[Key(b)][1] < Window
<1>. DEFINE key   == Key(b)
            full  == hits[key]
            lim   == LimitOf(b)
            known == IF Cardinality(DOMAIN hits) > MaxKeys THEN Prune(hits, now) ELSE hits
            times == IF key \in DOMAIN known THEN Live(known[key], now) ELSE <<>>
<1>1. ~(Len(times) < lim) /\ take.wait = Seconds(Window - (now - times[1]))
  BY DEF Take, TakeOf
<1>2. key \in DOMAIN hits
  <2>1. lim \in Nat \ {0} /\ DOMAIN known \subseteq DOMAIN hits
    BY LimitIsNat DEF Prune
  <2>2. times # <<>>
    <3>. HIDE DEF times
    <3>. QED  BY <1>1, <2>1
  <2>. QED  BY <2>1, <2>2
<1>3. /\ now \in Nat /\ lim \in Nat \ {0} /\ WellKept(full, key)
      /\ full \in Seq(Nat) /\ Ascending(full) /\ Len(full) <= lim
  <2>1. now \in Nat /\ lim \in Nat \ {0} /\ WellKept(full, key)
    BY <1>2, LimitIsNat DEF LimiterTypes, TableFits
  <2>2. full \in Seq(Nat) /\ Ascending(full)
    BY <2>1 DEF WellKept
  <2>3. PICK d \in Budgets : Key(d) = key /\ Len(full) <= LimitOf(d)
    BY <2>1 DEF WellKept
  <2>4. ~(LimitOf(d) > lim) /\ LimitOf(d) \in Nat
    BY <2>3, LimitIsNat DEF Larger
  <2>. HIDE DEF full, lim
  <2>5. Len(full) <= lim
    BY <2>1, <2>2, <2>3, <2>4
  <2>. QED  BY <2>1, <2>2, <2>5
<1>4. PICK d \in 0..Len(full) :
        /\ \A i \in 1..Len(full) : i > d <=> now - full[i] < Window
        /\ Live(full, now) \in Seq(Nat) /\ Len(Live(full, now)) = Len(full) - d
        /\ \A i \in 1..Len(full) - d : Live(full, now)[i] = full[i + d]
  BY <1>3, LiveIsTail
<1>5. WellKept(Live(full, now), key)
  BY <1>3, LiveKeeps
<1>6. \/ times = Live(full, now)
      \/ times = Live(Live(full, now), now)
      \/ times = <<>>
  BY DEF Prune
<1>. HIDE DEF key
<1>7. Len(Live(full, now)) = lim /\ times[1] = full[1]
  <2>1. CASE times = Live(full, now)
    <3>1. Len(full) - d >= lim /\ d = 0 /\ Len(full) = lim
      BY <1>1, <1>3, <1>4, <2>1
    <3>2. 1 \in 1..Len(full) - d /\ 1 + d = 1
      BY <1>3, <3>1
    <3>3. Live(full, now)[1] = full[1]
      BY <1>4, <3>2
    <3>. QED  BY <1>4, <2>1, <3>1, <3>3
  <2>2. CASE times = Live(Live(full, now), now)
    <3>. DEFINE left == Live(full, now)
    <3>1. left \in Seq(Nat) /\ Ascending(left)
      BY <1>5 DEF WellKept
    <3>2. PICK e \in 0..Len(left) :
            /\ times \in Seq(Nat) /\ Len(times) = Len(left) - e
            /\ \A i \in 1..Len(left) - e : times[i] = left[i + e]
      <4>1. times = Live(left, now)
        BY <2>2 DEF left
      <4>. HIDE DEF left, times
      <4>. QED  BY <1>3, <3>1, <4>1, LiveIsTail
    <3>. HIDE DEF times, left
    <3>3. d = 0 /\ e = 0 /\ Len(left) = lim /\ Len(full) = lim
      <4>1. Len(left) = Len(full) - d /\ Len(times) = Len(left) - e
        BY <1>4, <3>2 DEF left
      <4>2. Len(full) \in Nat /\ lim \in Nat /\ Len(full) <= lim /\ ~(Len(times) < lim)
        BY <1>1, <1>3
      <4>. HIDE DEF full, lim
      <4>. QED  BY <4>1, <4>2
    <3>4. 1 \in 1..Len(left) - e /\ 1 \in 1..Len(full) - d /\ 1 + e = 1 /\ 1 + d = 1
      BY <1>3, <3>3
    <3>5. times[1] = left[1]
      BY <3>2, <3>4
    <3>6. left[1] = full[1]
      BY <1>4, <3>4 DEF left
    <3>. QED  BY <3>3, <3>5, <3>6 DEF left
  <2>3. CASE times = <<>>
    BY <1>1, <1>3, <2>3
  <2>. QED  BY <1>6, <2>1, <2>2, <2>3
<1>. HIDE DEF times
<1>8. d = 0 /\ Len(full) = lim /\ now - full[1] < Window
  <2>1. d = 0 /\ Len(full) = lim
    BY <1>3, <1>4, <1>7
  <2>2. 1 \in 1..Len(full) /\ 1 > d
    BY <1>3, <2>1
  <2>. QED  BY <1>4, <2>1, <2>2
<1>. QED  BY <1>1, <1>3, <1>7, <1>8 DEF key

\* Whoever waits as long as a refusal says finds the oldest time expired, and
\* so a place, unless others came meanwhile or the key is a larger budget's too.
THEOREM WaitHolds == Spec => []WaitIsEnough
<1>1. LimiterInv => WaitIsEnough
  <2>. SUFFICES ASSUME LimiterTypes, NEW b \in Budgets, ~TakeOf(hits, b, now).ok, ~Larger(b)
                PROVE  LET refusal == TakeOf(hits, b, now) IN
                       Len(Live(hits[Key(b)], now + refusal.wait * Second)) < LimitOf(b)
    BY DEF WaitIsEnough, LimiterInv, Larger
  <2>. DEFINE refusal == TakeOf(hits, b, now)
              full    == hits[Key(b)]
              ticks   == Window - (now - full[1])
  <2>1. /\ WellKept(full, Key(b)) /\ Len(full) = LimitOf(b) /\ LimitOf(b) \in Nat \ {0}
        /\ refusal.wait = Seconds(ticks) /\ now - full[1] < Window
    BY RefusalIsFull, LimitIsNat
  <2>2. /\ full \in Seq(Nat) /\ Ascending(full)
        /\ full[1] \in Nat /\ full[1] <= now /\ now \in Nat
    <3>1. full \in Seq(Nat) /\ 1 \in 1..Len(full) /\ now \in Nat
      BY <2>1 DEF LimiterTypes, WellKept
    <3>. QED  BY <2>1, <3>1 DEF WellKept
  <2>3. ticks \in Nat /\ Second \in Nat /\ Window \in Nat
    BY <2>1, <2>2, ReportingAssumption
  <2>4. \E p \in Nat : p = refusal.wait * Second /\ p >= ticks
    <3>1. Seconds(ticks) \in Nat /\ Seconds(ticks) * Second >= ticks
      BY <2>3, SecondsCover
    <3>. DEFINE w == Seconds(ticks)
    <3>2. w \in Nat /\ w * Second \in Nat
      <4>. HIDE DEF w
      <4>1. w \in Nat
        BY <3>1 DEF w
      <4>. QED  BY <2>3, <4>1
    <3>. QED  BY <2>1, <3>1, <3>2
  <2>5. PICK p \in Nat : p = refusal.wait * Second /\ p >= ticks
    BY <2>4
  <2>. DEFINE later == now + p
  <2>. HIDE DEF refusal, full
  <2>6. later \in Nat /\ later - full[1] >= Window
    <3>. DEFINE first == full[1]
    <3>1. /\ first \in Nat /\ first <= now /\ now \in Nat /\ Window \in Nat
          /\ p >= Window - (now - first)
      BY <2>2, <2>3, <2>5
    <3>. HIDE DEF first
    <3>2. later \in Nat /\ later - first >= Window
      BY <3>1
    <3>. QED  BY <3>2 DEF first
  <2>. HIDE DEF later
  <2>7. PICK d \in 0..Len(full) :
          /\ \A i \in 1..Len(full) : i > d <=> later - full[i] < Window
          /\ Len(Live(full, later)) = Len(full) - d
    BY <2>2, <2>6, LiveIsTail
  <2>8. d >= 1
    BY <2>1, <2>2, <2>3, <2>6, <2>7
  <2>9. Len(Live(full, later)) < LimitOf(b)
    BY <2>1, <2>7, <2>8
  <2>. QED  BY <2>5, <2>9 DEF later, full, refusal
<1>. QED  BY <1>1, LimiterHolds, PTL

-----------------------------------------------------------------------------
(* The answers.                                                            *)

LEMMA OpenSet ==
  ASSUME EventsFit, NEW c \in Clients, NEW r, open' = [open EXCEPT ![c] = r]
  PROVE  /\ open' = [x \in Clients |-> open'[x]]
         /\ open'[c] = r /\ \A d \in Clients \ {c} : open'[d] = open[d]
BY DEF EventsFit

\* A client is told, and waits for nothing more; of the calls at most its own goes.
LEMMA TellKeeps ==
  ASSUME AnswerInv, NEW c \in Clients, NEW text, NEW e, Tell(c, text, e),
         stored' = stored, admitted' = admitted,
         \/ calls' = calls
         \/ open[c].pc = "waiting" /\ calls' = Without(open[c].event),
         text = "received" => e \in stored,
         text = "refused" => /\ e \in 0..Len(admitted) /\ e \notin DOMAIN calls' \cup stored
                             /\ \A d \in Clients \ {c} : Busy(d) => open[d].event # e
  PROVE  AnswerInv'
<1>1. /\ open' = [x \in Clients |-> open'[x]]
      /\ open'[c].pc = "idle" /\ \A d \in Clients \ {c} : open'[d] = open[d]
  <2>. DEFINE r == [pc |-> "idle"]
  <2>1. open' = [open EXCEPT ![c] = r] /\ EventsFit /\ r.pc = "idle"
    BY DEF Tell, AnswerInv
  <2>. HIDE DEF r
  <2>. QED  BY <2>1, OpenSet
<1>2. answer'.text = text /\ answer'.event = e
  BY DEF Tell
<1>3. \A d \in Clients : Busy(d)' => d # c /\ Busy(d) /\ open'[d] = open[d]
  BY <1>1 DEF Busy
<1>4. /\ DOMAIN calls' \subseteq DOMAIN calls /\ \A x \in DOMAIN calls' : calls'[x] = calls[x]
      /\ \A d \in Clients \ {c} : open[d].pc = "waiting" => open[d].event \in DOMAIN calls'
  <2>1. CASE calls' = calls
    BY <2>1 DEF AnswerInv, EventsFit
  <2>2. CASE open[c].pc = "waiting" /\ calls' = Without(open[c].event)
    BY <2>2 DEF AnswerInv, EventsFit, Without, Busy
  <2>. QED  BY <2>1, <2>2
<1>5. EventsFit'
  <2>1. DOMAIN calls' \subseteq 1..Len(admitted') /\ stored' \subseteq 1..Len(admitted')
    BY <1>4 DEF AnswerInv, EventsFit
  <2>2. \A d \in Clients :
          /\ open'[d].pc \in {"idle", "body", "waiting"}
          /\ Busy(d)' => open'[d].event \in 1..Len(admitted')
          /\ open'[d].pc = "body" => open'[d].event \notin DOMAIN calls' \cup stored'
          /\ open'[d].pc = "waiting" => open'[d].event \in DOMAIN calls'
    BY <1>1, <1>3, <1>4 DEF AnswerInv, EventsFit
  <2>3. \A d, x \in Clients : Busy(d)' /\ Busy(x)' /\ open'[d].event = open'[x].event => d = x
    BY <1>3 DEF AnswerInv, EventsFit
  <2>4. \A x \in DOMAIN calls' : /\ calls'[x].pc = "accepted" => x \in stored'
                                 /\ calls'[x].pc \in {"sent", "quiet"} => x \notin stored'
    BY <1>4 DEF AnswerInv, EventsFit
  <2>. QED  BY <1>1, <2>1, <2>2, <2>3, <2>4 DEF EventsFit
<1>6. AnswerFits'
  BY <1>2, <1>3 DEF AnswerFits
<1>. QED  BY <1>5, <1>6 DEF AnswerInv

\* An admission opens a request for an event that is nowhere yet.
LEMMA OpenKeeps ==
  ASSUME AnswerInv, admitted \in Seq(Admission), NEW c \in Clients, NEW a \in Admission,
         admitted' = Append(admitted, a),
         NEW e, e = Len(admitted) + 1, NEW pc, NEW r, open' = [open EXCEPT ![c] = r],
         r.pc = pc, r.event = e,
         \/ pc = "body" /\ calls' = calls
         \/ /\ pc = "waiting" /\ DOMAIN calls' = DOMAIN calls \cup {e} /\ calls'[e].pc = "sent"
            /\ \A x \in DOMAIN calls \ {e} : calls'[x] = calls[x],
         answer' = answer, stored' = stored
  PROVE  AnswerInv'
<1>1. /\ Len(admitted) \in Nat /\ Len(admitted') = e /\ e \in 1..Len(admitted')
      /\ e \notin 1..Len(admitted) /\ 1..Len(admitted) \subseteq 1..Len(admitted')
      /\ 0..Len(admitted) \subseteq 0..Len(admitted')
  OBVIOUS
<1>2. /\ open' = [x \in Clients |-> open'[x]]
      /\ open'[c] = r /\ \A d \in Clients \ {c} : open'[d] = open[d]
  BY OpenSet DEF AnswerInv
<1>3. /\ e \notin DOMAIN calls \cup stored
      /\ \A d \in Clients : Busy(d) => open[d].event \in 1..Len(admitted)
      /\ answer.text = "refused" => answer.event # e
  BY <1>1 DEF AnswerInv, EventsFit, AnswerFits
<1>4. /\ DOMAIN calls' \subseteq DOMAIN calls \cup {e} /\ DOMAIN calls \subseteq DOMAIN calls'
      /\ e \in DOMAIN calls' => calls'[e].pc = "sent" /\ pc = "waiting"
      /\ pc = "waiting" => e \in DOMAIN calls'
      /\ \A x \in DOMAIN calls : calls'[x] = calls[x]
      /\ pc \in {"body", "waiting"}
  BY <1>3
<1>5. \A d \in Clients \ {c} : Busy(d)' = Busy(d)
  BY <1>2 DEF Busy
<1>6. EventsFit'
  <2>1. DOMAIN calls' \subseteq 1..Len(admitted') /\ stored' \subseteq 1..Len(admitted')
    BY <1>1, <1>4 DEF AnswerInv, EventsFit
  <2>2. ASSUME NEW d \in Clients
        PROVE  /\ open'[d].pc \in {"idle", "body", "waiting"}
               /\ Busy(d)' => open'[d].event \in 1..Len(admitted')
               /\ open'[d].pc = "body" => open'[d].event \notin DOMAIN calls' \cup stored'
               /\ open'[d].pc = "waiting" => open'[d].event \in DOMAIN calls'
    <3>1. CASE d = c
      BY <1>1, <1>2, <1>3, <1>4, <3>1
    <3>2. CASE d # c
      <4>1. open'[d] = open[d] /\ Busy(d)' = Busy(d)
        BY <1>2, <1>5, <3>2
      <4>2. open[d].pc = "body" => Busy(d)
        BY DEF Busy
      <4>. QED  BY <1>1, <1>3, <1>4, <4>1, <4>2 DEF AnswerInv, EventsFit
    <3>. QED  BY <3>1, <3>2
  <2>3. ASSUME NEW d \in Clients, NEW x \in Clients, Busy(d)', Busy(x)',
               open'[d].event = open'[x].event
        PROVE  d = x
    <3>1. \A y \in Clients \ {c} : Busy(y)' => open'[y].event \in 1..Len(admitted)
      BY <1>2, <1>3, <1>5
    <3>2. open'[c].event = e
      BY <1>2
    <3>3. CASE d = c \/ x = c
      BY <1>1, <2>3, <3>1, <3>2, <3>3
    <3>4. CASE d # c /\ x # c
      BY <1>2, <1>5, <2>3, <3>4 DEF AnswerInv, EventsFit
    <3>. QED  BY <3>3, <3>4
  <2>4. ASSUME NEW x \in DOMAIN calls'
        PROVE  /\ calls'[x].pc = "accepted" => x \in stored'
               /\ calls'[x].pc \in {"sent", "quiet"} => x \notin stored'
    <3>1. CASE x = e
      BY <1>3, <1>4, <3>1
    <3>2. CASE x # e
      BY <1>4, <3>2 DEF AnswerInv, EventsFit
    <3>. QED  BY <3>1, <3>2
  <2>. QED  BY <1>2, <2>1, <2>2, <2>3, <2>4 DEF EventsFit
<1>7. AnswerFits'
  <2>1. \A d \in Clients : Busy(d)' => \/ open'[d].event = e
                                       \/ Busy(d) /\ open'[d].event = open[d].event
    <3>. SUFFICES ASSUME NEW d \in Clients, Busy(d)', open'[d].event # e
                  PROVE  Busy(d) /\ open'[d].event = open[d].event
      OBVIOUS
    <3>1. d # c
      BY <1>2
    <3>. QED  BY <1>2, <1>5, <3>1
  <2>2. DOMAIN calls' \cup stored' \subseteq DOMAIN calls \cup stored \cup {e}
    BY <1>4
  <2>. QED  BY <1>1, <1>3, <2>1, <2>2 DEF AnswerInv, AnswerFits
<1>. QED  BY <1>6, <1>7 DEF AnswerInv

\* The body goes out as a call.
LEMMA CallKeeps ==
  ASSUME AnswerInv, NEW c \in Clients, open[c].pc = "body",
         NEW e, e = open[c].event, DOMAIN calls' = DOMAIN calls \cup {e}, calls'[e].pc = "sent",
         \A x \in DOMAIN calls \ {e} : calls'[x] = calls[x],
         open' = [open EXCEPT ![c] = [pc |-> "waiting", event |-> e]],
         answer' = answer, stored' = stored, admitted' = admitted
  PROVE  AnswerInv'
<1>1. /\ open' = [x \in Clients |-> open'[x]]
      /\ open'[c] = [pc |-> "waiting", event |-> e]
      /\ \A d \in Clients \ {c} : open'[d] = open[d]
  <2>. DEFINE r == [pc |-> "waiting", event |-> e]
  <2>1. open' = [open EXCEPT ![c] = r] /\ EventsFit
    BY DEF AnswerInv
  <2>. HIDE DEF r
  <2>2. /\ open' = [x \in Clients |-> open'[x]]
        /\ open'[c] = r /\ \A d \in Clients \ {c} : open'[d] = open[d]
    BY <2>1, OpenSet
  <2>. QED  BY <2>2 DEF r
<1>2. /\ Busy(c) /\ e \in 1..Len(admitted) /\ e \notin DOMAIN calls \cup stored
      /\ \A d \in Clients : Busy(d) /\ open[d].event = e => d = c
  BY DEF AnswerInv, EventsFit, Busy
<1>3. \A d \in Clients : Busy(d)' = Busy(d) /\ open'[d].event = open[d].event
  BY <1>1, <1>2 DEF Busy
<1>4. EventsFit'
  <2>1. DOMAIN calls' \subseteq 1..Len(admitted') /\ stored' \subseteq 1..Len(admitted')
    BY <1>2 DEF AnswerInv, EventsFit
  <2>2. ASSUME NEW d \in Clients
        PROVE  /\ open'[d].pc \in {"idle", "body", "waiting"}
               /\ Busy(d)' => open'[d].event \in 1..Len(admitted')
               /\ open'[d].pc = "body" => open'[d].event \notin DOMAIN calls' \cup stored'
               /\ open'[d].pc = "waiting" => open'[d].event \in DOMAIN calls'
    <3>1. CASE d = c
      BY <1>1, <1>2, <3>1
    <3>2. CASE d # c
      <4>1. open'[d] = open[d] /\ Busy(d)' = Busy(d)
        BY <1>1, <1>3, <3>2
      <4>2. open[d].pc = "body" => Busy(d) /\ open[d].event # e
        BY <1>2, <3>2 DEF Busy
      <4>. QED  BY <4>1, <4>2 DEF AnswerInv, EventsFit
    <3>. QED  BY <3>1, <3>2
  <2>3. \A d, x \in Clients : Busy(d)' /\ Busy(x)' /\ open'[d].event = open'[x].event => d = x
    BY <1>3 DEF AnswerInv, EventsFit
  <2>4. ASSUME NEW x \in DOMAIN calls'
        PROVE  /\ calls'[x].pc = "accepted" => x \in stored'
               /\ calls'[x].pc \in {"sent", "quiet"} => x \notin stored'
    <3>1. CASE x = e
      BY <1>2, <3>1
    <3>2. CASE x # e
      BY <3>2 DEF AnswerInv, EventsFit
    <3>. QED  BY <3>1, <3>2
  <2>. QED  BY <1>1, <2>1, <2>2, <2>3, <2>4 DEF EventsFit
<1>5. AnswerFits'
  BY <1>2, <1>3 DEF AnswerInv, AnswerFits
<1>. QED  BY <1>4, <1>5 DEF AnswerInv

\* A webhook answers, having stored the event or not.
LEMMA ReplyKeeps ==
  ASSUME AnswerInv, NEW e \in DOMAIN calls, calls[e].pc = "sent", NEW status, Reply(e, status),
         status # "sent", status = "accepted" => e \in stored',
         status = "quiet" => stored' = stored,
         stored' \in {stored, stored \cup {e}},
         open' = open, answer' = answer, admitted' = admitted
  PROVE  AnswerInv'
<1>1. /\ DOMAIN calls' \subseteq DOMAIN calls
      /\ \A x \in DOMAIN calls' : IF x = e THEN calls'[x].pc = status ELSE calls'[x] = calls[x]
      /\ \A c \in Clients : open[c].pc = "waiting" => open[c].event \in DOMAIN calls'
  <2>1. CASE \E c \in Clients : open[c].pc = "waiting" /\ open[c].event = e
    <3>1. calls' = [calls EXCEPT ![e] = [pc |-> status, route |-> @.route]]
      BY <2>1 DEF Reply
    <3>. DEFINE reply == [pc |-> status, route |-> calls[e].route]
    <3>2. reply.pc = status
      OBVIOUS
    <3>. HIDE DEF reply
    <3>3. DOMAIN calls' = DOMAIN calls
      BY <3>1
    <3>4. \A x \in DOMAIN calls : calls'[x] = IF x = e THEN reply ELSE calls[x]
      BY <3>1 DEF reply
    <3>. QED  BY <3>2, <3>3, <3>4 DEF AnswerInv, EventsFit
  <2>2. CASE ~\E c \in Clients : open[c].pc = "waiting" /\ open[c].event = e
    <3>1. calls' = Without(e)
      BY <2>2 DEF Reply
    <3>2. DOMAIN calls' = DOMAIN calls \ {e} /\ \A x \in DOMAIN calls' : calls'[x] = calls[x]
      BY <3>1 DEF Without
    <3>. QED  BY <2>2, <3>2 DEF AnswerInv, EventsFit
  <2>. QED  BY <2>1, <2>2
<1>2. e \in 1..Len(admitted) /\ e \notin stored
  BY DEF AnswerInv, EventsFit
<1>3. EventsFit'
  <2>1. \A x \in DOMAIN calls' : /\ calls'[x].pc = "accepted" => x \in stored'
                                 /\ calls'[x].pc \in {"sent", "quiet"} => x \notin stored'
    BY <1>1, <1>2 DEF AnswerInv, EventsFit
  <2>2. \A c \in Clients : open[c].pc = "body" => open[c].event \notin DOMAIN calls' \cup stored'
    BY <1>1 DEF AnswerInv, EventsFit
  <2>. QED  BY <1>1, <1>2, <2>1, <2>2 DEF AnswerInv, EventsFit, Busy
<1>4. AnswerFits'
  BY <1>1 DEF AnswerInv, AnswerFits, Busy
<1>. QED  BY <1>3, <1>4 DEF AnswerInv

\* The limits leave two ways.
LEMMA AdmitEnds ==
  ASSUME NEW c, NEW route, NEW request, Admit(c, route, request)
  PROVE  \/ Tell(c, "refused", 0) /\ admitted' = admitted
         \/ /\ admitted' = Append(admitted, [route |-> route, client |-> c, at |-> now])
            /\ open' = [open EXCEPT ![c] = request] /\ answer' = answer
BY Zenon DEF Admit, Refuse

LEMMA RefusalTells ==
  ASSUME AnswerInv, NEW c \in Clients, Tell(c, "refused", 0),
         UNCHANGED <<calls, stored, admitted>>, admitted \in Seq(Admission)
  PROVE  AnswerInv'
<1>1. 0 \in 0..Len(admitted) /\ 0 \notin DOMAIN calls \cup stored
  BY DEF AnswerInv, EventsFit
<1>2. \A d \in Clients : Busy(d) => open[d].event # 0
  BY DEF AnswerInv, EventsFit
<1>. QED  BY <1>1, <1>2, TellKeeps

LEMMA PostKeeps ==
  ASSUME LimiterTypes, AnswerInv, NEW c \in Clients, NEW form, PostReport(c, form)
  PROVE  AnswerInv'
<1>1. now \in Nat /\ admitted \in Seq(Admission) /\ UNCHANGED <<now, calls, stored>>
  BY DEF LimiterTypes, PostReport
<1>. DEFINE request == [pc |-> "body", form |-> form, event |-> Len(admitted) + 1]
            a == [route |-> "report", client |-> c, at |-> now]
<1>2. \/ Tell(c, "refused", 0) /\ admitted' = admitted
      \/ Admit(c, "report", request)
  BY DEF PostReport
<1>3. CASE Tell(c, "refused", 0) /\ admitted' = admitted
  BY <1>1, <1>3, RefusalTells
<1>4. CASE Admit(c, "report", request)
  <2>1. CASE /\ admitted' = Append(admitted, a)
             /\ open' = [open EXCEPT ![c] = request] /\ answer' = answer
    <3>1. a \in Admission /\ request.pc = "body" /\ request.event = Len(admitted) + 1
      BY <1>1 DEF Admission, Routes
    <3>. HIDE DEF a, request
    <3>. QED  BY <1>1, <2>1, <3>1, OpenKeeps
  <2>. HIDE DEF request
  <2>. QED  BY <1>1, <1>3, <1>4, <2>1, AdmitEnds
<1>. QED  BY <1>2, <1>3, <1>4

LEMMA SendLogsKeeps ==
  ASSUME LimiterTypes, AnswerInv, NEW c \in Clients, SendLogs(c)
  PROVE  AnswerInv'
<1>. DEFINE e == Len(admitted) + 1
            request == [pc |-> "waiting", event |-> e]
            a == [route |-> "logs", client |-> c, at |-> now]
<1>1. now \in Nat /\ admitted \in Seq(Admission) /\ stored' = stored
  BY DEF LimiterTypes, SendLogs
<1>2. /\ Admit(c, "logs", request)
      /\ IF admitted' # admitted THEN Call(e, "logs", Template) ELSE UNCHANGED calls
  BY DEF SendLogs
<1>3. CASE Tell(c, "refused", 0) /\ admitted' = admitted
  BY <1>1, <1>2, <1>3, RefusalTells
<1>4. CASE /\ admitted' = Append(admitted, a)
           /\ open' = [open EXCEPT ![c] = request] /\ answer' = answer
  <2>1. a \in Admission /\ request.pc = "waiting" /\ request.event = e
    BY <1>1 DEF Admission, Routes
  <2>2. admitted' # admitted
    BY <1>1, <1>4, <2>1
  <2>3. /\ DOMAIN calls' = DOMAIN calls \cup {e} /\ calls'[e].pc = "sent"
        /\ \A x \in DOMAIN calls \ {e} : calls'[x] = calls[x]
    <3>1. Call(e, "logs", Template)
      BY <1>2, <2>2
    <3>. HIDE DEF e
    <3>. QED  BY <3>1 DEF Call
  <2>. HIDE DEF a, request
  <2>. QED  BY <1>1, <1>4, <2>1, <2>3, OpenKeeps
<1>. HIDE DEF request
<1>. QED  BY <1>2, <1>3, <1>4, AdmitEnds

LEMMA RelayKeeps ==
  ASSUME AnswerInv, NEW c \in Clients, Relay(c) PROVE AnswerInv'
<1>. DEFINE e == open[c].event
<1>1. open[c].pc = "body" /\ UNCHANGED <<stored, admitted>>
  BY DEF Relay
<1>2. /\ e \in 1..Len(admitted) /\ e \notin DOMAIN calls \cup stored
      /\ \A d \in Clients \ {c} : Busy(d) => open[d].event # e
  BY <1>1 DEF AnswerInv, EventsFit, Busy
<1>3. CASE Tell(c, "refused", e) /\ UNCHANGED calls
  <2>1. e \in 0..Len(admitted)
    BY <1>2
  <2>. HIDE DEF e
  <2>. QED  BY <1>1, <1>2, <1>3, <2>1, TellKeeps
<1>4. CASE /\ Call(e, "report", open[c].form)
           /\ open' = [open EXCEPT ![c] = [pc |-> "waiting", event |-> e]]
           /\ UNCHANGED answer
  <2>1. /\ DOMAIN calls' = DOMAIN calls \cup {e} /\ calls'[e].pc = "sent"
        /\ \A x \in DOMAIN calls \ {e} : calls'[x] = calls[x]
    BY <1>4 DEF Call
  <2>. QED  BY <1>1, <1>4, <2>1, CallKeeps
<1>. QED  BY <1>3, <1>4, Zenon DEF Relay

LEMMA ReturnKeeps ==
  ASSUME AnswerInv, NEW c \in Clients, Return(c) PROVE AnswerInv'
<1>. DEFINE e == open[c].event
<1>1. PICK text \in AnswerTexts(calls[e].route, calls[e].pc) :
        Tell(c, text, IF text = "failed" THEN 0 ELSE e)
  BY DEF Return
<1>2. open[c].pc = "waiting" /\ UNCHANGED <<stored, admitted>> /\ calls' = Without(e)
  BY DEF Return
<1>3. /\ text \in {"received", "nothing", "failed"}
      /\ text = "received" => calls[e].pc = "accepted"
  BY <1>1 DEF AnswerTexts
<1>4. text = "received" => e \in stored
  BY <1>2, <1>3 DEF AnswerInv, EventsFit
<1>. DEFINE told == IF text = "failed" THEN 0 ELSE e
<1>5. text # "refused" /\ (text = "received" => told \in stored) /\ Tell(c, text, told)
  BY <1>1, <1>3, <1>4
<1>6. calls' = Without(open[c].event) /\ stored' = stored /\ admitted' = admitted
  BY <1>2
<1>. HIDE DEF told, e
<1>. QED  BY <1>2, <1>5, <1>6, TellKeeps

LEMMA GiveUpKeeps ==
  ASSUME AnswerInv, NEW c \in Clients, GiveUp(c) PROVE AnswerInv'
BY TellKeeps DEF GiveUp

LEMMA DeclineKeeps ==
  ASSUME AnswerInv, NEW e \in DOMAIN calls, Decline(e) PROVE AnswerInv'
<1>1. PICK status \in Refused(calls[e]) : Reply(e, status)
  BY DEF Decline
<1>2. status \notin {"sent", "accepted"}
  BY <1>1 DEF Refused
<1>. QED  BY <1>1, <1>2, ReplyKeeps DEF Decline

LEMMA InsertKeeps ==
  ASSUME AnswerInv, NEW e \in DOMAIN calls, Insert(e) PROVE AnswerInv'
<1>1. PICK status \in {"accepted", "unavailable"} : Reply(e, status)
  BY DEF Insert
<1>. QED  BY <1>1, ReplyKeeps DEF Insert

LEMMA AnswerSame ==
  ASSUME AnswerInv, UNCHANGED <<open, answer, calls, stored, admitted>> PROVE AnswerInv'
BY DEF AnswerInv, EventsFit, AnswerFits, Busy

LEMMA AnswerInit == Init => AnswerInv
BY DEF Init, AnswerInv, EventsFit, AnswerFits, Busy

LEMMA AnswerNext == LimiterTypes /\ AnswerInv /\ [Next]_vars => AnswerInv'
BY PostKeeps, SendLogsKeeps, RelayKeeps, ReturnKeeps, GiveUpKeeps, DeclineKeeps, InsertKeeps,
   AnswerSame DEF Next, SubmitReport, ReportFromShop, Tick, vars

THEOREM AnswersHold == Spec => []AnswerInv
<1>1. LimiterInv => LimiterTypes
  BY DEF LimiterInv
<1>. QED  BY <1>1, LimiterHolds, AnswerInit, AnswerNext, PTL DEF Spec

\* A report that was received has its row, one that a relay refused has none, though a
\* call that the relay gave up may still arrive.
THEOREM AnswersAreTrue == Spec => []AnswersTellTruth
<1>1. AnswerInv => AnswersTellTruth
  BY DEF AnswerInv, AnswerFits, AnswersTellTruth
<1>. QED  BY <1>1, AnswersHold, PTL

=============================================================================
