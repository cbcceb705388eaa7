---------------------------- MODULE Pages_proofs ----------------------------
(***************************************************************************)
(* The two pages of the console, for every value of their bounds. An       *)
(* analysis page: a replay looks like the live run it recorded, a page     *)
(* that reconnected catches up, a chart loses no points. The incident      *)
(* page: what was deleted stays gone, a form makes one row.                *)
(***************************************************************************)
EXTENDS Dashboard, IncidentPage, FiniteSetTheorems, SequenceTheorems, WellFoundedInduction, TLAPS

-----------------------------------------------------------------------------
(* The inductive invariant of an analysis page.                            *)

Gens == [state : {"none", "live", "replay", "stopping", "over"}, phase : 0..6,
         busy : BOOLEAN, green : BOOLEAN, assessed : BOOLEAN]
Conns == [state : {"none", "connecting", "open", "closed"}, at : Nat \ {0}, done : BOOLEAN, opened : Nat]
Views == [status : {"idle", "running", "resolved", "failed"}, demo : BOOLEAN, phase : 0..6,
          count : Nat, tools : Seq(BOOLEAN), items : Nat, test : {"none", "red", "green"},
          error : BOOLEAN, duration : 0..6]
Pages == [kind : Kinds, asking : BOOLEAN, source : Runs \cup {NoRun}, run : Runs \cup {NoRun}]

TypeOK ==
  /\ stream \in [Runs -> Seq(Event)]
  /\ gen \in [Runs -> Gens]
  /\ current \in Runs \cup {NoRun}
  /\ conn \in [Runs -> Conns]
  /\ view \in Views
  /\ page \in Pages

\* No demo_mode after position i of s, up to position j.
NoSwitch(s, i, j) == \A k \in DOMAIN s : i < k /\ k <= j => s[k].type # "demo_mode"

Entered(s) == \E i \in DOMAIN s : s[i].type = "phase"

\* A tool returns in a phase.
ResultsAfterPhase(s) ==
  \A i \in DOMAIN s : s[i].type = "tool_result" => \E j \in DOMAIN s : j < i /\ s[j].type = "phase"

\* A phase leads to a later one; only the verify phase may be entered again.
Rises(p, q) == p < q \/ (p = 5 /\ q = 5)
PhasesRise(s) ==
  \A i, j \in DOMAIN s :
    i < j /\ s[i].type = "phase" /\ s[j].type = "phase" /\ NoSwitch(s, i, j) => Rises(s[i].arg, s[j].arg)

\* Where the agent or the replay stands, the stream has told.
Behind(s, g) ==
  /\ g.busy => g.phase # NoPhase
  /\ g.assessed => g.phase = 5
  /\ g.phase # NoPhase => Entered(s)
  /\ \A i \in DOMAIN s : s[i].type = "phase" /\ NoSwitch(s, i, Len(s)) => s[i].arg <= g.phase

Going(g) == g.state \in {"live", "replay", "stopping"}

StreamInv ==
  \A r \in Runs :
    /\ ResultsAfterPhase(stream[r])
    /\ PhasesRise(stream[r])
    /\ Going(gen[r]) => Behind(stream[r], gen[r])
    /\ gen[r].state = "none" => stream[r] = <<>> /\ conn[r] = NoConn

\* The page has one live source, of the run it shows.
Alive(r) == conn[r].state \in {"connecting", "open"}

SourceInv ==
  /\ \A r \in Runs : Alive(r) => r = page.source
  /\ page.source \in {NoRun, page.run}
  /\ page.asking => page.source = NoRun /\ page.run = NoRun /\ view = InitialView("running")

\* No event before position i ends a connection: a connection may deliver it.
Reachable(r, i) == i \in DOMAIN stream[r] /\ \A j \in 1..(i - 1) : ~Terminal(stream[r][j])

CursorInv ==
  \A r \in Runs : conn[r].state = "open" =>
    LET at == conn[r].at IN
    /\ at - 1 <= Len(stream[r]) /\ conn[r].opened > 0
    /\ conn[r].done <=> at > 1 /\ Terminal(stream[r][at - 1])
    /\ \A i \in 1..(at - 1) : Reachable(r, i)

\* The fields compared, and the events that set each of them whatever it was.
Fields == {"status", "demo", "phase", "count", "test", "error", "duration"}
Setters ==
  [status |-> {"started", "demo_mode", "fatal", "resolved"}, demo |-> {"demo_mode"},
   phase |-> {"demo_mode", "phase", "resolved"}, count |-> {"demo_mode", "phase"},
   test |-> {"demo_mode", "test"}, error |-> {"demo_mode", "error", "fatal"},
   duration |-> {"demo_mode", "resolved"}]
Sets(e, f) == e.type \in Setters[f]

\* Every live source's view: over the first connection as in ReplayLooksLive;
\* over any, a field that is not what the delivered events make it is set by one
\* that is still to come, and one that is not as it began by one that can come.
FirstInv ==
  \A r \in Runs : Alive(r) =>
    /\ conn[r].opened = 0 => view = InitialView("running") /\ conn[r].state = "connecting"
    /\ conn[r].opened = 1 /\ conn[r].state = "open" =>
         /\ [view EXCEPT !.demo = FALSE] = Folded(Recording(Delivered(r)))
         /\ ~conn[r].done => view.status = "running"
         /\ view.phase # NoPhase =>
              \E i \in 1..(conn[r].at - 1) :
                /\ stream[r][i] = Ev("phase", view.phase)
                /\ NoSwitch(stream[r], i, conn[r].at - 1)

CatchUpInv ==
  \A r \in Runs, f \in Fields : Alive(r) =>
    /\ view[f] # InitialView("running")[f] => \E i \in DOMAIN stream[r] : Reachable(r, i) /\ Sets(stream[r][i], f)
    /\ conn[r].state = "open" =>
         /\ Folded(Delivered(r)) \in Views
         /\ view[f] # Folded(Delivered(r))[f] =>
              \E i \in DOMAIN stream[r] : i >= conn[r].at /\ Reachable(r, i) /\ Sets(stream[r][i], f)

IInv == TypeOK /\ StreamInv /\ SourceInv /\ CursorInv /\ FirstInv /\ CatchUpInv

-----------------------------------------------------------------------------
(* The view the events make, one event at a time.                          *)

LEMMA LeastElement ==
  ASSUME NEW T \in SUBSET Nat, T # {}
  PROVE  \E x \in T : \A y \in T : x <= y
<1>1. PICK x \in T : \A y \in T : ~(<<y, x>> \in OpToRel(<, Nat))
  BY WFMin, NatLessThanWellFounded
<1>2. \A y \in T : ~(y < x)
  BY <1>1 DEF OpToRel
<1>. QED  BY <1>2

\* f holds the views after each of the first n events of s.
Follows(f, s, n) == f = [i \in 0..n |-> IF i = 0 THEN InitialView("running") ELSE Reduce(f[i - 1], s[i])]

LEMMA FollowsOne ==
  ASSUME NEW f, NEW g, NEW s, NEW t, NEW n \in Nat, NEW m \in Nat, NEW k \in Nat, k <= n, k <= m,
         Follows(f, s, n), Follows(g, t, m), \A i \in 1..k : s[i] = t[i]
  PROVE  f[k] = g[k]
<1>. DEFINE T == {i \in 0..k : f[i] # g[i]}
<1>1. SUFFICES T = {}
  OBVIOUS
<1>2. SUFFICES ASSUME T # {} PROVE FALSE
  OBVIOUS
<1>3. PICK i \in T : \A j \in T : i <= j
  BY <1>2, LeastElement, T \subseteq Nat
<1>4. i # 0 /\ f[i] = Reduce(f[i - 1], s[i]) /\ g[i] = Reduce(g[i - 1], t[i])
  <2>1. i \in 0..n /\ i \in 0..m
    OBVIOUS
  <2>2. f[i] = IF i = 0 THEN InitialView("running") ELSE Reduce(f[i - 1], s[i])
    BY <2>1 DEF Follows
  <2>3. g[i] = IF i = 0 THEN InitialView("running") ELSE Reduce(g[i - 1], t[i])
    BY <2>1 DEF Follows
  <2>. QED  BY <2>2, <2>3
<1>5. i - 1 \in 0..k /\ ~(i <= i - 1) /\ s[i] = t[i]
  BY <1>4
<1>6. f[i - 1] = g[i - 1]
  BY <1>3, <1>5
<1>. QED  BY <1>4, <1>5, <1>6

LEMMA FollowsAll ==
  ASSUME NEW s, NEW n \in Nat
  PROVE  \E f : Follows(f, s, n)
<1>. DEFINE T == {i \in Nat : ~\E f : Follows(f, s, i)}
<1>1. SUFFICES ASSUME T # {} PROVE FALSE
  OBVIOUS
<1>2. PICK i \in T : \A j \in T : i <= j
  BY <1>1, LeastElement, T \subseteq Nat
<1>3. CASE i = 0
  <2>1. Follows([j \in 0..0 |-> InitialView("running")], s, 0)
    <3>1. \A j \in 0..0 : j = 0
      OBVIOUS
    <3>. QED  BY <3>1 DEF Follows
  <2>. QED  BY <1>2, <1>3, <2>1
<1>4. CASE i # 0
  <2>1. i - 1 \in Nat /\ ~(i <= i - 1) /\ i \in Nat
    BY <1>4
  <2>2. PICK f : Follows(f, s, i - 1)
    BY <1>2, <2>1
  <2>. DEFINE g == [j \in 0..i |-> IF j = i THEN Reduce(f[i - 1], s[i]) ELSE f[j]]
  <2>3. ASSUME NEW j \in 0..i
        PROVE g[j] = IF j = 0 THEN InitialView("running") ELSE Reduce(g[j - 1], s[j])
    <3>1. CASE j = i
      BY <2>1, <3>1, <1>4
    <3>2. CASE j # i
      <4>1. j \in 0..i - 1 /\ (j # 0 => j - 1 \in 0..i /\ j - 1 # i)
        BY <2>1, <3>2
      <4>2. f[j] = IF j = 0 THEN InitialView("running") ELSE Reduce(f[j - 1], s[j])
        BY <2>2, <4>1 DEF Follows
      <4>. QED  BY <3>2, <4>1, <4>2
    <3>. QED  BY <3>1, <3>2
  <2>4. Follows(g, s, i)
    <3>. HIDE DEF g
    <3>1. g = [j \in 0..i |-> g[j]]
      BY DEF g
    <3>. QED  BY <2>3, <3>1 DEF Follows
  <2>. QED  BY <1>2, <2>4
<1>. QED  BY <1>3, <1>4

\* Folded, as its recursive function computes it.
LEMMA FoldedIs ==
  ASSUME NEW s \in Seq(Event)
  PROVE  \E f : Follows(f, s, Len(s)) /\ Folded(s) = f[Len(s)]
<1>1. \E f : Follows(f, s, Len(s))
  BY FollowsAll
<1>. DEFINE f == CHOOSE f : Follows(f, s, Len(s))
<1>2. Folded(s) = f[Len(s)]
  BY DEF Folded, Follows
<1>. QED  BY <1>1, <1>2

LEMMA FoldedEmpty == Folded(<<>>) = InitialView("running")
<1>1. <<>> \in Seq(Event) /\ Len(<<>>) = 0
  OBVIOUS
<1>2. PICK f : Follows(f, <<>>, 0) /\ Folded(<<>>) = f[0]
  BY <1>1, FoldedIs
<1>3. f[0] = InitialView("running")
  BY <1>2 DEF Follows
<1>. QED  BY <1>2, <1>3

LEMMA FoldedAppend ==
  ASSUME NEW s \in Seq(Event), NEW e \in Event
  PROVE  Folded(Append(s, e)) = Reduce(Folded(s), e)
<1>. DEFINE t == Append(s, e)
            n == Len(s)
<1>1. t \in Seq(Event) /\ Len(t) = n + 1 /\ n \in Nat /\ t[n + 1] = e /\ \A i \in 1..n : t[i] = s[i]
  OBVIOUS
<1>2. PICK f : Follows(f, s, n) /\ Folded(s) = f[n]
  BY FoldedIs
<1>. HIDE DEF t, n
<1>3. PICK g : Follows(g, t, n + 1) /\ Folded(t) = g[n + 1]
  BY <1>1, FoldedIs
<1>4. g[n + 1] = Reduce(g[n], e)
  <2>1. n + 1 \in 0..n + 1 /\ n + 1 # 0 /\ n + 1 - 1 = n
    BY <1>1
  <2>2. \A i \in 0..n + 1 : g[i] = IF i = 0 THEN InitialView("running") ELSE Reduce(g[i - 1], t[i])
    BY <1>3, Zenon DEF Follows
  <2>. QED  BY <1>1, <2>1, <2>2
<1>5. g[n] = f[n]
  BY <1>1, <1>2, <1>3, FollowsOne
<1>. QED  BY <1>2, <1>3, <1>4, <1>5 DEF t

-----------------------------------------------------------------------------
(* The recording: what follows the last switch.                            *)

LEMMA MaxIs ==
  ASSUME NEW n \in Nat, NEW S \in SUBSET (1..n)
  PROVE  Max({0} \cup S) \in {0} \cup S /\ \A i \in S : i <= Max({0} \cup S)
<1>. DEFINE Z == {0} \cup S
            T == {n - i : i \in Z}
<1>1. T \subseteq Nat /\ T # {}
  OBVIOUS
<1>2. PICK x \in T : \A y \in T : x <= y
  BY <1>1, LeastElement
<1>3. PICK m \in Z : x = n - m
  BY <1>2
<1>4. \A i \in Z : m >= i
  <2>1. Z \subseteq 0..n
    OBVIOUS
  <2>2. \A i \in Z : n - m <= n - i
    BY <1>2, <1>3
  <2>. HIDE DEF Z
  <2>. QED  BY <2>1, <2>2, <1>3
<1>5. Max(Z) \in Z /\ \A i \in Z : Max(Z) >= i
  <2>. HIDE DEF Z
  <2>. QED  BY <1>3, <1>4, Zenon DEF Max
<1>6. \A i \in S : i \in Z
  OBVIOUS
<1>7. \A i \in S : i <= Max(Z)
  <2>1. Z \subseteq Int /\ S \subseteq Int
    OBVIOUS
  <2>. HIDE DEF Z
  <2>. QED  BY <1>5, <1>6, <2>1
<1>. QED  BY <1>5, <1>7

\* A prefix of a sequence, and the one longer by an element.
LEMMA PrefixIs ==
  ASSUME NEW s \in Seq(Event), NEW n \in Nat, n <= Len(s)
  PROVE  /\ SubSeq(s, 1, n) \in Seq(Event) /\ Len(SubSeq(s, 1, n)) = n
         /\ \A i \in 1..n : SubSeq(s, 1, n)[i] = s[i]
         /\ n < Len(s) => SubSeq(s, 1, n + 1) = Append(SubSeq(s, 1, n), s[n + 1])
<1>1. /\ SubSeq(s, 1, n) \in Seq(Event) /\ Len(SubSeq(s, 1, n)) = n
      /\ \A i \in 1..n : SubSeq(s, 1, n)[i] = s[i]
  OBVIOUS
<1>2. ASSUME n < Len(s) PROVE SubSeq(s, 1, n + 1) = Append(SubSeq(s, 1, n), s[n + 1])
  BY <1>2
<1>. QED  BY <1>1, <1>2

SwitchesOf(s) == {i \in DOMAIN s : s[i].type = "demo_mode"}

LEMMA RecordingAppend ==
  ASSUME NEW s \in Seq(Event), NEW e \in Event
  PROVE  /\ Recording(s) \in Seq(Event)
         /\ Recording(Append(s, e)) = IF e.type = "demo_mode" THEN <<>> ELSE Append(Recording(s), e)
<1>. DEFINE n == Len(s)
            t == Append(s, e)
            m == Max({0} \cup SwitchesOf(s))
<1>1. n \in Nat /\ t \in Seq(Event) /\ Len(t) = n + 1 /\ t[n + 1] = e /\ \A i \in 1..n : t[i] = s[i]
  OBVIOUS
<1>2. SwitchesOf(s) \in SUBSET (1..n) /\ SwitchesOf(t) \in SUBSET (1..n + 1)
  BY <1>1 DEF SwitchesOf
<1>3. m \in {0} \cup SwitchesOf(s) /\ m \in 0..n
  <2>. HIDE DEF n, t
  <2>1. m \in {0} \cup SwitchesOf(s)
    BY <1>1, <1>2, MaxIs, Zenon
  <2>. HIDE DEF m
  <2>. QED  BY <1>1, <1>2, <2>1
<1>4. Recording(s) = SubSeq(s, m + 1, n) /\ Recording(t) = SubSeq(t, Max({0} \cup SwitchesOf(t)) + 1, n + 1)
  BY <1>1 DEF Recording, SwitchesOf
<1>. HIDE DEF m
<1>5. Recording(s) \in Seq(Event)
  BY <1>3, <1>4
<1>6. CASE e.type = "demo_mode"
  <2>1. n + 1 \in SwitchesOf(t)
    BY <1>1, <1>6 DEF SwitchesOf
  <2>2. Max({0} \cup SwitchesOf(t)) = n + 1
    <3>1. Max({0} \cup SwitchesOf(t)) \in {0} \cup SwitchesOf(t) /\ n + 1 <= Max({0} \cup SwitchesOf(t))
      <4>1. n + 1 \in Nat
        BY <1>1
      <4>. HIDE DEF n, t
      <4>. QED  BY <1>2, <2>1, <4>1, MaxIs, Zenon
    <3>. QED  BY <1>1, <1>2, <3>1
  <2>3. SubSeq(t, n + 2, n + 1) = <<>>
    BY <1>1
  <2>. QED  BY <1>1, <1>4, <1>5, <1>6, <2>2, <2>3
<1>7. CASE e.type # "demo_mode"
  <2>1. SwitchesOf(t) = SwitchesOf(s)
    BY <1>1, <1>7 DEF SwitchesOf
  <2>2. Recording(t) = SubSeq(t, m + 1, n + 1)
    BY <1>4, <2>1 DEF m
  <2>. HIDE DEF n, t
  <2>3. /\ SubSeq(t, m + 1, n + 1) \in Seq(Event) /\ Len(SubSeq(t, m + 1, n + 1)) = n + 1 - m
        /\ \A i \in 1..n + 1 - m : SubSeq(t, m + 1, n + 1)[i] = t[m + i]
    BY <1>1, <1>3
  <2>4. /\ Recording(s) \in Seq(Event) /\ Len(Recording(s)) = n - m
        /\ \A i \in 1..n - m : Recording(s)[i] = s[m + i]
    BY <1>1, <1>3, <1>4 DEF n
  <2>5. SubSeq(t, m + 1, n + 1) = Append(Recording(s), e)
    <3>. DEFINE a == SubSeq(t, m + 1, n + 1)
                b == Append(Recording(s), e)
    <3>1. b \in Seq(Event) /\ Len(b) = n - m + 1 /\ b[n - m + 1] = e
          /\ \A i \in 1..n - m : b[i] = Recording(s)[i]
      BY <2>4
    <3>2. ASSUME NEW i \in 1..n + 1 - m PROVE a[i] = b[i]
      <4>1. a[i] = t[m + i]
        BY <2>3
      <4>2. CASE i = n + 1 - m
        <5>1. m + i = n + 1 /\ i = n - m + 1
          BY <1>1, <1>3, <4>2
        <5>. QED  BY <1>1, <3>1, <4>1, <5>1
      <4>3. CASE i # n + 1 - m
        <5>1. i \in 1..n - m /\ m + i \in 1..n
          BY <1>1, <1>3, <4>3
        <5>2. b[i] = s[m + i] /\ t[m + i] = s[m + i]
          BY <1>1, <2>4, <3>1, <5>1
        <5>. QED  BY <4>1, <5>2
      <4>. QED  BY <4>2, <4>3
    <3>3. Len(a) = Len(b) /\ a \in Seq(Event)
      BY <1>1, <1>3, <2>3, <3>1
    <3>. HIDE DEF a, b
    <3>. QED  BY <2>3, <3>1, <3>2, <3>3, SeqEqual DEF a, b
  <2>. QED  BY <1>5, <1>7, <2>2, <2>5 DEF t
<1>. QED  BY <1>5, <1>6, <1>7

LEMMA RecordingEmpty == Recording(<<>>) = <<>>
<1>1. Recording(<<>>) = SubSeq(<<>>, Max({0} \cup {}) + 1, 0)
  <2>1. {i \in DOMAIN <<>> : <<>>[i].type = "demo_mode"} = {} /\ Len(<<>>) = 0
    OBVIOUS
  <2>. QED  BY <2>1, Zenon DEF Recording
<1>2. Max({0} \cup {}) \in {0} \cup {}
  BY MaxIs, {} \in SUBSET (1..0)
<1>. QED  BY <1>1, <1>2

-----------------------------------------------------------------------------
(* What one event does to a view.                                          *)

LEMMA InitialViewTyped == \A s \in {"idle", "running"} : InitialView(s) \in Views
BY DEF InitialView, Views, NoPhase

Settled(tools) == [i \in DOMAIN tools |-> tools[i] /\ i # LastPending(tools)]

LEMMA SettledTyped ==
  ASSUME NEW tools \in Seq(BOOLEAN)
  PROVE  Settled(tools) \in Seq(BOOLEAN) /\ Append(tools, TRUE) \in Seq(BOOLEAN)
<1>1. Len(tools) \in Nat /\ DOMAIN tools = 1..Len(tools)
  OBVIOUS
<1>2. \A i \in 1..Len(tools) : (tools[i] /\ i # LastPending(tools)) \in BOOLEAN
  BY Zenon
<1>3. Settled(tools) \in [1..Len(tools) -> BOOLEAN]
  BY <1>1, <1>2, Zenon DEF Settled
<1>4. Settled(tools) \in Seq(BOOLEAN)
  BY <1>1, <1>3, IsASeq
<1>. QED  BY <1>4

\* The reducer, case by case.
LEMMA ReduceIs ==
  ASSUME NEW v, NEW e \in Event
  PROVE  /\ e.type = "started" => Reduce(v, e) = [v EXCEPT !.status = "running"]
         /\ e.type = "demo_mode" => Reduce(v, e) = SwitchToDemo(v)
         /\ e.type = "phase" => Reduce(v, e) = [v EXCEPT !.phase = e.arg, !.count = 0]
         /\ e.type = "tool_call" => Reduce(v, e) = [v EXCEPT !.tools = Append(@, TRUE)]
         /\ e.type = "tool_result" => Reduce(v, e) = [v EXCEPT !.tools = Settled(@), !.count = @ + 1]
         /\ e.type = "item" => Reduce(v, e) = [v EXCEPT !.items = @ + 1]
         /\ e.type = "test" => Reduce(v, e) = [v EXCEPT !.test = IF e.arg = 1 THEN "green" ELSE "red"]
         /\ e.type = "error" => Reduce(v, e) = [v EXCEPT !.error = TRUE]
         /\ e.type = "fatal" => Reduce(v, e) = [v EXCEPT !.error = TRUE, !.status = "failed"]
         /\ e.type = "resolved" =>
              Reduce(v, e) = [v EXCEPT !.status = "resolved", !.phase = NoPhase, !.duration = e.arg]
<1>1. CASE e.type \in {"started", "demo_mode"}
  BY <1>1, Zenon DEF Reduce
<1>2. CASE e.type = "phase"
  BY <1>2 DEF Reduce, EnterPhase
<1>3. CASE e.type = "tool_call"
  BY <1>3 DEF Reduce
<1>4. CASE e.type = "tool_result"
  BY <1>4 DEF Reduce, Settled
<1>5. CASE e.type = "item"
  BY <1>5 DEF Reduce
<1>6. CASE e.type = "test"
  BY <1>6 DEF Reduce
<1>7. CASE e.type = "error"
  BY <1>7 DEF Reduce
<1>8. CASE e.type = "fatal"
  BY <1>8 DEF Reduce, Fail
<1>9. CASE e.type = "resolved"
  BY <1>9 DEF Reduce
<1>. QED  BY <1>1, <1>2, <1>3, <1>4, <1>5, <1>6, <1>7, <1>8, <1>9

ViewFields == {"status", "demo", "phase", "count", "tools", "items", "test", "error", "duration"}

\* A view, field by field.
LEMMA ViewIs ==
  ASSUME NEW v \in Views
  PROVE  v = [status |-> v.status, demo |-> v.demo, phase |-> v.phase, count |-> v.count,
              tools |-> v.tools, items |-> v.items, test |-> v.test, error |-> v.error,
              duration |-> v.duration]
BY DEF Views

LEMMA ReduceTyped ==
  ASSUME NEW v \in Views, NEW e \in Event
  PROVE  Reduce(v, e) \in Views
<1>0. e.arg \in 0..6 /\ e.type \in Type
  BY DEF Event
<1>1. v.tools \in Seq(BOOLEAN)
  BY DEF Views
<1>. DEFINE w == Reduce(v, e)
<1>. SUFFICES w \in Views
  OBVIOUS
<1>2. CASE e.type = "tool_call"
  <2>1. w = [v EXCEPT !.tools = Append(@, TRUE)]
    BY <1>2, ReduceIs, Zenon
  <2>. HIDE DEF w
  <2>. QED  BY <1>1, <2>1, SettledTyped DEF Views
<1>3. CASE e.type = "tool_result"
  <2>1. w = [v EXCEPT !.tools = Settled(@), !.count = @ + 1]
    BY <1>3, ReduceIs, Zenon
  <2>2. Settled(v.tools) \in Seq(BOOLEAN) /\ v.count + 1 \in Nat
    BY <1>1, SettledTyped DEF Views
  <2>. HIDE DEF w
  <2>. QED  BY <2>1, <2>2 DEF Views
<1>4. CASE e.type = "demo_mode"
  <2>1. w = SwitchToDemo(v)
    BY <1>4, ReduceIs, Zenon
  <2>. HIDE DEF w
  <2>. QED  BY <2>1, InitialViewTyped DEF SwitchToDemo, Views
<1>5. CASE e.type = "started"
  <2>1. w = [v EXCEPT !.status = "running"]
    BY <1>5, ReduceIs, Zenon
  <2>. HIDE DEF w
  <2>. QED  BY <1>0, <2>1 DEF Views, NoPhase
<1>6. CASE e.type = "phase"
  <2>1. w = [v EXCEPT !.phase = e.arg, !.count = 0]
    BY <1>6, ReduceIs, Zenon
  <2>. HIDE DEF w
  <2>. QED  BY <1>0, <2>1 DEF Views, NoPhase
<1>7. CASE e.type = "item"
  <2>1. w = [v EXCEPT !.items = @ + 1]
    BY <1>7, ReduceIs, Zenon
  <2>. HIDE DEF w
  <2>. QED  BY <1>0, <2>1 DEF Views, NoPhase
<1>8. CASE e.type = "test"
  <2>1. w = [v EXCEPT !.test = IF e.arg = 1 THEN "green" ELSE "red"]
    BY <1>8, ReduceIs, Zenon
  <2>. HIDE DEF w
  <2>. QED  BY <1>0, <2>1 DEF Views, NoPhase
<1>9. CASE e.type = "error"
  <2>1. w = [v EXCEPT !.error = TRUE]
    BY <1>9, ReduceIs, Zenon
  <2>. HIDE DEF w
  <2>. QED  BY <1>0, <2>1 DEF Views, NoPhase
<1>10. CASE e.type = "fatal"
  <2>1. w = [v EXCEPT !.error = TRUE, !.status = "failed"]
    BY <1>10, ReduceIs, Zenon
  <2>. HIDE DEF w
  <2>. QED  BY <1>0, <2>1 DEF Views, NoPhase
<1>11. CASE e.type = "resolved"
  <2>1. w = [v EXCEPT !.status = "resolved", !.phase = NoPhase, !.duration = e.arg]
    BY <1>11, ReduceIs, Zenon
  <2>2. w = [status |-> "resolved", demo |-> v.demo, phase |-> NoPhase, count |-> v.count,
             tools |-> v.tools, items |-> v.items, test |-> v.test, error |-> v.error,
             duration |-> e.arg]
    <3>. HIDE DEF w
    <3>1. DOMAIN v = ViewFields
      BY DEF Views, ViewFields
    <3>2. /\ w = [x \in ViewFields |-> w[x]]
          /\ w["status"] = "resolved" /\ w["phase"] = NoPhase /\ w["duration"] = e.arg
          /\ \A x \in ViewFields \ {"status", "phase", "duration"} : w[x] = v[x]
      BY <2>1, <3>1 DEF ViewFields
    <3>. QED  BY <3>2 DEF ViewFields
  <2>. HIDE DEF w
  <2>. QED  BY <1>0, <2>2 DEF Views, NoPhase
<1>. QED  BY <1>0, <1>2, <1>3, <1>4, <1>5, <1>6, <1>7, <1>8, <1>9, <1>10, <1>11 DEF Type

LEMMA SetsIs ==
  ASSUME NEW e
  PROVE  /\ Sets(e, "status") <=> e.type \in {"started", "demo_mode", "fatal", "resolved"}
         /\ Sets(e, "demo") <=> e.type = "demo_mode"
         /\ Sets(e, "phase") <=> e.type \in {"demo_mode", "phase", "resolved"}
         /\ Sets(e, "count") <=> e.type \in {"demo_mode", "phase"}
         /\ Sets(e, "test") <=> e.type \in {"demo_mode", "test"}
         /\ Sets(e, "error") <=> e.type \in {"demo_mode", "error", "fatal"}
         /\ Sets(e, "duration") <=> e.type \in {"demo_mode", "resolved"}
BY DEF Sets, Setters

\* An event that sets a field forgets what it was, any other keeps it, except
\* that a result counts.
LEMMA ReduceField ==
  ASSUME NEW v \in Views, NEW w \in Views, NEW e \in Event, NEW f \in Fields
  PROVE  /\ Sets(e, f) \/ v[f] = w[f] => Reduce(v, e)[f] = Reduce(w, e)[f]
         /\ ~Sets(e, f) /\ ~(f = "count" /\ e.type = "tool_result") => Reduce(v, e)[f] = v[f]
<1>0. e.type \in Type
  BY DEF Event
<1>. DEFINE a == Reduce(v, e)
            b == Reduce(w, e)
<1>. SUFFICES /\ Sets(e, f) \/ v[f] = w[f] => a[f] = b[f]
              /\ ~Sets(e, f) /\ ~(f = "count" /\ e.type = "tool_result") => a[f] = v[f]
  OBVIOUS
<1>d. DOMAIN v = ViewFields /\ DOMAIN w = ViewFields /\ Fields \subseteq ViewFields
  BY DEF Views, Fields, ViewFields
<1>1. CASE e.type = "started"
  <2>1. a = [v EXCEPT !.status = "running"] /\ b = [w EXCEPT !.status = "running"]
    BY <1>1, ReduceIs, Zenon
  <2>. HIDE DEF a, b
  <2>2. \A x \in Fields : x \notin {"status"} => a[x] = v[x] /\ b[x] = w[x]
    BY <1>d, <2>1
  <2>3. /\ a["status"] = "running" /\ b["status"] = "running"
    BY <1>d, <2>1 DEF ViewFields
  <2>. QED  BY <1>1, <2>2, <2>3, SetsIs DEF Fields
<1>2. CASE e.type = "demo_mode"
  <2>1. a = SwitchToDemo(v) /\ b = SwitchToDemo(w)
    BY <1>2, ReduceIs, Zenon
  <2>2. a = b
    BY <2>1 DEF SwitchToDemo
  <2>. HIDE DEF a, b
  <2>. QED  BY <1>2, <2>2, SetsIs DEF Fields
<1>3. CASE e.type = "phase"
  <2>1. a = [v EXCEPT !.phase = e.arg, !.count = 0] /\ b = [w EXCEPT !.phase = e.arg, !.count = 0]
    BY <1>3, ReduceIs, Zenon
  <2>. HIDE DEF a, b
  <2>2. \A x \in Fields : x \notin {"phase", "count"} => a[x] = v[x] /\ b[x] = w[x]
    BY <1>d, <2>1
  <2>3. /\ a["phase"] = e.arg /\ b["phase"] = e.arg
        /\ a["count"] = 0 /\ b["count"] = 0
    BY <1>d, <2>1 DEF ViewFields
  <2>. QED  BY <1>3, <2>2, <2>3, SetsIs DEF Fields
<1>4. CASE e.type = "tool_call"
  <2>1. a = [v EXCEPT !.tools = Append(@, TRUE)] /\ b = [w EXCEPT !.tools = Append(@, TRUE)]
    BY <1>4, ReduceIs, Zenon
  <2>. HIDE DEF a, b
  <2>2. \A x \in Fields : x \notin {"tools"} => a[x] = v[x] /\ b[x] = w[x]
    BY <1>d, <2>1
  <2>. QED  BY <1>4, <2>2, SetsIs DEF Fields
<1>5. CASE e.type = "tool_result"
  <2>1. a = [v EXCEPT !.tools = Settled(@), !.count = @ + 1] /\ b = [w EXCEPT !.tools = Settled(@), !.count = @ + 1]
    BY <1>5, ReduceIs, Zenon
  <2>. HIDE DEF a, b
  <2>2. \A x \in Fields : x \notin {"tools", "count"} => a[x] = v[x] /\ b[x] = w[x]
    BY <1>d, <2>1
  <2>3. /\ a["count"] = v["count"] + 1 /\ b["count"] = w["count"] + 1
    BY <1>d, <2>1 DEF ViewFields
  <2>. QED  BY <1>5, <2>2, <2>3, SetsIs DEF Fields
<1>6. CASE e.type = "item"
  <2>1. a = [v EXCEPT !.items = @ + 1] /\ b = [w EXCEPT !.items = @ + 1]
    BY <1>6, ReduceIs, Zenon
  <2>. HIDE DEF a, b
  <2>2. \A x \in Fields : x \notin {"items"} => a[x] = v[x] /\ b[x] = w[x]
    BY <1>d, <2>1
  <2>. QED  BY <1>6, <2>2, SetsIs DEF Fields
<1>7. CASE e.type = "test"
  <2>1. a = [v EXCEPT !.test = IF e.arg = 1 THEN "green" ELSE "red"] /\ b = [w EXCEPT !.test = IF e.arg = 1 THEN "green" ELSE "red"]
    BY <1>7, ReduceIs, Zenon
  <2>. HIDE DEF a, b
  <2>2. \A x \in Fields : x \notin {"test"} => a[x] = v[x] /\ b[x] = w[x]
    BY <1>d, <2>1
  <2>3. /\ a["test"] = (IF e.arg = 1 THEN "green" ELSE "red") /\ b["test"] = (IF e.arg = 1 THEN "green" ELSE "red")
    BY <1>d, <2>1 DEF ViewFields
  <2>. QED  BY <1>7, <2>2, <2>3, SetsIs DEF Fields
<1>8. CASE e.type = "error"
  <2>1. a = [v EXCEPT !.error = TRUE] /\ b = [w EXCEPT !.error = TRUE]
    BY <1>8, ReduceIs, Zenon
  <2>. HIDE DEF a, b
  <2>2. \A x \in Fields : x \notin {"error"} => a[x] = v[x] /\ b[x] = w[x]
    BY <1>d, <2>1
  <2>3. /\ a["error"] = TRUE /\ b["error"] = TRUE
    BY <1>d, <2>1 DEF ViewFields
  <2>. QED  BY <1>8, <2>2, <2>3, SetsIs DEF Fields
<1>9. CASE e.type = "fatal"
  <2>1. a = [v EXCEPT !.error = TRUE, !.status = "failed"] /\ b = [w EXCEPT !.error = TRUE, !.status = "failed"]
    BY <1>9, ReduceIs, Zenon
  <2>. HIDE DEF a, b
  <2>2. \A x \in Fields : x \notin {"error", "status"} => a[x] = v[x] /\ b[x] = w[x]
    BY <1>d, <2>1
  <2>3. /\ a["error"] = TRUE /\ b["error"] = TRUE
        /\ a["status"] = "failed" /\ b["status"] = "failed"
    BY <1>d, <2>1 DEF ViewFields
  <2>. QED  BY <1>9, <2>2, <2>3, SetsIs DEF Fields
<1>10. CASE e.type = "resolved"
  <2>1. a = [v EXCEPT !.status = "resolved", !.phase = NoPhase, !.duration = e.arg] /\ b = [w EXCEPT !.status = "resolved", !.phase = NoPhase, !.duration = e.arg]
    BY <1>10, ReduceIs, Zenon
  <2>. HIDE DEF a, b
  <2>2. \A x \in Fields : x \notin {"status", "phase", "duration"} => a[x] = v[x] /\ b[x] = w[x]
    BY <1>d, <2>1
  <2>3. /\ a["status"] = "resolved" /\ b["status"] = "resolved"
        /\ a["phase"] = NoPhase /\ b["phase"] = NoPhase
        /\ a["duration"] = e.arg /\ b["duration"] = e.arg
    BY <1>d, <2>1 DEF ViewFields
  <2>. QED  BY <1>10, <2>2, <2>3, SetsIs DEF Fields
<1>. QED  BY <1>0, <1>1, <1>2, <1>3, <1>4, <1>5, <1>6, <1>7, <1>8, <1>9, <1>10 DEF Type

Undemo(v) == [v EXCEPT !.demo = FALSE]

\* But for demo, a view does not remember the switch.
LEMMA ReduceUndemo ==
  ASSUME NEW v \in Views, NEW e \in Event
  PROVE  /\ Undemo(v) \in Views
         /\ e.type = "demo_mode" => Undemo(Reduce(v, e)) = InitialView("running")
         /\ e.type # "demo_mode" => Undemo(Reduce(v, e)) = Reduce(Undemo(v), e)
<1>0. e.type \in Type
  BY DEF Event
<1>1. Undemo(v) \in Views
  BY DEF Undemo, Views
<1>2. CASE e.type = "demo_mode"
  <2>1. Reduce(v, e) = SwitchToDemo(v)
    BY <1>2, ReduceIs, Zenon
  <2>2. Undemo(Reduce(v, e)) = InitialView("running")
    <3>. DEFINE z == InitialView("running")
    <3>1. z.demo = FALSE /\ z \in Views
      BY InitialViewTyped DEF InitialView
    <3>2. DOMAIN z = ViewFields /\ z = [x \in ViewFields |-> z[x]]
      BY <3>1 DEF Views, ViewFields
    <3>. HIDE DEF z
    <3>3. [[z EXCEPT !.demo = TRUE] EXCEPT !.demo = FALSE] = z
      BY <3>1, <3>2, Zenon DEF ViewFields
    <3>. QED  BY <2>1, <3>3, Zenon DEF SwitchToDemo, Undemo, z
  <2>. QED  BY <1>1, <1>2, <2>2
<1>. DEFINE u == Undemo(v)
            a == Reduce(v, e)
            b == Reduce(u, e)
<1>3. CASE e.type # "demo_mode"
  <2>1. SUFFICES Undemo(a) = b
    BY <1>1, <1>3
  <2>2. CASE e.type = "started"
    <3>1. a = [v EXCEPT !.status = "running"] /\ b = [u EXCEPT !.status = "running"]
      BY <2>2, ReduceIs, Zenon
    <3>. HIDE DEF a, b
    <3>. QED  BY <3>1 DEF Undemo, Views
  <2>3. CASE e.type = "phase"
    <3>1. a = [v EXCEPT !.phase = e.arg, !.count = 0] /\ b = [u EXCEPT !.phase = e.arg, !.count = 0]
      BY <2>3, ReduceIs, Zenon
    <3>. HIDE DEF a, b
    <3>. QED  BY <3>1 DEF Undemo, Views
  <2>4. CASE e.type = "tool_call"
    <3>1. a = [v EXCEPT !.tools = Append(@, TRUE)] /\ b = [u EXCEPT !.tools = Append(@, TRUE)]
      BY <2>4, ReduceIs, Zenon
    <3>. HIDE DEF a, b
    <3>. QED  BY <3>1 DEF Undemo, Views
  <2>5. CASE e.type = "tool_result"
    <3>1. a = [v EXCEPT !.tools = Settled(@), !.count = @ + 1] /\ b = [u EXCEPT !.tools = Settled(@), !.count = @ + 1]
      BY <2>5, ReduceIs, Zenon
    <3>. HIDE DEF a, b
    <3>. QED  BY <3>1 DEF Undemo, Views
  <2>6. CASE e.type = "item"
    <3>1. a = [v EXCEPT !.items = @ + 1] /\ b = [u EXCEPT !.items = @ + 1]
      BY <2>6, ReduceIs, Zenon
    <3>. HIDE DEF a, b
    <3>. QED  BY <3>1 DEF Undemo, Views
  <2>7. CASE e.type = "test"
    <3>1. a = [v EXCEPT !.test = IF e.arg = 1 THEN "green" ELSE "red"] /\ b = [u EXCEPT !.test = IF e.arg = 1 THEN "green" ELSE "red"]
      BY <2>7, ReduceIs, Zenon
    <3>. HIDE DEF a, b
    <3>. QED  BY <3>1 DEF Undemo, Views
  <2>8. CASE e.type = "error"
    <3>1. a = [v EXCEPT !.error = TRUE] /\ b = [u EXCEPT !.error = TRUE]
      BY <2>8, ReduceIs, Zenon
    <3>. HIDE DEF a, b
    <3>. QED  BY <3>1 DEF Undemo, Views
  <2>9. CASE e.type = "fatal"
    <3>1. a = [v EXCEPT !.error = TRUE, !.status = "failed"] /\ b = [u EXCEPT !.error = TRUE, !.status = "failed"]
      BY <2>9, ReduceIs, Zenon
    <3>. HIDE DEF a, b
    <3>. QED  BY <3>1 DEF Undemo, Views
  <2>10. CASE e.type = "resolved"
    <3>1. a = [v EXCEPT !.status = "resolved", !.phase = NoPhase, !.duration = e.arg] /\ b = [u EXCEPT !.status = "resolved", !.phase = NoPhase, !.duration = e.arg]
      BY <2>10, ReduceIs, Zenon
    <3>. HIDE DEF a, b
    <3>. QED  BY <3>1 DEF Undemo, Views
  <2>. QED  BY <1>0, <1>3, <2>2, <2>3, <2>4, <2>5, <2>6, <2>7, <2>8, <2>9, <2>10 DEF Type
<1>. QED  BY <1>1, <1>2, <1>3

-----------------------------------------------------------------------------
(* A stream that grows.                                                    *)

LEMMA ConcatIs ==
  ASSUME NEW s \in Seq(Event), NEW t \in Seq(Event)
  PROVE  /\ s \o t \in Seq(Event) /\ Len(s \o t) = Len(s) + Len(t)
         /\ Len(s) \in Nat /\ Len(t) \in Nat
         /\ DOMAIN s = 1..Len(s) /\ DOMAIN t = 1..Len(t) /\ DOMAIN (s \o t) = 1..Len(s) + Len(t)
         /\ \A i \in DOMAIN s : i \in DOMAIN (s \o t) /\ (s \o t)[i] = s[i]
         /\ \A i \in DOMAIN t : (s \o t)[Len(s) + i] = t[i]
         /\ \A i \in DOMAIN (s \o t) :
              i \in DOMAIN s \/ (i - Len(s) \in DOMAIN t /\ (s \o t)[i] = t[i - Len(s)])
OBVIOUS

\* The short sequences a step emits.
LEMMA ShortSeqs ==
  ASSUME NEW x \in Event, NEW y \in Event
  PROVE  /\ <<x>> \in Seq(Event) /\ Len(<<x>>) = 1 /\ DOMAIN <<x>> = {1} /\ <<x>>[1] = x
         /\ <<x, y>> \in Seq(Event) /\ Len(<<x, y>>) = 2 /\ DOMAIN <<x, y>> = {1, 2}
         /\ <<x, y>>[1] = x /\ <<x, y>>[2] = y
         /\ <<>> \o <<x>> = <<x>> /\ <<x>> \o <<y>> = <<x, y>> /\ <<x>> \o <<>> = <<x>>
<1>1. <<x>> \in Seq(Event) /\ Len(<<x>>) = 1 /\ <<x>>[1] = x /\ DOMAIN <<x>> = 1..1
  OBVIOUS
<1>2. <<x, y>> \in Seq(Event) /\ Len(<<x, y>>) = 2 /\ <<x, y>>[1] = x /\ <<x, y>>[2] = y /\ DOMAIN <<x, y>> = 1..2
  OBVIOUS
<1>3. <<>> \o <<x>> = <<x>> /\ <<x>> \o <<>> = <<x>>
  BY <1>1, ConcatEmptySeq
<1>4. <<x>> \o <<y>> = <<x, y>>
  <2>. DEFINE a == <<x>> \o <<y>>
              b == <<x, y>>
  <2>1. a \in Seq(Event) /\ Len(a) = 2 /\ a[1] = x /\ a[2] = y
    <3>. DEFINE u == <<x>>
                v == <<y>>
    <3>1. u \in Seq(Event) /\ Len(u) = 1 /\ u[1] = x /\ v \in Seq(Event) /\ Len(v) = 1 /\ v[1] = y
      OBVIOUS
    <3>. HIDE DEF u, v
    <3>2. u \o v \in Seq(Event) /\ Len(u \o v) = 2 /\ (u \o v)[1] = u[1] /\ (u \o v)[2] = v[1]
      <4>1. /\ u \o v \in Seq(Event) /\ Len(u \o v) = Len(u) + Len(v)
            /\ \A i \in DOMAIN u : (u \o v)[i] = u[i]
            /\ \A i \in DOMAIN v : (u \o v)[Len(u) + i] = v[i]
        BY <3>1, ConcatIs
      <4>2. 1 \in DOMAIN u /\ 1 \in DOMAIN v
        BY <3>1
      <4>. QED  BY <3>1, <4>1, <4>2
    <3>. QED  BY <3>1, <3>2 DEF u, v
  <2>2. b \in Seq(Event) /\ Len(b) = 2 /\ b[1] = x /\ b[2] = y
    BY <1>2
  <2>. HIDE DEF a, b
  <2>3. a = b
    BY <2>1, <2>2, SeqEqual
  <2>. QED  BY <2>3 DEF a, b
<1>5. 1..1 = {1} /\ 1..2 = {1, 2}
  OBVIOUS
<1>. QED  BY <1>1, <1>2, <1>3, <1>4, <1>5

LEMMA ShortTyped ==
  ASSUME NEW x \in Event, NEW y \in Event, NEW t, t = <<x>> \/ t = <<x, y>>,
         NEW S, x.type \in S, y.type \in S
  PROVE  t \in Seq(Event) /\ \A i \in DOMAIN t : t[i].type \in S
<1>1. CASE t = <<x>>
  <2>1. t \in Seq(Event) /\ DOMAIN t = {1} /\ t[1] = x
    BY <1>1, ShortSeqs, Zenon
  <2>. QED  BY <2>1
<1>2. CASE t = <<x, y>>
  <2>1. t \in Seq(Event) /\ DOMAIN t = {1, 2} /\ t[1] = x /\ t[2] = y
    BY <1>2, ShortSeqs, Zenon
  <2>. QED  BY <2>1
<1>. QED  BY <1>1, <1>2

LEMMA NoSwitchIn ==
  ASSUME NEW s \in Seq(Event), NEW t \in Seq(Event), NEW i \in DOMAIN s, NEW j \in DOMAIN (s \o t),
         NoSwitch(s \o t, i, j)
  PROVE  /\ j \in DOMAIN s => NoSwitch(s, i, j)
         /\ j \notin DOMAIN s => NoSwitch(s, i, Len(s))
         /\ \A k \in DOMAIN t : Len(s) + k <= j => t[k].type # "demo_mode"
<1>. DEFINE u == s \o t
<1>1. /\ DOMAIN s = 1..Len(s) /\ DOMAIN u = 1..Len(s) + Len(t) /\ Len(s) \in Nat /\ DOMAIN t = 1..Len(t)
      /\ Len(t) \in Nat /\ \A k \in DOMAIN s : u[k] = s[k]
      /\ \A k \in DOMAIN t : u[Len(s) + k] = t[k]
  BY ConcatIs
<1>. HIDE DEF u
<1>2. \A k \in DOMAIN u : i < k /\ k <= j => u[k].type # "demo_mode"
  BY DEF NoSwitch, u
<1>3. \A k \in DOMAIN t : Len(s) + k <= j => t[k].type # "demo_mode"
  <2>. TAKE k \in DOMAIN t
  <2>1. Len(s) + k \in DOMAIN u /\ i < Len(s) + k
    BY <1>1
  <2>. QED  BY <1>1, <1>2, <2>1
<1>4. \A k \in DOMAIN s : i < k /\ k <= j => s[k].type # "demo_mode"
  <2>. TAKE k \in DOMAIN s
  <2>1. k \in DOMAIN u
    BY <1>1
  <2>. QED  BY <1>1, <1>2, <2>1
<1>5. j \notin DOMAIN s => \A k \in DOMAIN s : k <= j
  BY <1>1 DEF u
<1>. QED  BY <1>3, <1>4, <1>5 DEF NoSwitch

LEMMA StreamGrows ==
  ASSUME NEW s \in Seq(Event), NEW t \in Seq(Event), ResultsAfterPhase(s), PhasesRise(s),
         \A i \in DOMAIN t : t[i].type = "tool_result" => Entered(s),
         \A i \in DOMAIN t : t[i].type = "phase" =>
           /\ i = Len(t)
           /\ \A k \in DOMAIN s : s[k].type = "phase" /\ NoSwitch(s, k, Len(s)) => Rises(s[k].arg, t[i].arg)
  PROVE  ResultsAfterPhase(s \o t) /\ PhasesRise(s \o t)
<1>. DEFINE u == s \o t
<1>1. /\ DOMAIN s = 1..Len(s) /\ DOMAIN u = 1..Len(s) + Len(t) /\ Len(s) \in Nat /\ DOMAIN t = 1..Len(t)
      /\ Len(t) \in Nat /\ \A k \in DOMAIN s : k \in DOMAIN u /\ u[k] = s[k]
      /\ \A i \in DOMAIN u : i \in DOMAIN s \/ (i - Len(s) \in DOMAIN t /\ u[i] = t[i - Len(s)])
  BY ConcatIs
<1>2. ASSUME NEW i \in DOMAIN u, u[i].type = "tool_result"
      PROVE  \E j \in DOMAIN u : j < i /\ u[j].type = "phase"
  <2>. HIDE DEF u
  <2>1. CASE i \in DOMAIN s
    BY <1>1, <1>2, <2>1 DEF ResultsAfterPhase
  <2>2. CASE i \notin DOMAIN s
    <3>1. PICK j \in DOMAIN s : s[j].type = "phase"
      BY <1>1, <1>2, <2>2 DEF Entered
    <3>2. j < i /\ j \in DOMAIN u /\ u[j].type = "phase"
      BY <1>1, <2>2, <3>1
    <3>. QED  BY <3>2
  <2>. QED  BY <2>1, <2>2
<1>3. ASSUME NEW i \in DOMAIN u, NEW j \in DOMAIN u, i < j, u[i].type = "phase", u[j].type = "phase",
             NoSwitch(u, i, j)
      PROVE  Rises(u[i].arg, u[j].arg)
  <2>1. i \in DOMAIN s
    <3>1. CASE i \notin DOMAIN s
      <4>. HIDE DEF u
      <4>1. i - Len(s) \in DOMAIN t /\ t[i - Len(s)].type = "phase"
        BY <1>1, <1>3, <3>1
      <4>2. i - Len(s) = Len(t)
        BY <4>1
      <4>. QED  BY <1>1, <1>3, <4>2
    <3>. QED  BY <3>1
  <2>2. /\ j \in DOMAIN s => NoSwitch(s, i, j)
        /\ j \notin DOMAIN s => NoSwitch(s, i, Len(s))
    BY <1>3, <2>1, NoSwitchIn
  <2>. HIDE DEF u
  <2>3. CASE j \in DOMAIN s
    BY <1>1, <1>3, <2>1, <2>2, <2>3 DEF PhasesRise
  <2>4. CASE j \notin DOMAIN s
    <3>1. j - Len(s) \in DOMAIN t /\ u[j] = t[j - Len(s)] /\ u[i] = s[i]
      BY <1>1, <2>1, <2>4
    <3>. QED  BY <1>3, <2>1, <2>2, <2>4, <3>1
  <2>. QED  BY <2>3, <2>4
<1>. HIDE DEF u
<1>4. ResultsAfterPhase(u)
  BY <1>2 DEF ResultsAfterPhase
<1>5. PhasesRise(u)
  BY <1>3 DEF PhasesRise
<1>. QED  BY <1>4, <1>5 DEF u

LEMMA BehindGrows ==
  ASSUME NEW s \in Seq(Event), NEW t \in Seq(Event), NEW g \in Gens, NEW h \in Gens, Behind(s, g),
         g.phase <= h.phase \/ \E i \in DOMAIN t : t[i].type = "demo_mode",
         \A i \in DOMAIN t : t[i].type = "phase" => t[i].arg <= h.phase,
         h.phase # NoPhase => h.phase = g.phase \/ \E i \in DOMAIN t : t[i].type = "phase",
         h.busy => h.phase # NoPhase,
         h.assessed => h.phase = 5
  PROVE  Behind(s \o t, h)
<1>. DEFINE u == s \o t
<1>1. /\ DOMAIN s = 1..Len(s) /\ DOMAIN u = 1..Len(s) + Len(t) /\ Len(s) \in Nat /\ DOMAIN t = 1..Len(t)
      /\ Len(t) \in Nat /\ Len(u) = Len(s) + Len(t)
      /\ \A k \in DOMAIN s : k \in DOMAIN u /\ u[k] = s[k]
      /\ \A k \in DOMAIN t : u[Len(s) + k] = t[k]
      /\ \A i \in DOMAIN u : i \in DOMAIN s \/ (i - Len(s) \in DOMAIN t /\ u[i] = t[i - Len(s)])
  BY ConcatIs
<1>2. h.phase # NoPhase => Entered(u)
  <2>. HIDE DEF u
  <2>1. Entered(s) => Entered(u)
    BY <1>1 DEF Entered
  <2>2. (\E i \in DOMAIN t : t[i].type = "phase") => Entered(u)
    <3>1. ASSUME NEW i \in DOMAIN t PROVE Len(s) + i \in DOMAIN u
      BY <1>1
    <3>. QED  BY <1>1, <3>1 DEF Entered
  <2>. QED  BY <2>1, <2>2 DEF Behind
<1>3. ASSUME NEW i \in DOMAIN u, u[i].type = "phase", NoSwitch(u, i, Len(u))
      PROVE  u[i].arg <= h.phase
  <2>1. CASE i \in DOMAIN s
    <3>1. Len(u) \in DOMAIN u
      <4>. HIDE DEF u
      <4>. QED  BY <1>1, <2>1
    <3>2. /\ Len(u) \in DOMAIN s => NoSwitch(s, i, Len(u))
          /\ Len(u) \notin DOMAIN s => NoSwitch(s, i, Len(s))
          /\ \A k \in DOMAIN t : Len(s) + k <= Len(u) => t[k].type # "demo_mode"
      BY <1>3, <2>1, <3>1, NoSwitchIn
    <3>. HIDE DEF u
    <3>3. NoSwitch(s, i, Len(s))
      BY <1>1, <3>2 DEF NoSwitch
    <3>4. g.phase <= h.phase
      BY <1>1, <3>2
    <3>5. u[i] = s[i] /\ s[i] \in Event
      BY <1>1, <2>1
    <3>6. s[i].arg <= g.phase
      BY <1>3, <2>1, <3>3, <3>5 DEF Behind
    <3>7. s[i].arg \in 0..6 /\ g.phase \in 0..6 /\ h.phase \in 0..6
      BY <3>5 DEF Event, Gens
    <3>. QED  BY <3>4, <3>5, <3>6, <3>7
  <2>2. CASE i \notin DOMAIN s
    <3>. HIDE DEF u
    <3>. QED  BY <1>1, <1>3, <2>2
  <2>. QED  BY <2>1, <2>2
<1>. HIDE DEF u
<1>4. Behind(u, h)
  BY <1>2, <1>3 DEF Behind
<1>. QED  BY <1>4 DEF u

-----------------------------------------------------------------------------
(* A step of a run adds events, and the run stands behind them.            *)

LEMMA GoesOn ==
  ASSUME TypeOK, StreamInv, NEW r \in Runs, Going(gen[r]), NEW t \in Seq(Event), NEW h \in Gens,
         \A i \in DOMAIN t : t[i].type = "tool_result" => gen[r].busy,
         \A i \in DOMAIN t : t[i].type = "phase" =>
           i = Len(t) /\ (t[i].arg = gen[r].phase + 1 \/ (t[i].arg = 5 /\ gen[r].phase = 5)),
         Going(h) =>
           /\ gen[r].phase <= h.phase \/ \E i \in DOMAIN t : t[i].type = "demo_mode"
           /\ \A i \in DOMAIN t : t[i].type = "phase" => t[i].arg <= h.phase
           /\ h.phase # NoPhase => h.phase = gen[r].phase \/ \E i \in DOMAIN t : t[i].type = "phase"
           /\ h.busy => h.phase # NoPhase
           /\ h.assessed => h.phase = 5
  PROVE  /\ ResultsAfterPhase(stream[r] \o t) /\ PhasesRise(stream[r] \o t)
         /\ Going(h) => Behind(stream[r] \o t, h)
<1>. DEFINE s == stream[r]
            g == gen[r]
<1>1. s \in Seq(Event) /\ g \in Gens
  BY DEF TypeOK
<1>2. ResultsAfterPhase(s) /\ PhasesRise(s) /\ Behind(s, g)
  BY DEF StreamInv
<1>3. \A i \in DOMAIN t : t[i].type = "tool_result" => Entered(s)
  BY <1>2 DEF Behind
<1>4. ASSUME NEW i \in DOMAIN t, t[i].type = "phase", NEW k \in DOMAIN s, s[k].type = "phase",
             NoSwitch(s, k, Len(s))
      PROVE  Rises(s[k].arg, t[i].arg)
  <2>1. s[k].arg <= g.phase
    BY <1>2, <1>4 DEF Behind
  <2>2. s[k].arg \in 0..6 /\ g.phase \in 0..6
    <3>1. s[k] \in Event
      <4>. HIDE DEF s
      <4>. QED  BY <1>1
    <3>. QED  BY <1>1, <3>1 DEF Event, Gens
  <2>3. t[i].arg = g.phase + 1 \/ (t[i].arg = 5 /\ g.phase = 5)
    BY <1>4
  <2>. HIDE DEF s, g
  <2>. QED  BY <2>1, <2>2, <2>3 DEF Rises
<1>. HIDE DEF s
<1>5. ResultsAfterPhase(s \o t) /\ PhasesRise(s \o t)
  BY <1>1, <1>2, <1>3, <1>4, StreamGrows
<1>6. Going(h) => Behind(s \o t, h)
  BY <1>1, <1>2, BehindGrows
<1>. QED  BY <1>5, <1>6 DEF s

\* The stream of r grows by t, and h is where the run stands then.
Grows(r, t, h) ==
  /\ gen[r].state # "none" /\ h.state # "none"
  /\ stream' = [stream EXCEPT ![r] = @ \o t]
  /\ gen' = [gen EXCEPT ![r] = h]
  /\ ResultsAfterPhase(stream[r] \o t) /\ PhasesRise(stream[r] \o t)
  /\ Going(h) => Behind(stream[r] \o t, h)
  /\ UNCHANGED <<current, conn, view, page>>

LEMMA EventTyped ==
  /\ \A x \in Type : E(x) \in Event /\ E(x).type = x
  /\ \A x \in Type, a \in 0..6 : Ev(x, a) \in Event /\ Ev(x, a).type = x /\ Ev(x, a).arg = a
BY DEF E, Ev, Event

LEMMA ToldIs ==
  ASSUME NEW x \in Tellings
  PROVE  /\ Told(x) \in Seq(Event)
         /\ Told(x) = <<>> \/ \E e \in Event : Told(x) = <<e>> /\ e.type \in {"item", "test"}
<1>1. x \in {"nothing", "item", "red", "green"}
  BY DashboardAssumption DEF Telling
<1>2. E("item") \in Event /\ E("item").type = "item"
  BY EventTyped DEF Type
<1>3. \A a \in 0..6 : Ev("test", a) \in Event /\ Ev("test", a).type = "test"
  BY EventTyped DEF Type
<1>. QED  BY <1>1, <1>2, <1>3 DEF Told

LEMMA NextPhaseGrows ==
  ASSUME TypeOK, StreamInv, NEW r \in Runs, NextPhase(r)
  PROVE  \E t \in Seq(Event), h \in Gens : Grows(r, t, h)
<1>1. gen[r] \in Gens /\ Going(gen[r]) /\ stream \in [Runs -> Seq(Event)]
  BY DEF TypeOK, NextPhase, Under, Going
<1>2. PICK p \in Phases :
        /\ p = gen[r].phase + 1 \/ (p = 5 /\ gen[r].phase = 5)
        /\ gen' = [gen EXCEPT ![r].phase = p, ![r].assessed = (p = gen[r].phase)]
        /\ stream' = [stream EXCEPT ![r] =
             @ \o ((IF gen[r].state = "replay" /\ gen[r].phase = NoPhase THEN <<E("started")>> ELSE <<>>)
                   \o <<Ev("phase", p)>>)]
  BY DEF NextPhase, Emit
<1>. DEFINE again == IF gen[r].state = "replay" /\ gen[r].phase = NoPhase THEN <<E("started")>> ELSE <<>>
            t == again \o <<Ev("phase", p)>>
            h == [gen[r] EXCEPT !.phase = p, !.assessed = (p = gen[r].phase)]
<1>3. t \in Seq(Event) /\ \/ t = <<Ev("phase", p)>>
                          \/ t = <<E("started"), Ev("phase", p)>>
  <2>1. E("started") \in Event /\ Ev("phase", p) \in Event
    BY EventTyped DEF Type, Phases
  <2>. QED  BY <2>1, ShortSeqs, ZenonT(30)
<1>4. h \in Gens /\ h.state = gen[r].state /\ h.busy = gen[r].busy /\ h.phase = p
      /\ (h.assessed <=> p = gen[r].phase)
  <2>1. p \in 0..6 /\ (p = gen[r].phase) \in BOOLEAN
    BY DEF Phases
  <2>. QED  BY <1>1, <2>1 DEF Gens
<1>5. gen' = [gen EXCEPT ![r] = h]
  BY <1>1, <1>2 DEF TypeOK
<1>6. /\ \A i \in DOMAIN t : t[i].type # "tool_result" /\ t[i].type # "demo_mode"
      /\ \A i \in DOMAIN t : t[i].type = "phase" => i = Len(t) /\ t[i].arg = p
      /\ \E i \in DOMAIN t : t[i].type = "phase"
  <2>1. E("started").type = "started" /\ Ev("phase", p).type = "phase" /\ Ev("phase", p).arg = p
    BY EventTyped DEF Type, Phases
  <2>. HIDE DEF t
  <2>2. CASE t = <<Ev("phase", p)>>
    BY <2>1, <2>2
  <2>3. CASE t = <<E("started"), Ev("phase", p)>>
    BY <2>1, <2>3
  <2>. QED  BY <1>3, <2>2, <2>3
<1>7. p \in 1..6 /\ gen[r].phase \in 0..6
  BY <1>1 DEF Phases, Gens
<1>. HIDE DEF t, h
<1>8. /\ ResultsAfterPhase(stream[r] \o t) /\ PhasesRise(stream[r] \o t)
      /\ Going(h) => Behind(stream[r] \o t, h)
  <2>1. p = 5 \/ p = gen[r].phase + 1
    BY <1>2
  <2>2. /\ \A i \in DOMAIN t : t[i].type = "tool_result" => gen[r].busy
        /\ \A i \in DOMAIN t : t[i].type = "phase" =>
             i = Len(t) /\ (t[i].arg = gen[r].phase + 1 \/ (t[i].arg = 5 /\ gen[r].phase = 5))
    BY <1>2, <1>6
  <2>3. /\ gen[r].phase <= h.phase
        /\ \A i \in DOMAIN t : t[i].type = "phase" => t[i].arg <= h.phase
        /\ h.phase # NoPhase
        /\ h.assessed => h.phase = 5
    BY <1>2, <1>4, <1>6, <1>7 DEF NoPhase
  <2>. QED  BY <1>1, <1>3, <1>4, <1>6, <2>2, <2>3, GoesOn
<1>9. gen[r].state # "none" /\ UNCHANGED <<current, conn, view, page>>
  BY <1>1 DEF NextPhase, browser, Going
<1>. QED  BY <1>2, <1>3, <1>4, <1>5, <1>8, <1>9 DEF Grows, t

\* Steps that add no phase and keep the phase.
LEMMA StaysGrows ==
  ASSUME TypeOK, StreamInv, NEW r \in Runs, Going(gen[r]), NEW t \in Seq(Event), NEW h \in Gens,
         \A i \in DOMAIN t : t[i].type # "phase" /\ (t[i].type = "tool_result" => gen[r].busy),
         h.phase = gen[r].phase, h.assessed = gen[r].assessed, h.state # "none",
         h.busy => MayCall(gen[r]),
         stream' = [stream EXCEPT ![r] = @ \o t], gen' = [gen EXCEPT ![r] = h],
         UNCHANGED <<current, conn, view, page>>
  PROVE  Grows(r, t, h)
<1>1. gen[r] \in Gens
  BY DEF TypeOK
<1>2. gen[r].assessed => gen[r].phase = 5
  BY DEF StreamInv, Behind
<1>3. /\ gen[r].phase <= h.phase
      /\ h.busy => h.phase # NoPhase
      /\ h.assessed => h.phase = 5
  BY <1>1, <1>2 DEF Gens, MayCall, NoPhase
<1>4. /\ ResultsAfterPhase(stream[r] \o t) /\ PhasesRise(stream[r] \o t)
      /\ Going(h) => Behind(stream[r] \o t, h)
  BY <1>3, GoesOn
<1>5. gen[r].state # "none"
  BY DEF Going
<1>. QED  BY <1>4, <1>5 DEF Grows

LEMMA CallGrows ==
  ASSUME TypeOK, StreamInv, NEW r \in Runs, CallTool(r)
  PROVE  \E t \in Seq(Event), h \in Gens : Grows(r, t, h)
<1>. DEFINE t == <<E("tool_call")>>
            h == [gen[r] EXCEPT !.busy = TRUE]
<1>1. gen[r] \in Gens /\ Going(gen[r])
  BY DEF TypeOK, CallTool, Under, Going
<1>2. t \in Seq(Event) /\ \A i \in DOMAIN t : t[i].type = "tool_call"
  BY EventTyped DEF Type
<1>3. h \in Gens /\ h.phase = gen[r].phase /\ h.assessed = gen[r].assessed /\ h.state = gen[r].state
  BY <1>1 DEF Gens
<1>4. /\ stream' = [stream EXCEPT ![r] = @ \o t] /\ gen' = [gen EXCEPT ![r] = h]
      /\ UNCHANGED <<current, conn, view, page>> /\ MayCall(gen[r])
  BY DEF CallTool, Emit, browser
<1>5. h.state # "none"
  BY <1>1, <1>3 DEF Going
<1>. HIDE DEF t, h
<1>. QED  BY <1>1, <1>2, <1>3, <1>4, <1>5, StaysGrows

LEMMA ReturnGrows ==
  ASSUME TypeOK, StreamInv, NEW r \in Runs, ToolReturns(r)
  PROVE  \E t \in Seq(Event), h \in Gens : Grows(r, t, h)
<1>1. gen[r] \in Gens /\ Going(gen[r]) /\ gen[r].busy
  BY DEF TypeOK, ToolReturns, Going
<1>2. PICK x \in Tellings :
        /\ stream' = [stream EXCEPT ![r] = @ \o (Told(x) \o <<E("tool_result")>>)]
        /\ gen' = [gen EXCEPT ![r].busy = FALSE, ![r].green = x = "green" \/ (@ /\ x # "red")]
  BY DEF ToolReturns, Emit
<1>. DEFINE t == Told(x) \o <<E("tool_result")>>
            green == x = "green" \/ (gen[r].green /\ x # "red")
            h == [gen[r] EXCEPT !.busy = FALSE, !.green = green]
<1>3. t \in Seq(Event) /\ \A i \in DOMAIN t : t[i].type # "phase"
  <2>1. E("tool_result") \in Event /\ E("tool_result").type = "tool_result"
    BY EventTyped DEF Type
  <2>2. CASE Told(x) = <<>>
    <3>1. t = <<E("tool_result")>>
      BY <2>1, <2>2, ShortSeqs
    <3>. HIDE DEF t
    <3>. QED  BY <2>1, <3>1, ShortSeqs
  <2>3. CASE \E e \in Event : Told(x) = <<e>> /\ e.type \in {"item", "test"}
    <3>1. PICK e \in Event : Told(x) = <<e>> /\ e.type \in {"item", "test"}
      BY <2>3
    <3>2. t = <<e, E("tool_result")>>
      BY <2>1, <3>1, ShortSeqs
    <3>. HIDE DEF t
    <3>3. t \in Seq(Event) /\ DOMAIN t = {1, 2} /\ t[1] = e /\ t[2] = E("tool_result")
      BY <2>1, <3>2, ShortSeqs, Zenon
    <3>. QED  BY <2>1, <3>1, <3>3
  <2>. QED  BY <2>2, <2>3, ToldIs
<1>4. /\ h \in Gens /\ h.phase = gen[r].phase /\ h.assessed = gen[r].assessed /\ h.state = gen[r].state
      /\ ~h.busy
  <2>1. green \in BOOLEAN
    BY Zenon
  <2>. HIDE DEF green
  <2>. QED  BY <1>1, <2>1 DEF Gens
<1>5. gen' = [gen EXCEPT ![r] = h]
  BY <1>2 DEF TypeOK
<1>6. h.state # "none" /\ UNCHANGED <<current, conn, view, page>>
  BY <1>1, <1>4 DEF Going, ToolReturns, browser
<1>. HIDE DEF t, h
<1>7. stream' = [stream EXCEPT ![r] = @ \o t]
  BY <1>2 DEF t
<1>. QED  BY <1>1, <1>3, <1>4, <1>5, <1>6, <1>7, StaysGrows

\* A run that ends leaves nothing to stand behind.
LEMMA EndGrows ==
  ASSUME TypeOK, StreamInv, NEW r \in Runs, Going(gen[r]), NEW t \in Seq(Event),
         \A i \in DOMAIN t : t[i].type = "tool_result" => gen[r].busy,
         \A i \in DOMAIN t : t[i].type = "phase" => i = Len(t) /\ t[i].arg = gen[r].phase + 1,
         stream' = [stream EXCEPT ![r] = @ \o t], gen' = [gen EXCEPT ![r].state = "over"],
         UNCHANGED <<current, conn, view, page>>
  PROVE  \E h \in Gens : Grows(r, t, h)
<1>. DEFINE h == [gen[r] EXCEPT !.state = "over"]
<1>1. h \in Gens /\ h.state = "over" /\ ~Going(h)
  BY DEF TypeOK, Gens, Going
<1>2. gen' = [gen EXCEPT ![r] = h]
  BY DEF TypeOK
<1>. HIDE DEF h
<1>3. ResultsAfterPhase(stream[r] \o t) /\ PhasesRise(stream[r] \o t)
  BY <1>1, GoesOn
<1>4. gen[r].state # "none" /\ h.state # "none"
  BY <1>1 DEF Going
<1>. QED  BY <1>1, <1>2, <1>3, <1>4 DEF Grows

LEMMA FinishGrows ==
  ASSUME TypeOK, StreamInv, NEW r \in Runs, Finish(r)
  PROVE  \E t \in Seq(Event), h \in Gens : Grows(r, t, h)
<1>. DEFINE t == Resolutions
<1>1. Going(gen[r])
  BY DEF Finish, Under, Going
<1>2. t \in Seq(Event) /\ \A i \in DOMAIN t : t[i].type = "resolved"
  <2>1. /\ Ev("resolved", 0) \in Event /\ Ev("resolved", 0).type = "resolved"
        /\ Ev("resolved", 1) \in Event /\ Ev("resolved", 1).type = "resolved"
    BY EventTyped DEF Type
  <2>2. t = <<Ev("resolved", 0), Ev("resolved", 1)>> \/ t = <<Ev("resolved", 0)>>
    BY DEF Resolutions
  <2>. HIDE DEF t
  <2>3. t \in Seq(Event) /\ \A i \in DOMAIN t : t[i].type \in {"resolved"}
    BY <2>1, <2>2, ShortTyped
  <2>. QED  BY <2>3
<1>3. /\ stream' = [stream EXCEPT ![r] = @ \o t] /\ gen' = [gen EXCEPT ![r].state = "over"]
      /\ UNCHANGED <<current, conn, view, page>>
  BY DEF Finish, Emit, browser
<1>. HIDE DEF t
<1>. QED  BY <1>1, <1>2, <1>3, EndGrows

LEMMA UnverifiedGrows ==
  ASSUME TypeOK, StreamInv, NEW r \in Runs, EndUnverified(r)
  PROVE  \E t \in Seq(Event), h \in Gens : Grows(r, t, h)
<1>. DEFINE t == <<E("error")>> \o IF Incident THEN <<Ev("resolved", 1)>> ELSE <<>>
<1>1. Going(gen[r])
  BY DEF EndUnverified, Under, Going
<1>2. t \in Seq(Event) /\ \A i \in DOMAIN t : t[i].type \in {"error", "resolved"}
  <2>1. /\ E("error") \in Event /\ E("error").type = "error"
        /\ Ev("resolved", 1) \in Event /\ Ev("resolved", 1).type = "resolved"
    BY EventTyped DEF Type
  <2>2. t = <<E("error"), Ev("resolved", 1)>> \/ t = <<E("error")>>
    BY <2>1, ShortSeqs
  <2>. HIDE DEF t
  <2>3. t \in Seq(Event) /\ \A i \in DOMAIN t : t[i].type \in {"error", "resolved"}
    BY <2>1, <2>2, ShortTyped
  <2>. QED  BY <2>3
<1>3. /\ stream' = [stream EXCEPT ![r] = @ \o t] /\ gen' = [gen EXCEPT ![r].state = "over"]
      /\ UNCHANGED <<current, conn, view, page>>
  BY DEF EndUnverified, Emit, browser
<1>. HIDE DEF t
<1>. QED  BY <1>1, <1>2, <1>3, EndGrows

LEMMA BreakGrows ==
  ASSUME TypeOK, StreamInv, NEW r \in Runs, Break(r)
  PROVE  \E t \in Seq(Event), h \in Gens : Grows(r, t, h)
<1>1. Going(gen[r]) /\ gen[r] \in Gens
  BY DEF Break, Under, Going, TypeOK
<1>2. CASE /\ gen' = [gen EXCEPT ![r] = [NoGen EXCEPT !.state = "replay"]]
           /\ stream' = [stream EXCEPT ![r] = @ \o <<E("demo_mode")>>]
  <2>. DEFINE t == <<E("demo_mode")>>
              h == [NoGen EXCEPT !.state = "replay"]
  <2>1. t \in Seq(Event) /\ DOMAIN t = {1} /\ t[1].type = "demo_mode"
    BY EventTyped, ShortSeqs DEF Type
  <2>2. h \in Gens /\ h.state = "replay" /\ h.phase = NoPhase /\ ~h.busy /\ ~h.assessed
    <3>. DEFINE z == NoGen
    <3>1. z \in Gens /\ z.phase = NoPhase /\ ~z.busy /\ ~z.assessed
      BY DEF NoGen, Gens, NoPhase
    <3>2. h = [z EXCEPT !.state = "replay"]
      OBVIOUS
    <3>. HIDE DEF h, z
    <3>. QED  BY <3>1, <3>2 DEF Gens
  <2>3. stream' = [stream EXCEPT ![r] = @ \o t] /\ gen' = [gen EXCEPT ![r] = h]
    BY <1>2
  <2>. HIDE DEF t, h
  <2>4. /\ ResultsAfterPhase(stream[r] \o t) /\ PhasesRise(stream[r] \o t)
        /\ Going(h) => Behind(stream[r] \o t, h)
    BY <1>1, <2>1, <2>2, GoesOn
  <2>5. gen[r].state # "none" /\ h.state # "none" /\ UNCHANGED <<current, conn, view, page>>
    BY <1>1, <2>2 DEF Going, Break, browser
  <2>. QED  BY <2>1, <2>2, <2>3, <2>4, <2>5 DEF Grows
<1>3. CASE /\ gen' = [gen EXCEPT ![r].state = "over"]
           /\ stream' = [stream EXCEPT ![r] = @ \o <<E("fatal")>>]
  <2>. DEFINE t == <<E("fatal")>>
  <2>1. t \in Seq(Event) /\ DOMAIN t = {1} /\ t[1].type = "fatal"
    BY EventTyped, ShortSeqs DEF Type
  <2>2. stream' = [stream EXCEPT ![r] = @ \o t] /\ UNCHANGED <<current, conn, view, page>>
    BY <1>3 DEF Break, browser
  <2>. HIDE DEF t
  <2>. QED  BY <1>1, <1>3, <2>1, <2>2, EndGrows
<1>. QED  BY <1>2, <1>3 DEF Break, Emit

LEMMA StopGrows ==
  ASSUME TypeOK, StreamInv, NEW r \in Runs, StopReplay(r)
  PROVE  \E t \in Seq(Event), h \in Gens : Grows(r, t, h)
<1>. DEFINE g == gen[r]
<1>1. Going(g)
  BY DEF StopReplay, Going
<1>2. PICK e : /\ stream' = [stream EXCEPT ![r] = @ \o <<e>>]
               /\ \/ g.busy /\ \E x \in Tellings : e = Head(Told(x) \o <<E("tool_result")>>)
                  \/ e = E("started")
                  \/ e \in Event /\ (e = Ev("phase", g.phase + 1) \/ e.type \notin {"phase", "tool_result"})
  <2>1. E("tool_call").type = "tool_call" /\ E("error").type = "error" /\ Ev("resolved", 0).type = "resolved"
    BY EventTyped DEF Type
  <2>. QED  BY <2>1 DEF StopReplay, Emit
<1>3. /\ e \in Event
      /\ e.type = "tool_result" => g.busy
      /\ e.type = "phase" => e.arg = g.phase + 1
  <2>0. /\ E("tool_result") \in Event /\ E("tool_result").type = "tool_result"
        /\ E("started") \in Event /\ E("started").type = "started"
    BY EventTyped DEF Type
  <2>1. ASSUME NEW x \in Tellings
        PROVE  LET a == Head(Told(x) \o <<E("tool_result")>>) IN a \in Event /\ a.type # "phase"
    <3>1. CASE Told(x) = <<>>
      <4>1. Told(x) \o <<E("tool_result")>> = <<E("tool_result")>>
        BY <2>0, <3>1, ShortSeqs
      <4>2. Head(<<E("tool_result")>>) = E("tool_result")
        BY <2>0
      <4>. QED  BY <2>0, <4>1, <4>2
    <3>2. CASE \E a \in Event : Told(x) = <<a>> /\ a.type \in {"item", "test"}
      <4>1. PICK a \in Event : Told(x) = <<a>> /\ a.type \in {"item", "test"}
        BY <3>2
      <4>2. Told(x) \o <<E("tool_result")>> = <<a, E("tool_result")>>
        BY <2>0, <4>1, ShortSeqs
      <4>3. Head(<<a, E("tool_result")>>) = a
        BY <2>0
      <4>. QED  BY <4>1, <4>2, <4>3
    <3>. QED  BY <3>1, <3>2, ToldIs
  <2>2. Ev("phase", g.phase + 1).arg = g.phase + 1 /\ Ev("phase", g.phase + 1).type = "phase"
    BY DEF Ev
  <2>. HIDE DEF g
  <2>. QED  BY <1>2, <2>0, <2>1, <2>2
<1>. DEFINE t == <<e>>
<1>4. t \in Seq(Event) /\ DOMAIN t = {1} /\ t[1] = e /\ Len(t) = 1
  BY <1>3, ShortSeqs
<1>5. /\ stream' = [stream EXCEPT ![r] = @ \o t] /\ gen' = [gen EXCEPT ![r].state = "over"]
      /\ UNCHANGED <<current, conn, view, page>>
  BY <1>2 DEF StopReplay, browser
<1>. HIDE DEF t
<1>. QED  BY <1>1, <1>3, <1>4, <1>5, EndGrows

LEMMA RunGrows ==
  ASSUME TypeOK, StreamInv, NEW r \in Runs, Run(r)
  PROVE  \E t \in Seq(Event), h \in Gens : Grows(r, t, h)
BY NextPhaseGrows, CallGrows, ReturnGrows, FinishGrows, UnverifiedGrows, BreakGrows, StopGrows DEF Run

-----------------------------------------------------------------------------
(* The page, while its stream grows.                                       *)

\* What of a stream stays when it grows.
LEMMA Longer ==
  ASSUME NEW q \in Runs, stream[q] \in Seq(Event), NEW t \in Seq(Event), stream'[q] = stream[q] \o t
  PROVE  /\ stream'[q] \in Seq(Event) /\ Len(stream[q]) <= Len(stream'[q])
         /\ \A i \in DOMAIN stream[q] : i \in DOMAIN stream'[q] /\ stream'[q][i] = stream[q][i]
         /\ \A i \in DOMAIN stream[q] : Reachable(q, i) => Reachable(q, i)'
         /\ \A n \in Nat : n <= Len(stream[q]) =>
              /\ SubSeq(stream'[q], 1, n) = SubSeq(stream[q], 1, n)
              /\ \A i \in Nat : NoSwitch(stream[q], i, n) => NoSwitch(stream'[q], i, n)
<1>. DEFINE s == stream[q]
            u == stream'[q]
<1>1. /\ u \in Seq(Event) /\ Len(u) = Len(s) + Len(t) /\ Len(s) \in Nat /\ Len(t) \in Nat
      /\ DOMAIN s = 1..Len(s) /\ DOMAIN u = 1..Len(u)
      /\ \A i \in DOMAIN s : i \in DOMAIN u /\ u[i] = s[i]
  BY ConcatIs
<1>2. s \in Seq(Event)
  OBVIOUS
<1>. HIDE DEF s, u
<1>3. Len(s) <= Len(u)
  BY <1>1
<1>4. ASSUME NEW i \in DOMAIN s, Reachable(q, i) PROVE Reachable(q, i)'
  <2>1. i \in DOMAIN u
    BY <1>1
  <2>2. \A j \in 1..(i - 1) : j \in DOMAIN s
    BY <1>1
  <2>. QED  BY <1>1, <1>4, <2>1, <2>2 DEF Reachable, s, u
<1>5. ASSUME NEW n \in Nat, n <= Len(s)
      PROVE  /\ SubSeq(u, 1, n) = SubSeq(s, 1, n)
             /\ \A i \in Nat : NoSwitch(s, i, n) => NoSwitch(u, i, n)
  <2>1. /\ SubSeq(s, 1, n) \in Seq(Event) /\ Len(SubSeq(s, 1, n)) = n
        /\ \A i \in 1..n : SubSeq(s, 1, n)[i] = s[i]
    BY <1>2, <1>5, PrefixIs
  <2>2. /\ SubSeq(u, 1, n) \in Seq(Event) /\ Len(SubSeq(u, 1, n)) = n
        /\ \A i \in 1..n : SubSeq(u, 1, n)[i] = u[i]
    BY <1>1, <1>5, PrefixIs
  <2>3. \A i \in 1..n : u[i] = s[i] /\ i \in DOMAIN s
    BY <1>1, <1>5
  <2>4. SubSeq(u, 1, n) = SubSeq(s, 1, n)
    BY <2>1, <2>2, <2>3, SeqEqual
  <2>5. ASSUME NEW i \in Nat, NoSwitch(s, i, n), NEW k \in DOMAIN u, i < k, k <= n
        PROVE  u[k].type # "demo_mode"
    BY <1>1, <2>3, <2>5 DEF NoSwitch
  <2>. QED  BY <2>4, <2>5 DEF NoSwitch
<1>. QED  BY <1>1, <1>3, <1>4, <1>5 DEF s, u

LEMMA PageKept ==
  ASSUME TypeOK, SourceInv, CursorInv, FirstInv, CatchUpInv, UNCHANGED <<conn, view, page>>,
         \A q \in Runs : \E t \in Seq(Event) : stream'[q] = stream[q] \o t
  PROVE  SourceInv' /\ CursorInv' /\ FirstInv' /\ CatchUpInv'
<1>0. \A q \in Runs : stream[q] \in Seq(Event) /\ conn[q] \in Conns
  BY DEF TypeOK
<1>1. SourceInv'
  BY DEF SourceInv, Alive
<1>2. ASSUME NEW q \in Runs, conn[q].state = "open"
      PROVE  /\ conn[q].at \in Nat \ {0} /\ conn[q].at - 1 \in Nat
             /\ conn[q].at - 1 <= Len(stream[q]) /\ conn[q].opened > 0
             /\ conn[q].done <=> conn[q].at > 1 /\ Terminal(stream[q][conn[q].at - 1])
             /\ \A i \in 1..(conn[q].at - 1) : Reachable(q, i) /\ i \in DOMAIN stream[q]
  <2>1. conn[q].at \in Nat \ {0} /\ conn[q].at - 1 \in Nat
    BY <1>0 DEF Conns
  <2>. QED  BY <1>2, <2>1 DEF CursorInv, Reachable
<1>3. CursorInv'
  <2>1. ASSUME NEW q \in Runs, conn[q].state = "open"
        PROVE  /\ conn[q].at - 1 <= Len(stream'[q])
               /\ conn[q].done <=> conn[q].at > 1 /\ Terminal(stream'[q][conn[q].at - 1])
               /\ \A i \in 1..(conn[q].at - 1) : Reachable(q, i)'
    <3>1. PICK t \in Seq(Event) : stream'[q] = stream[q] \o t
      OBVIOUS
    <3>2. /\ Len(stream[q]) <= Len(stream'[q]) /\ stream'[q] \in Seq(Event)
          /\ \A i \in DOMAIN stream[q] : stream'[q][i] = stream[q][i] /\ (Reachable(q, i) => Reachable(q, i)')
      BY <1>0, <3>1, Longer
    <3>3. conn[q].at - 1 <= Len(stream'[q])
      BY <1>0, <1>2, <2>1, <3>2
    <3>4. conn[q].at > 1 => conn[q].at - 1 \in DOMAIN stream[q]
      BY <1>2, <2>1
    <3>. QED  BY <1>2, <2>1, <3>2, <3>3, <3>4
  <2>2. conn' = conn
    OBVIOUS
  <2>. QED  BY <1>2, <2>1, <2>2 DEF CursorInv
<1>4. \A q \in Runs : conn[q].state = "open" => Delivered(q)' = Delivered(q)
  <2>1. ASSUME NEW q \in Runs, conn[q].state = "open" PROVE Delivered(q)' = Delivered(q)
    <3>1. PICK t \in Seq(Event) : stream'[q] = stream[q] \o t
      OBVIOUS
    <3>. QED  BY <1>0, <1>2, <2>1, <3>1, Longer DEF Delivered
  <2>. QED  BY <2>1
<1>5. FirstInv'
  <2>. SUFFICES ASSUME NEW q \in Runs, Alive(q)
                PROVE  /\ conn[q].opened = 0 => view = InitialView("running") /\ conn[q].state = "connecting"
                       /\ conn[q].opened = 1 /\ conn[q].state = "open" =>
                            /\ [view EXCEPT !.demo = FALSE] = Folded(Recording(Delivered(q)'))
                            /\ ~conn[q].done => view.status = "running"
                            /\ view.phase # NoPhase =>
                                 \E i \in 1..(conn[q].at - 1) :
                                   /\ stream'[q][i] = Ev("phase", view.phase)
                                   /\ NoSwitch(stream'[q], i, conn[q].at - 1)
    BY DEF FirstInv, Alive
  <2>1. ASSUME conn[q].state = "open", NEW i \in 1..(conn[q].at - 1), NoSwitch(stream[q], i, conn[q].at - 1)
        PROVE  stream'[q][i] = stream[q][i] /\ NoSwitch(stream'[q], i, conn[q].at - 1)
    <3>1. PICK t \in Seq(Event) : stream'[q] = stream[q] \o t
      OBVIOUS
    <3>2. i \in Nat /\ i \in DOMAIN stream[q] /\ conn[q].at - 1 \in Nat /\ conn[q].at - 1 <= Len(stream[q])
      BY <1>2, <2>1
    <3>. QED  BY <1>0, <2>1, <3>1, <3>2, Longer
  <2>. QED  BY <1>4, <2>1 DEF FirstInv
<1>6. CatchUpInv'
  <2>. SUFFICES ASSUME NEW q \in Runs, NEW f \in Fields, Alive(q)
                PROVE  /\ view[f] # InitialView("running")[f] =>
                            \E i \in DOMAIN stream'[q] : Reachable(q, i)' /\ Sets(stream'[q][i], f)
                       /\ conn[q].state = "open" =>
                            /\ Folded(Delivered(q)') \in Views
                            /\ view[f] # Folded(Delivered(q)')[f] =>
                                 \E i \in DOMAIN stream'[q] : i >= conn[q].at /\ Reachable(q, i)' /\ Sets(stream'[q][i], f)
    BY DEF CatchUpInv, Alive
  <2>1. PICK t \in Seq(Event) : stream'[q] = stream[q] \o t
    OBVIOUS
  <2>2. \A i \in DOMAIN stream[q] :
          /\ i \in DOMAIN stream'[q] /\ stream'[q][i] = stream[q][i]
          /\ Reachable(q, i) => Reachable(q, i)'
    BY <1>0, <2>1, Longer
  <2>. QED  BY <1>4, <2>2 DEF CatchUpInv
<1>. QED  BY <1>1, <1>3, <1>5, <1>6

LEMMA GrowsKeeps ==
  ASSUME IInv, NEW r \in Runs, NEW t \in Seq(Event), NEW h \in Gens, Grows(r, t, h)
  PROVE  IInv'
<1>. USE DEF IInv
<1>0. stream \in [Runs -> Seq(Event)] /\ gen \in [Runs -> Gens]
  BY DEF TypeOK
<1>1. /\ \A q \in Runs : stream'[q] = IF q = r THEN stream[r] \o t ELSE stream[q]
      /\ \A q \in Runs : gen'[q] = IF q = r THEN h ELSE gen[q]
      /\ stream[r] \o t \in Seq(Event)
  BY <1>0, ConcatIs DEF Grows
<1>2. TypeOK'
  <2>1. stream' \in [Runs -> Seq(Event)] /\ gen' \in [Runs -> Gens]
    BY <1>0, <1>1 DEF Grows
  <2>. QED  BY <2>1 DEF TypeOK, Grows
<1>3. StreamInv'
  <2>1. conn' = conn
    BY DEF Grows
  <2>. QED  BY <1>1, <2>1 DEF StreamInv, Grows
<1>4. \A q \in Runs : \E u \in Seq(Event) : stream'[q] = stream[q] \o u
  <2>1. \A q \in Runs : stream[q] \o <<>> = stream[q] /\ <<>> \in Seq(Event)
    BY <1>0, ConcatEmptySeq
  <2>. QED  BY <1>1, <2>1
<1>5. UNCHANGED <<conn, view, page>>
  BY DEF Grows
<1>6. SourceInv' /\ CursorInv' /\ FirstInv' /\ CatchUpInv'
  BY <1>4, <1>5, PageKept
<1>. QED  BY <1>2, <1>3, <1>6

-----------------------------------------------------------------------------
(* Steps of the page and of the world.                                     *)

LEMMA GenTyped ==
  /\ NoGen \in Gens /\ NoGen.phase = NoPhase /\ ~NoGen.busy /\ ~NoGen.assessed
  /\ Left \in Gens /\ Left.state = "over"
<1>1. NoGen \in Gens /\ NoGen.phase = NoPhase /\ ~NoGen.busy /\ ~NoGen.assessed
  BY DEF NoGen, Gens, NoPhase
<1>2. \A g \in Gens : [g EXCEPT !.state = "over"] \in Gens /\ [g EXCEPT !.state = "over"].state = "over"
  BY DEF Gens
<1>. QED  BY <1>1, <1>2 DEF Left

LEMMA ConnTyped ==
  /\ NoConn \in Conns /\ NoConn.state = "none" /\ NoConn.at = 1 /\ NoConn.opened = 0
  /\ Closed \in Conns /\ Closed.state = "closed"
<1>1. NoConn \in Conns /\ NoConn.state = "none" /\ NoConn.at = 1 /\ NoConn.opened = 0
  BY DEF NoConn, Conns
<1>2. \A c \in Conns : [c EXCEPT !.state = "closed"] \in Conns /\ [c EXCEPT !.state = "closed"].state = "closed"
  BY DEF Conns
<1>. QED  BY <1>1, <1>2 DEF Closed

LEMMA EmptyStream == ResultsAfterPhase(<<>>) /\ PhasesRise(<<>>) /\ <<>> \in Seq(Event)
BY DEF ResultsAfterPhase, PhasesRise

\* A page with no live source promises nothing of it.
LEMMA DeadPage ==
  ASSUME \A r \in Runs : ~Alive(r)'
  PROVE  CursorInv' /\ FirstInv' /\ CatchUpInv' /\ \A r \in Runs : Alive(r)' => r = page'.source
<1>1. \A r \in Runs : conn'[r].state # "open"
  BY DEF Alive
<1>2. CursorInv'
  BY <1>1 DEF CursorInv
<1>3. FirstInv' /\ CatchUpInv'
  BY DEF FirstInv, CatchUpInv
<1>. QED  BY <1>2, <1>3

LEMMA SupersededIs ==
  ASSUME TypeOK, NEW q \in Runs
  PROVE  LET g == Superseded[q] IN
         /\ g \in Gens /\ g.phase = gen[q].phase /\ g.busy = gen[q].busy /\ g.assessed = gen[q].assessed
         /\ Going(g) <=> Going(gen[q])
         /\ g.state = "none" <=> gen[q].state = "none"
<1>1. gen[q] \in Gens
  BY DEF TypeOK
<1>2. Superseded[q] = gen[q] \/ (gen[q].state = "replay" /\ Superseded[q] = [gen[q] EXCEPT !.state = "stopping"])
  BY DEF Superseded
<1>3. CASE Superseded[q] = gen[q]
  BY <1>1, <1>3
<1>4. CASE gen[q].state = "replay" /\ Superseded[q] = [gen[q] EXCEPT !.state = "stopping"]
  <2>. DEFINE g == Superseded[q]
  <2>1. g \in Gens /\ g.phase = gen[q].phase /\ g.busy = gen[q].busy /\ g.assessed = gen[q].assessed
        /\ g.state = "stopping"
    BY <1>1, <1>4 DEF Gens
  <2>. QED  BY <1>4, <2>1 DEF Going
<1>. QED  BY <1>2, <1>3, <1>4

LEMMA ElsewhereKeeps ==
  ASSUME TypeOK, StreamInv, NEW r \in Runs, StartsElsewhere(r)
  PROVE  /\ gen' \in [Runs -> Gens] /\ current' \in Runs /\ stream' = stream
         /\ conn' = conn => StreamInv'
<1>1. gen' = [Superseded EXCEPT ![r] = Left] /\ stream' = stream /\ current' = r /\ gen[r].state = "none"
  BY DEF StartsElsewhere, Unused
<1>2. \A q \in Runs : Superseded[q] \in Gens
  BY SupersededIs
<1>3. DOMAIN Superseded = Runs
  BY DEF Superseded
<1>4. \A q \in Runs : gen'[q] = IF q = r THEN Left ELSE Superseded[q]
  BY <1>1, <1>3
<1>5. gen' \in [Runs -> Gens]
  <2>1. DOMAIN gen' = Runs /\ gen' = [q \in Runs |-> gen'[q]]
    BY <1>1, <1>3
  <2>. QED  BY <1>2, <1>4, <2>1, GenTyped
<1>6. ASSUME conn' = conn, NEW q \in Runs
      PROVE  /\ ResultsAfterPhase(stream'[q]) /\ PhasesRise(stream'[q])
             /\ Going(gen'[q]) => Behind(stream'[q], gen'[q])
             /\ gen'[q].state = "none" => stream'[q] = <<>> /\ conn'[q] = NoConn
  <2>1. /\ ResultsAfterPhase(stream[q]) /\ PhasesRise(stream[q])
        /\ Going(gen[q]) => Behind(stream[q], gen[q])
        /\ gen[q].state = "none" => stream[q] = <<>> /\ conn[q] = NoConn
    BY DEF StreamInv
  <2>2. CASE q = r
    <3>1. gen'[q].state = "over"
      BY <1>4, <2>2, GenTyped
    <3>. QED  BY <1>1, <2>1, <3>1 DEF Going
  <2>3. CASE q # r
    <3>1. gen'[q] = Superseded[q]
      BY <1>4, <2>3
    <3>2. Going(gen[q]) => Behind(stream[q], Superseded[q])
      BY <2>1, SupersededIs DEF Behind
    <3>. QED  BY <1>1, <1>6, <2>1, <3>1, <3>2, SupersededIs
  <2>. QED  BY <2>2, <2>3
<1>. QED  BY <1>1, <1>5, <1>6 DEF StreamInv

LEMMA OtherKeeps ==
  ASSUME IInv, NEW r \in Runs, OtherStarts(r)
  PROVE  IInv'
<1>. USE DEF IInv
<1>1. StartsElsewhere(r) /\ UNCHANGED <<conn, view, page>>
  BY DEF OtherStarts, browser
<1>2. /\ gen' \in [Runs -> Gens] /\ current' \in Runs /\ stream' = stream /\ StreamInv'
  BY <1>1, ElsewhereKeeps
<1>3. TypeOK'
  BY <1>1, <1>2 DEF TypeOK
<1>4. \A q \in Runs : \E u \in Seq(Event) : stream'[q] = stream[q] \o u
  <2>1. \A q \in Runs : stream[q] \o <<>> = stream[q] /\ <<>> \in Seq(Event)
    BY ConcatEmptySeq DEF TypeOK
  <2>. QED  BY <1>2, <2>1
<1>5. SourceInv' /\ CursorInv' /\ FirstInv' /\ CatchUpInv'
  BY <1>1, <1>4, PageKept
<1>. QED  BY <1>2, <1>3, <1>5

\* Closing sources: what is closed is forgotten.
LEMMA ForgetKeeps ==
  ASSUME TypeOK, StreamInv, conn' \in [Runs -> Conns], Forget,
         \A q \in Runs : conn'[q] = conn[q] \/ conn'[q].state = "closed"
  PROVE  StreamInv' /\ stream' \in [Runs -> Seq(Event)] /\ gen' \in [Runs -> Gens] /\ current' = current
<1>1. \A q \in Runs : /\ stream'[q] = IF conn'[q].state = "closed" THEN <<>> ELSE stream[q]
                      /\ gen'[q] = IF conn'[q].state = "closed" THEN Left ELSE gen[q]
  BY DEF Forget
<1>2. stream' \in [Runs -> Seq(Event)] /\ gen' \in [Runs -> Gens]
  <2>1. \A q \in Runs : stream'[q] \in Seq(Event) /\ gen'[q] \in Gens
    BY <1>1, EmptyStream, GenTyped DEF TypeOK
  <2>. QED  BY <2>1 DEF Forget
<1>3. ASSUME NEW q \in Runs
      PROVE  /\ ResultsAfterPhase(stream'[q]) /\ PhasesRise(stream'[q])
             /\ Going(gen'[q]) => Behind(stream'[q], gen'[q])
             /\ gen'[q].state = "none" => stream'[q] = <<>> /\ conn'[q] = NoConn
  <2>1. CASE conn'[q].state = "closed"
    <3>1. stream'[q] = <<>> /\ gen'[q].state = "over"
      BY <1>1, <2>1, GenTyped
    <3>. QED  BY <3>1, EmptyStream DEF Going
  <2>2. CASE conn'[q].state # "closed"
    <3>1. stream'[q] = stream[q] /\ gen'[q] = gen[q] /\ conn'[q] = conn[q]
      BY <1>1, <2>2
    <3>. QED  BY <3>1 DEF StreamInv
  <2>. QED  BY <2>1, <2>2
<1>. QED  BY <1>2, <1>3 DEF StreamInv, Forget

LEMMA StoppedIs ==
  ASSUME TypeOK, SourceInv, conn' = Stopped
  PROVE  /\ conn' \in [Runs -> Conns] /\ \A q \in Runs : conn'[q] = conn[q] \/ conn'[q].state = "closed"
         /\ \A q \in Runs : ~Alive(q)'
<1>1. \A q \in Runs : conn'[q] = IF q = page.source THEN Closed ELSE conn[q]
  BY DEF Stopped
<1>2. \A q \in Runs : conn'[q] \in Conns /\ (conn'[q] = conn[q] \/ conn'[q].state = "closed")
  BY <1>1, ConnTyped DEF TypeOK
<1>3. \A q \in Runs : ~Alive(q)'
  BY <1>1, ConnTyped DEF SourceInv, Alive
<1>. QED  BY <1>2, <1>3 DEF Stopped

LEMMA ClickKeeps ==
  ASSUME IInv, Click
  PROVE  IInv'
<1>. USE DEF IInv
<1>1. /\ conn' = Stopped /\ Forget /\ view' = InitialView("running")
      /\ page' = [page EXCEPT !.asking = TRUE, !.source = NoRun, !.run = NoRun]
  BY DEF Click
<1>2. /\ conn' \in [Runs -> Conns] /\ \A q \in Runs : conn'[q] = conn[q] \/ conn'[q].state = "closed"
      /\ \A q \in Runs : ~Alive(q)'
  BY <1>1, StoppedIs
<1>3. StreamInv' /\ stream' \in [Runs -> Seq(Event)] /\ gen' \in [Runs -> Gens] /\ current' = current
  BY <1>1, <1>2, ForgetKeeps
<1>4. page' \in Pages /\ page'.source = NoRun /\ page'.run = NoRun
  BY <1>1 DEF TypeOK, Pages
<1>5. TypeOK'
  BY <1>1, <1>2, <1>3, <1>4, InitialViewTyped DEF TypeOK
<1>6. CursorInv' /\ FirstInv' /\ CatchUpInv' /\ SourceInv'
  BY <1>1, <1>2, <1>4, DeadPage DEF SourceInv
<1>. QED  BY <1>3, <1>5, <1>6

LEMMA DoneKeeps ==
  ASSUME IInv, NEW r \in Runs, Done(r)
  PROVE  IInv'
<1>. USE DEF IInv
<1>1. /\ conn' = Stopped /\ Forget /\ view' = view /\ page' = [page EXCEPT !.source = NoRun]
      /\ conn[r].state = "open"
  BY DEF Done
<1>2. /\ conn' \in [Runs -> Conns] /\ \A q \in Runs : conn'[q] = conn[q] \/ conn'[q].state = "closed"
      /\ \A q \in Runs : ~Alive(q)'
  BY <1>1, StoppedIs
<1>3. StreamInv' /\ stream' \in [Runs -> Seq(Event)] /\ gen' \in [Runs -> Gens] /\ current' = current
  BY <1>1, <1>2, ForgetKeeps
<1>4. page' \in Pages /\ page'.source = NoRun /\ page'.asking = page.asking
  BY <1>1 DEF TypeOK, Pages
<1>5. TypeOK'
  BY <1>1, <1>2, <1>3, <1>4 DEF TypeOK
<1>6. ~page.asking
  <2>1. r = page.source /\ r # NoRun
    BY <1>1 DEF SourceInv, Alive, Runs, NoRun
  <2>. QED  BY <2>1 DEF SourceInv
<1>7. CursorInv' /\ FirstInv' /\ CatchUpInv' /\ SourceInv'
  BY <1>2, <1>4, <1>6, DeadPage DEF SourceInv
<1>. QED  BY <1>3, <1>5, <1>7

LEMMA RefusedKeeps ==
  ASSUME IInv, NEW r \in Runs, Refused(r)
  PROVE  IInv'
<1>. USE DEF IInv
<1>1. /\ conn' = [conn EXCEPT ![r] = Closed] /\ Forget /\ page' = page
      /\ conn[r].state = "connecting"
      /\ view' = view \/ view' = [view EXCEPT !.status = "failed", !.error = TRUE]
  BY DEF Refused
<1>2. r = page.source /\ r # NoRun /\ ~page.asking
  BY <1>1 DEF SourceInv, Alive, Runs, NoRun
<1>3. /\ conn' \in [Runs -> Conns] /\ \A q \in Runs : conn'[q] = conn[q] \/ conn'[q].state = "closed"
      /\ \A q \in Runs : ~Alive(q)'
  <2>1. \A q \in Runs : conn'[q] = IF q = r THEN Closed ELSE conn[q]
    BY <1>1 DEF TypeOK
  <2>2. conn' \in [Runs -> Conns]
    BY <1>1, ConnTyped DEF TypeOK
  <2>3. \A q \in Runs : ~Alive(q)'
    BY <1>2, <2>1, ConnTyped DEF Alive, SourceInv
  <2>. QED  BY <2>1, <2>2, <2>3, ConnTyped
<1>4. StreamInv' /\ stream' \in [Runs -> Seq(Event)] /\ gen' \in [Runs -> Gens] /\ current' = current
  BY <1>1, <1>3, ForgetKeeps
<1>5. view' \in Views
  BY <1>1 DEF TypeOK, Views
<1>6. TypeOK'
  BY <1>1, <1>3, <1>4, <1>5 DEF TypeOK
<1>7. CursorInv' /\ FirstInv' /\ CatchUpInv' /\ SourceInv'
  BY <1>1, <1>2, <1>3, DeadPage DEF SourceInv
<1>. QED  BY <1>4, <1>6, <1>7

LEMMA PostFailsKeeps ==
  ASSUME IInv, PostFails
  PROVE  IInv'
<1>. USE DEF IInv
<1>1. /\ page.asking /\ conn' = conn /\ page' = [page EXCEPT !.asking = FALSE]
      /\ view' = [view EXCEPT !.status = "failed", !.error = TRUE]
      /\ (\E r \in Runs : StartsElsewhere(r)) \/ UNCHANGED <<stream, gen, current>>
  BY DEF PostFails, runs
<1>2. StreamInv' /\ stream' = stream /\ gen' \in [Runs -> Gens] /\ current' \in Runs \cup {NoRun}
  <2>1. CASE \E r \in Runs : StartsElsewhere(r)
    BY <1>1, <2>1, ElsewhereKeeps
  <2>2. CASE UNCHANGED <<stream, gen, current>>
    BY <1>1, <2>2 DEF StreamInv, TypeOK
  <2>. QED  BY <1>1, <2>1, <2>2
<1>3. view' \in Views
  BY <1>1 DEF TypeOK, Views
<1>4. /\ page' \in Pages /\ ~page'.asking /\ page'.source = page.source /\ page'.run = page.run
      /\ page.source = NoRun
  BY <1>1 DEF TypeOK, Pages, SourceInv
<1>5. TypeOK'
  BY <1>1, <1>2, <1>3, <1>4 DEF TypeOK
<1>6. \A q \in Runs : ~Alive(q)'
  BY <1>1, <1>4 DEF SourceInv, Alive, Runs, NoRun
<1>7. CursorInv' /\ FirstInv' /\ CatchUpInv' /\ SourceInv'
  BY <1>4, <1>6, DeadPage DEF SourceInv
<1>. QED  BY <1>2, <1>5, <1>7

\* A connection that breaks keeps its cursor until the next one starts over.
LEMMA BreaksKeep ==
  ASSUME IInv, stream' = stream, view' = view, page' = page, conn' \in [Runs -> Conns],
         \A q \in Runs : \/ conn'[q] = conn[q]
                         \/ /\ conn[q].state = "open" /\ conn'[q].state = "connecting"
                            /\ conn'[q].opened = conn[q].opened
  PROVE  /\ SourceInv' /\ CursorInv' /\ FirstInv' /\ CatchUpInv'
         /\ \A q \in Runs : conn[q] = NoConn => conn'[q] = NoConn
<1>. USE DEF IInv
<1>1. \A q \in Runs : Alive(q)' <=> Alive(q)
  BY DEF Alive
<1>2. SourceInv'
  BY <1>1 DEF SourceInv
<1>3. \A q \in Runs : conn'[q].state = "open" => conn'[q] = conn[q]
  OBVIOUS
<1>4. CursorInv'
  BY <1>3 DEF CursorInv, Reachable
<1>5. \A q \in Runs : conn[q].state = "open" => conn[q].opened # 0
  BY DEF CursorInv
<1>6. \A q \in Runs : conn'[q].state = "open" => Delivered(q)' = Delivered(q)
  BY <1>3 DEF Delivered
<1>7. FirstInv'
  <2>. SUFFICES ASSUME NEW q \in Runs, Alive(q)
                PROVE  /\ conn'[q].opened = 0 => view = InitialView("running") /\ conn'[q].state = "connecting"
                       /\ conn'[q].opened = 1 /\ conn'[q].state = "open" =>
                            /\ [view EXCEPT !.demo = FALSE] = Folded(Recording(Delivered(q)'))
                            /\ ~conn'[q].done => view.status = "running"
                            /\ view.phase # NoPhase =>
                                 \E i \in 1..(conn'[q].at - 1) :
                                   /\ stream[q][i] = Ev("phase", view.phase)
                                   /\ NoSwitch(stream[q], i, conn'[q].at - 1)
    BY <1>1 DEF FirstInv
  <2>1. CASE conn'[q] = conn[q]
    BY <1>6, <2>1 DEF FirstInv
  <2>2. CASE conn[q].state = "open" /\ conn'[q].state = "connecting" /\ conn'[q].opened = conn[q].opened
    BY <1>5, <2>2
  <2>. QED  BY <2>1, <2>2
<1>8. CatchUpInv'
  <2>. SUFFICES ASSUME NEW q \in Runs, NEW f \in Fields, Alive(q)
                PROVE  /\ view[f] # InitialView("running")[f] =>
                            \E i \in DOMAIN stream[q] : Reachable(q, i) /\ Sets(stream[q][i], f)
                       /\ conn'[q].state = "open" =>
                            /\ Folded(Delivered(q)') \in Views
                            /\ view[f] # Folded(Delivered(q)')[f] =>
                                 \E i \in DOMAIN stream[q] : i >= conn'[q].at /\ Reachable(q, i) /\ Sets(stream[q][i], f)
    BY <1>1 DEF CatchUpInv, Reachable
  <2>. QED  BY <1>3, <1>6 DEF CatchUpInv
<1>9. \A q \in Runs : conn[q] = NoConn => conn'[q] = NoConn
  BY ConnTyped
<1>. QED  BY <1>2, <1>4, <1>7, <1>8, <1>9

LEMMA DropKeeps ==
  ASSUME IInv, NEW r \in Runs, Drop(r)
  PROVE  IInv'
<1>. USE DEF IInv
<1>1. /\ conn' = [conn EXCEPT ![r].state = "connecting"] /\ conn[r].state = "open"
      /\ UNCHANGED <<stream, gen, current, view, page>>
  BY DEF Drop, runs
<1>2. conn \in [Runs -> Conns]
  BY DEF TypeOK
<1>3. /\ conn' \in [Runs -> Conns]
      /\ \A q \in Runs : q # r => conn'[q] = conn[q]
      /\ conn'[r].state = "connecting" /\ conn'[r].opened = conn[r].opened
  BY <1>1, <1>2 DEF Conns
<1>4. /\ SourceInv' /\ CursorInv' /\ FirstInv' /\ CatchUpInv'
      /\ \A q \in Runs : conn[q] = NoConn => conn'[q] = NoConn
  BY <1>1, <1>3, BreaksKeep
<1>5. TypeOK' /\ StreamInv'
  BY <1>1, <1>3, <1>4 DEF TypeOK, StreamInv
<1>. QED  BY <1>4, <1>5

LEMMA KillKeeps ==
  ASSUME IInv, Kill
  PROVE  IInv'
<1>. USE DEF IInv
<1>1. /\ conn' = [q \in Runs |-> IF conn[q].state = "open" THEN [conn[q] EXCEPT !.state = "connecting"]
                                 ELSE conn[q]]
      /\ gen' = [q \in Runs |-> IF gen[q].state = "none" THEN gen[q] ELSE [gen[q] EXCEPT !.state = "over"]]
      /\ current' = NoRun /\ UNCHANGED <<stream, view, page>>
  BY DEF Kill
<1>2. conn \in [Runs -> Conns] /\ gen \in [Runs -> Gens]
  BY DEF TypeOK
<1>3. \A c \in Conns : LET d == [c EXCEPT !.state = "connecting"] IN
        d \in Conns /\ d.state = "connecting" /\ d.opened = c.opened
  BY DEF Conns
<1>4. \A g \in Gens : LET h == [g EXCEPT !.state = "over"] IN h \in Gens /\ h.state = "over"
  BY DEF Gens
<1>5. conn' \in [Runs -> Conns] /\ gen' \in [Runs -> Gens]
  BY <1>1, <1>2, <1>3, <1>4
<1>6. \A q \in Runs : \/ conn'[q] = conn[q]
                      \/ /\ conn[q].state = "open" /\ conn'[q].state = "connecting"
                         /\ conn'[q].opened = conn[q].opened
  BY <1>1, <1>2, <1>3
<1>7. /\ SourceInv' /\ CursorInv' /\ FirstInv' /\ CatchUpInv'
      /\ \A q \in Runs : conn[q] = NoConn => conn'[q] = NoConn
  BY <1>1, <1>5, <1>6, BreaksKeep
<1>8. \A q \in Runs : gen'[q] = gen[q] \/ gen'[q].state = "over"
  BY <1>1, <1>2, <1>4
<1>9. TypeOK'
  BY <1>1, <1>5 DEF TypeOK
<1>10. StreamInv'
  BY <1>1, <1>7, <1>8 DEF StreamInv, Going
<1>. QED  BY <1>7, <1>9, <1>10

LEMMA ConnectKeeps ==
  ASSUME IInv, NEW r \in Runs, Connect(r)
  PROVE  IInv'
<1>. USE DEF IInv
<1>1. /\ conn[r].state = "connecting" /\ UNCHANGED <<stream, gen, current, view, page>>
      /\ conn' = [conn EXCEPT ![r] = [state |-> "open", at |-> 1, done |-> FALSE, opened |-> conn[r].opened + 1]]
  BY DEF Connect, runs
<1>2. conn \in [Runs -> Conns] /\ stream[r] \in Seq(Event) /\ view \in Views
  BY DEF TypeOK
<1>3. /\ conn' \in [Runs -> Conns] /\ \A q \in Runs : q # r => conn'[q] = conn[q]
      /\ conn'[r].state = "open" /\ conn'[r].at = 1 /\ ~conn'[r].done
      /\ conn'[r].opened = conn[r].opened + 1 /\ conn[r].opened \in Nat
  BY <1>1, <1>2 DEF Conns
<1>4. TypeOK'
  BY <1>1, <1>3 DEF TypeOK
<1>5. StreamInv'
  <2>1. conn[r] # NoConn
    BY <1>1, ConnTyped
  <2>. QED  BY <1>1, <1>3, <2>1 DEF StreamInv
<1>6. r = page.source /\ \A q \in Runs : q # r => ~Alive(q)'
  BY <1>1, <1>3 DEF SourceInv, Alive
<1>7. SourceInv'
  BY <1>1, <1>6 DEF SourceInv
<1>8. CursorInv'
  <2>. SUFFICES ASSUME NEW q \in Runs, conn'[q].state = "open"
                PROVE  /\ conn'[q].at - 1 <= Len(stream'[q]) /\ conn'[q].opened > 0
                       /\ conn'[q].done <=> conn'[q].at > 1 /\ Terminal(stream'[q][conn'[q].at - 1])
                       /\ \A i \in 1..(conn'[q].at - 1) : Reachable(q, i)'
    BY DEF CursorInv
  <2>1. q = r
    BY <1>6 DEF Alive
  <2>2. Len(stream'[r]) \in Nat
    BY <1>1, <1>2
  <2>. QED  BY <1>3, <2>1, <2>2
<1>9. Delivered(r)' = <<>>
  BY <1>1, <1>2, <1>3 DEF Delivered
<1>. DEFINE z == InitialView("running")
<1>10. z \in Views /\ z.demo = FALSE /\ z.status = "running" /\ z.phase = NoPhase
  BY InitialViewTyped DEF InitialView
<1>11. FirstInv'
  <2>1. Alive(r)
    BY <1>1 DEF Alive
  <2>2. conn'[r].opened # 0 /\ (conn'[r].opened = 1 => view = z)
    BY <1>3, <2>1 DEF FirstInv
  <2>3. [z EXCEPT !.demo = FALSE] = z
    <3>. HIDE DEF z
    <3>. QED  BY <1>10 DEF Views
  <2>4. Folded(Recording(Delivered(r)')) = z
    BY <1>9, RecordingEmpty, FoldedEmpty
  <2>5. view' = view
    BY <1>1
  <2>. HIDE DEF z
  <2>. QED  BY <1>6, <1>10, <2>2, <2>3, <2>4, <2>5 DEF FirstInv
<1>12. CatchUpInv'
  <2>. SUFFICES ASSUME NEW q \in Runs, NEW f \in Fields, Alive(q)'
                PROVE  /\ view'[f] # z[f] =>
                            \E i \in DOMAIN stream'[q] : Reachable(q, i)' /\ Sets(stream'[q][i], f)
                       /\ conn'[q].state = "open" =>
                            /\ Folded(Delivered(q)') \in Views
                            /\ view'[f] # Folded(Delivered(q)')[f] =>
                                 \E i \in DOMAIN stream'[q] : i >= conn'[q].at /\ Reachable(q, i)' /\ Sets(stream'[q][i], f)
    BY DEF CatchUpInv
  <2>1. q = r /\ Alive(r)
    BY <1>1, <1>6 DEF Alive
  <2>2. view[f] # z[f] => \E i \in DOMAIN stream[r] : Reachable(r, i) /\ Sets(stream[r][i], f)
    BY <2>1 DEF CatchUpInv
  <2>3. Folded(Delivered(r)') = z
    BY <1>9, FoldedEmpty
  <2>4. \A i \in DOMAIN stream[r] : i >= 1
    BY <1>2
  <2>5. \A i \in DOMAIN stream[r] : Reachable(r, i)' <=> Reachable(r, i)
    BY <1>1 DEF Reachable
  <2>. HIDE DEF z
  <2>. QED  BY <1>1, <1>3, <1>10, <2>1, <2>2, <2>3, <2>4, <2>5
<1>. QED  BY <1>4, <1>5, <1>7, <1>8, <1>11, <1>12

LEMMA AnsweredKeeps ==
  ASSUME IInv, NEW r \in Runs, Answered(r)
  PROVE  IInv'
<1>. USE DEF IInv
<1>1. PICK b \in Beginnings :
        /\ gen' = [Superseded EXCEPT ![r] = [NoGen EXCEPT !.state = b.state]]
        /\ stream' = [stream EXCEPT ![r] = @ \o <<b.event>>]
  BY DEF Answered, Begin, Emit
<1>2. /\ page.asking /\ gen[r].state = "none" /\ current' = r /\ view' = view
      /\ conn' = [conn EXCEPT ![r].state = "connecting"]
      /\ page' = [page EXCEPT !.asking = FALSE, !.source = r, !.run = r]
  BY DEF Answered, Begin, Unused
<1>3. b.state \in {"live", "over", "replay"} /\ b.event \in Event
      /\ b.event.type \in {"started", "fatal", "demo_mode"}
  <2>1. \A x \in {"started", "fatal", "demo_mode"} : E(x) \in Event /\ E(x).type = x
    BY EventTyped DEF Type
  <2>2. \/ b = [state |-> "live", event |-> E("started")]
        \/ b = [state |-> "over", event |-> E("fatal")]
        \/ b = [state |-> "replay", event |-> E("demo_mode")]
    BY DEF Beginnings
  <2>. QED  BY <2>1, <2>2
<1>4. stream[r] = <<>> /\ conn[r] = NoConn
  BY <1>2 DEF StreamInv
<1>. DEFINE t == <<b.event>>
            h == [NoGen EXCEPT !.state = b.state]
<1>5. t \in Seq(Event) /\ DOMAIN t = {1} /\ t[1] = b.event /\ <<>> \o t = t
  BY <1>3, ShortSeqs
<1>6. h \in Gens /\ h.state = b.state /\ h.phase = NoPhase /\ ~h.busy /\ ~h.assessed
  <2>. DEFINE z == NoGen
  <2>1. z \in Gens /\ z.phase = NoPhase /\ ~z.busy /\ ~z.assessed
    BY GenTyped
  <2>2. h = [z EXCEPT !.state = b.state]
    OBVIOUS
  <2>. HIDE DEF h, z
  <2>. QED  BY <1>3, <2>1, <2>2 DEF Gens
<1>. HIDE DEF t, h
<1>7. /\ \A q \in Runs : stream'[q] = IF q = r THEN t ELSE stream[q]
      /\ \A q \in Runs : gen'[q] = IF q = r THEN h ELSE Superseded[q]
      /\ stream' \in [Runs -> Seq(Event)] /\ gen' \in [Runs -> Gens]
  <2>1. stream \in [Runs -> Seq(Event)]
    BY DEF TypeOK
  <2>2. stream' = [stream EXCEPT ![r] = t] /\ gen' = [Superseded EXCEPT ![r] = h]
    BY <1>1, <1>4, <1>5, <2>1 DEF t, h
  <2>3. DOMAIN Superseded = Runs /\ \A q \in Runs : Superseded[q] \in Gens
    BY SupersededIs DEF Superseded
  <2>4. Superseded \in [Runs -> Gens]
    BY <2>3 DEF Superseded
  <2>. QED  BY <1>5, <1>6, <2>1, <2>2, <2>4
<1>8. /\ conn' \in [Runs -> Conns] /\ \A q \in Runs : q # r => conn'[q] = conn[q]
      /\ conn'[r].state = "connecting" /\ conn'[r].opened = 0
  <2>1. conn \in [Runs -> Conns] /\ conn[r].opened = 0
    BY <1>4, ConnTyped DEF TypeOK
  <2>. QED  BY <1>2, <2>1 DEF Conns
<1>9. page' \in Pages /\ page'.source = r /\ page'.run = r /\ ~page'.asking
  BY <1>2 DEF TypeOK, Pages
<1>10. TypeOK'
  BY <1>2, <1>7, <1>8, <1>9 DEF TypeOK
<1>11. page.source = NoRun /\ view = InitialView("running") /\ \A q \in Runs : ~Alive(q)
  BY <1>2 DEF SourceInv, Alive, Runs, NoRun
<1>12. \A q \in Runs : Alive(q)' => q = r
  BY <1>8, <1>11 DEF Alive
<1>13. SourceInv'
  BY <1>9, <1>12 DEF SourceInv
<1>14. StreamInv'
  <2>1. ASSUME NEW q \in Runs
        PROVE  /\ ResultsAfterPhase(stream'[q]) /\ PhasesRise(stream'[q])
               /\ Going(gen'[q]) => Behind(stream'[q], gen'[q])
               /\ gen'[q].state = "none" => stream'[q] = <<>> /\ conn'[q] = NoConn
    <3>1. CASE q = r
      <4>1. ResultsAfterPhase(t) /\ PhasesRise(t) /\ Behind(t, h)
        BY <1>3, <1>5, <1>6 DEF ResultsAfterPhase, PhasesRise, Behind
      <4>. QED  BY <1>3, <1>6, <1>7, <3>1, <4>1
    <3>2. CASE q # r
      <4>1. stream'[q] = stream[q] /\ gen'[q] = Superseded[q] /\ conn'[q] = conn[q]
        BY <1>7, <1>8, <3>2
      <4>2. /\ ResultsAfterPhase(stream[q]) /\ PhasesRise(stream[q])
            /\ Going(gen[q]) => Behind(stream[q], gen[q])
            /\ gen[q].state = "none" => stream[q] = <<>> /\ conn[q] = NoConn
        BY DEF StreamInv
      <4>3. Going(gen[q]) => Behind(stream[q], Superseded[q])
        BY <4>2, SupersededIs DEF Behind
      <4>. QED  BY <4>1, <4>2, <4>3, SupersededIs
    <3>. QED  BY <3>1, <3>2
  <2>. QED  BY <2>1 DEF StreamInv
<1>15. CursorInv'
  BY <1>8, <1>12 DEF CursorInv, Alive
<1>16. FirstInv' /\ CatchUpInv'
  BY <1>2, <1>8, <1>11, <1>12 DEF FirstInv, CatchUpInv
<1>. QED  BY <1>10, <1>13, <1>14, <1>15, <1>16

LEMMA ConnMoves ==
  ASSUME NEW w \in Conns, NEW b \in BOOLEAN
  PROVE  /\ [w EXCEPT !.at = @ + 1, !.done = b] \in Conns
         /\ [w EXCEPT !.at = @ + 1, !.done = b].state = w.state
         /\ [w EXCEPT !.at = @ + 1, !.done = b].at = w.at + 1
         /\ [w EXCEPT !.at = @ + 1, !.done = b].done = b
         /\ [w EXCEPT !.at = @ + 1, !.done = b].opened = w.opened
<1>. DEFINE m == [w EXCEPT !.at = w.at + 1]
<1>1. m \in Conns /\ m.state = w.state /\ m.at = w.at + 1 /\ m.opened = w.opened
  <2>1. w.at \in Nat /\ w.at + 1 \in Nat \ {0}
    BY DEF Conns
  <2>. DEFINE n == w.at + 1
  <2>. HIDE DEF n
  <2>2. m = [w EXCEPT !.at = n]
    BY DEF n
  <2>. QED  BY <2>1, <2>2 DEF Conns, n
<1>2. [w EXCEPT !.at = @ + 1, !.done = b] = [m EXCEPT !.done = b]
  OBVIOUS
<1>. HIDE DEF m
<1>. QED  BY <1>1, <1>2 DEF Conns

LEMMA DeliverKeeps ==
  ASSUME IInv, NEW r \in Runs, Deliver(r)
  PROVE  IInv'
<1>. USE DEF IInv
<1>. DEFINE s == stream[r]
            at == conn[r].at
            e == s[at]
            d == Delivered(r)
<1>0. conn \in [Runs -> Conns] /\ s \in Seq(Event) /\ view \in Views /\ at \in Nat \ {0}
      /\ conn[r].opened \in Nat /\ Len(s) \in Nat /\ DOMAIN s = 1..Len(s)
  BY DEF TypeOK, Conns
<1>1. /\ conn[r].state = "open" /\ ~conn[r].done /\ at <= Len(s)
      /\ view' = Reduce(view, e)
      /\ conn' = [conn EXCEPT ![r].at = @ + 1, ![r].done = Terminal(e)]
      /\ UNCHANGED <<stream, gen, current, page>>
  BY DEF Deliver, runs
<1>2. at \in DOMAIN s /\ e \in Event
  BY <1>0, <1>1
<1>3. /\ conn' \in [Runs -> Conns] /\ \A q \in Runs : q # r => conn'[q] = conn[q]
      /\ conn'[r].state = "open" /\ conn'[r].at = at + 1 /\ (conn'[r].done <=> Terminal(e))
      /\ conn'[r].opened = conn[r].opened
  <2>1. Terminal(e) \in BOOLEAN
    BY DEF Terminal
  <2>. DEFINE b == Terminal(e)
              c == [conn[r] EXCEPT !.at = @ + 1, !.done = b]
  <2>2. conn[r] \in Conns
    BY <1>0
  <2>3. conn' = [conn EXCEPT ![r] = c]
    <3>. HIDE DEF b, e
    <3>. QED  BY <1>0, <1>1, <2>2 DEF Conns, b
  <2>. HIDE DEF b, e
  <2>4. c \in Conns /\ c.state = conn[r].state /\ c.at = conn[r].at + 1 /\ c.done = b
        /\ c.opened = conn[r].opened
    <3>1. b \in BOOLEAN
      BY <2>1 DEF b
    <3>. QED  BY <2>2, <3>1, ConnMoves
  <2>. HIDE DEF c
  <2>. QED  BY <1>0, <1>1, <2>3, <2>4 DEF b
<1>4. view' \in Views
  BY <1>0, <1>1, <1>2, ReduceTyped
<1>5. TypeOK'
  BY <1>1, <1>3, <1>4 DEF TypeOK
<1>6. StreamInv'
  <2>1. conn[r] # NoConn
    BY <1>1, ConnTyped
  <2>. QED  BY <1>1, <1>3, <2>1 DEF StreamInv
<1>7. r = page.source /\ r # NoRun /\ \A q \in Runs : q # r => ~Alive(q)'
  BY <1>1, <1>3 DEF SourceInv, Alive, Runs, NoRun
<1>8. SourceInv'
  BY <1>1, <1>7 DEF SourceInv
<1>9. /\ at - 1 \in Nat /\ at - 1 <= Len(s) /\ conn[r].opened > 0
      /\ at > 1 => ~Terminal(s[at - 1])
      /\ \A i \in 1..(at - 1) : Reachable(r, i)
  BY <1>0, <1>1 DEF CursorInv
<1>10. \A i \in 1..at : Reachable(r, i)
  <2>1. ASSUME NEW j \in 1..(at - 1) PROVE ~Terminal(s[j])
    <3>1. CASE j = at - 1
      BY <1>0, <1>9, <3>1
    <3>2. CASE j # at - 1
      <4>1. at - 1 \in 1..(at - 1) /\ j \in 1..(at - 1 - 1)
        BY <1>0, <3>2
      <4>. QED  BY <1>9, <4>1 DEF Reachable
    <3>. QED  BY <3>1, <3>2
  <2>2. Reachable(r, at)
    BY <1>2, <2>1 DEF Reachable
  <2>3. \A i \in 1..at : i = at \/ i \in 1..(at - 1)
    BY <1>0
  <2>. QED  BY <1>9, <2>2, <2>3
<1>11. \A i : Reachable(r, i)' <=> Reachable(r, i)
  BY <1>1 DEF Reachable
<1>12. CursorInv'
  <2>1. ASSUME NEW q \in Runs, conn'[q].state = "open" PROVE q = r
    BY <1>7, <2>1 DEF Alive
  <2>2. conn'[r].at - 1 = at /\ conn'[r].at > 1
    BY <1>0, <1>3
  <2>3. /\ conn'[r].at - 1 <= Len(stream'[r]) /\ conn'[r].opened > 0
        /\ conn'[r].done <=> conn'[r].at > 1 /\ Terminal(stream'[r][conn'[r].at - 1])
        /\ \A i \in 1..(conn'[r].at - 1) : Reachable(r, i)'
    BY <1>1, <1>3, <1>9, <1>10, <1>11, <2>2
  <2>. QED  BY <2>1, <2>3 DEF CursorInv
<1>13. d \in Seq(Event) /\ Delivered(r)' = Append(d, e)
  <2>1. d = SubSeq(s, 1, at - 1) /\ Delivered(r)' = SubSeq(s, 1, at)
    <3>1. Delivered(r)' = SubSeq(stream'[r], 1, conn'[r].at - 1)
      BY DEF Delivered
    <3>2. conn'[r].at - 1 = at
      BY <1>0, <1>3
    <3>. QED  BY <1>1, <3>1, <3>2 DEF Delivered
  <2>2. at - 1 < Len(s) /\ at - 1 + 1 = at
    BY <1>0, <1>1
  <2>. HIDE DEF s, at
  <2>. QED  BY <1>0, <1>9, <2>1, <2>2, PrefixIs
<1>. DEFINE z == InitialView("running")
<1>14. Alive(r)
  BY <1>1 DEF Alive
<1>. HIDE DEF d, e, s, at, z
<1>15. FirstInv'
  <2>. SUFFICES ASSUME conn[r].opened = 1
                PROVE  /\ [view' EXCEPT !.demo = FALSE] = Folded(Recording(Append(d, e)))
                       /\ ~Terminal(e) => view'.status = "running"
                       /\ view'.phase # NoPhase =>
                            \E i \in 1..at : s[i] = Ev("phase", view'.phase) /\ NoSwitch(s, i, at)
    <3>1. conn'[r].at - 1 = at /\ stream'[r] = s /\ conn'[r].opened = conn[r].opened
      BY <1>0, <1>1, <1>3, <1>9 DEF s
    <3>2. ASSUME NEW q \in Runs, Alive(q)' PROVE q = r
      BY <1>7, <3>2
    <3>3. ASSUME conn'[r].opened = 1
          PROVE  /\ [view' EXCEPT !.demo = FALSE] = Folded(Recording(Delivered(r)'))
                 /\ ~conn'[r].done => view'.status = "running"
                 /\ view'.phase # NoPhase =>
                      \E i \in 1..(conn'[r].at - 1) :
                        stream'[r][i] = Ev("phase", view'.phase)
                        /\ NoSwitch(stream'[r], i, conn'[r].at - 1)
      BY <1>3, <1>13, <3>1, <3>3
    <3>. QED  BY <1>9, <3>1, <3>2, <3>3 DEF FirstInv
  <2>1. /\ Undemo(view) = Folded(Recording(d))
        /\ view.status = "running"
        /\ view.phase # NoPhase =>
             \E i \in 1..(at - 1) : s[i] = Ev("phase", view.phase) /\ NoSwitch(s, i, at - 1)
    BY <1>1, <1>14 DEF FirstInv, Undemo, d, s, at
  <2>2. Undemo(view') = Folded(Recording(Append(d, e)))
    <3>1. CASE e.type = "demo_mode"
      BY <1>0, <1>1, <1>2, <1>13, <3>1, ReduceUndemo, RecordingAppend, FoldedEmpty
    <3>2. CASE e.type # "demo_mode"
      <4>1. Recording(d) \in Seq(Event) /\ Recording(Append(d, e)) = Append(Recording(d), e)
        BY <1>2, <1>13, <3>2, RecordingAppend
      <4>2. Folded(Append(Recording(d), e)) = Reduce(Undemo(view), e)
        BY <1>2, <2>1, <4>1, FoldedAppend
      <4>. QED  BY <1>0, <1>1, <1>2, <3>2, <4>1, <4>2, ReduceUndemo
    <3>. QED  BY <3>1, <3>2
  <2>3. ASSUME ~Terminal(e) PROVE view'.status = "running"
    <3>1. CASE Sets(e, "status")
      <4>1. e.type \in {"started", "demo_mode"}
        BY <2>3, <3>1, SetsIs DEF Terminal
      <4>2. view' = [view EXCEPT !.status = "running"] \/ view' = SwitchToDemo(view)
        BY <1>1, <1>2, <4>1, ReduceIs
      <4>3. SwitchToDemo(view).status = "running"
        BY DEF SwitchToDemo, InitialView
      <4>. QED  BY <1>0, <4>2, <4>3 DEF Views
    <3>2. CASE ~Sets(e, "status")
      <4>1. "status" \in Fields
        BY DEF Fields
      <4>2. Reduce(view, e)["status"] = view["status"]
        BY <1>0, <1>2, <3>2, <4>1, ReduceField
      <4>. QED  BY <1>1, <2>1, <4>2
    <3>. QED  BY <3>1, <3>2
  <2>4. ASSUME view'.phase # NoPhase
        PROVE  \E i \in 1..at : s[i] = Ev("phase", view'.phase) /\ NoSwitch(s, i, at)
    <3>1. CASE e.type = "phase"
      <4>1. view'.phase = e.arg
        <5>1. view' = [view EXCEPT !.phase = e.arg, !.count = 0]
          BY <1>1, <1>2, <3>1, ReduceIs
        <5>. QED  BY <1>0, <5>1 DEF Views
      <4>2. e = Ev("phase", e.arg)
        BY <1>2, <3>1 DEF Event, Ev
      <4>3. at \in 1..at /\ s[at] = e /\ NoSwitch(s, at, at)
        BY <1>0 DEF NoSwitch, e
      <4>. QED  BY <4>1, <4>2, <4>3
    <3>2. CASE e.type \in {"demo_mode", "resolved"}
      <4>1. view' = SwitchToDemo(view)
            \/ view' = [view EXCEPT !.status = "resolved", !.phase = NoPhase, !.duration = e.arg]
        BY <1>1, <1>2, <3>2, ReduceIs
      <4>2. SwitchToDemo(view).phase = NoPhase
        BY DEF SwitchToDemo, InitialView
      <4>. QED  BY <1>0, <2>4, <4>1, <4>2 DEF Views
    <3>3. CASE e.type \notin {"phase", "demo_mode", "resolved"}
      <4>1. "phase" \in Fields /\ ~Sets(e, "phase")
        BY <3>3, SetsIs DEF Fields
      <4>2. Reduce(view, e)["phase"] = view["phase"]
        BY <1>0, <1>2, <4>1, ReduceField
      <4>3. view'.phase = view.phase
        BY <1>1, <4>2
      <4>4. PICK i \in 1..(at - 1) : s[i] = Ev("phase", view.phase) /\ NoSwitch(s, i, at - 1)
        BY <2>1, <2>4, <4>3
      <4>5. NoSwitch(s, i, at)
        <5>. SUFFICES ASSUME NEW k \in DOMAIN s, i < k, k <= at PROVE s[k].type # "demo_mode"
          BY DEF NoSwitch
        <5>1. k = at \/ k <= at - 1
          BY <1>0
        <5>. QED  BY <3>3, <4>4, <5>1 DEF NoSwitch, e
      <4>6. i \in 1..at
        BY <1>0
      <4>. QED  BY <4>3, <4>4, <4>5, <4>6
    <3>. QED  BY <3>1, <3>2, <3>3
  <2>. QED  BY <2>2, <2>3, <2>4 DEF Undemo
<1>16. CatchUpInv'
  <2>. SUFFICES ASSUME NEW f \in Fields
                PROVE  /\ view'[f] # z[f] => \E i \in DOMAIN s : Reachable(r, i) /\ Sets(s[i], f)
                       /\ Folded(Append(d, e)) \in Views
                       /\ view'[f] # Folded(Append(d, e))[f] =>
                            \E i \in DOMAIN s : i >= at + 1 /\ Reachable(r, i) /\ Sets(s[i], f)
    <3>1. stream'[r] = s /\ conn'[r].at = at + 1 /\ \A q \in Runs : Alive(q)' => q = r
      BY <1>1, <1>3, <1>7 DEF s
    <3>2. ASSUME NEW f \in Fields
          PROVE  /\ view'[f] # z[f] => \E i \in DOMAIN stream'[r] : Reachable(r, i)' /\ Sets(stream'[r][i], f)
                 /\ Folded(Delivered(r)') \in Views
                 /\ view'[f] # Folded(Delivered(r)')[f] =>
                      \E i \in DOMAIN stream'[r] :
                        i >= conn'[r].at /\ Reachable(r, i)' /\ Sets(stream'[r][i], f)
      BY <1>11, <1>13, <3>1
    <3>. QED  BY <3>1, <3>2 DEF CatchUpInv, z
  <2>1. /\ view[f] # z[f] => \E i \in DOMAIN s : Reachable(r, i) /\ Sets(s[i], f)
        /\ Folded(d) \in Views
        /\ view[f] # Folded(d)[f] => \E i \in DOMAIN s : i >= at /\ Reachable(r, i) /\ Sets(s[i], f)
    BY <1>1, <1>14 DEF CatchUpInv, d, s, at, z
  <2>2. Folded(Append(d, e)) = Reduce(Folded(d), e)
    BY <1>2, <1>13, FoldedAppend
  <2>3. Folded(Append(d, e)) \in Views
    BY <1>2, <2>1, <2>2, ReduceTyped
  <2>4. Reachable(r, at) /\ s[at] = e /\ at \in DOMAIN s
    BY <1>0, <1>2, <1>10 DEF e
  <2>5. ASSUME view'[f] # z[f] PROVE \E i \in DOMAIN s : Reachable(r, i) /\ Sets(s[i], f)
    <3>1. CASE Sets(e, f)
      BY <2>4, <3>1
    <3>2. CASE ~Sets(e, f) /\ f = "count" /\ e.type = "tool_result"
      <4>1. PICK j \in DOMAIN s : j < at /\ s[j].type = "phase"
        BY <2>4, <3>2 DEF StreamInv, ResultsAfterPhase, s
      <4>2. j \in 1..at
        BY <1>0, <4>1
      <4>3. Sets(s[j], f)
        BY <3>2, <4>1, SetsIs
      <4>. QED  BY <1>10, <4>2, <4>3
    <3>3. CASE ~Sets(e, f) /\ ~(f = "count" /\ e.type = "tool_result")
      <4>1. view'[f] = view[f]
        BY <1>0, <1>1, <1>2, <3>3, ReduceField
      <4>. QED  BY <2>1, <2>5, <4>1
    <3>. QED  BY <3>1, <3>2, <3>3
  <2>6. ASSUME view'[f] # Folded(Append(d, e))[f]
        PROVE  \E i \in DOMAIN s : i >= at + 1 /\ Reachable(r, i) /\ Sets(s[i], f)
    <3>1. ~Sets(e, f) /\ view[f] # Folded(d)[f]
      BY <1>0, <1>1, <1>2, <2>1, <2>2, <2>6, ReduceField
    <3>2. PICK i \in DOMAIN s : i >= at /\ Reachable(r, i) /\ Sets(s[i], f)
      BY <2>1, <3>1
    <3>3. i # at
      BY <2>4, <3>1, <3>2
    <3>4. i >= at + 1
      BY <1>0, <3>2, <3>3
    <3>. QED  BY <3>2, <3>4
  <2>. QED  BY <2>3, <2>5, <2>6
<1>. QED  BY <1>5, <1>6, <1>8, <1>12, <1>15, <1>16

LEMMA InitKeeps == Init => IInv
<1>. SUFFICES ASSUME Init PROVE IInv
  OBVIOUS
<1>1. /\ \A r \in Runs : stream[r] = <<>> /\ gen[r] = NoGen /\ conn[r] = NoConn
      /\ view = InitialView("idle") /\ page.run = NoRun /\ page.source = NoRun /\ ~page.asking
  BY DEF Init
<1>2. TypeOK
  BY GenTyped, ConnTyped, InitialViewTyped, EmptyStream DEF Init, TypeOK, Pages, NoRun
<1>3. \A r \in Runs : ~Alive(r) /\ conn[r].state # "open" /\ ~Going(gen[r])
  <2>1. NoGen.state = "none" /\ NoConn.state = "none"
    BY DEF NoGen, NoConn
  <2>. QED  BY <1>1, <2>1 DEF Alive, Going
<1>4. StreamInv
  BY <1>1, <1>3, EmptyStream DEF StreamInv
<1>5. SourceInv
  BY <1>1, <1>3 DEF SourceInv
<1>6. CursorInv /\ FirstInv /\ CatchUpInv
  BY <1>3, Zenon DEF CursorInv, FirstInv, CatchUpInv
<1>. QED  BY <1>2, <1>4, <1>5, <1>6 DEF IInv

LEMMA StutterKeeps == IInv /\ UNCHANGED vars => IInv'
<1>. SUFFICES ASSUME IInv, UNCHANGED vars PROVE IInv'
  OBVIOUS
<1>1. UNCHANGED <<stream, gen, current, conn, view, page, spent>>
  BY DEF vars
<1>2. \A r : /\ Alive(r)' <=> Alive(r)
             /\ Delivered(r)' = Delivered(r)
             /\ \A i : Reachable(r, i)' <=> Reachable(r, i)
  BY <1>1 DEF Alive, Delivered, Reachable
<1>3. TypeOK' /\ StreamInv' /\ SourceInv'
  BY <1>1, <1>2 DEF IInv, TypeOK, StreamInv, SourceInv
<1>4. CursorInv'
  BY <1>1, <1>2 DEF IInv, CursorInv
<1>5. FirstInv'
  BY <1>1, <1>2 DEF IInv, FirstInv
<1>6. CatchUpInv'
  BY <1>1, <1>2 DEF IInv, CatchUpInv
<1>. QED  BY <1>3, <1>4, <1>5, <1>6 DEF IInv

\* The invariant is inductive, one lemma per action above.
LEMMA NextKeeps == IInv /\ [Next]_vars => IInv'
<1>. SUFFICES ASSUME IInv, [Next]_vars PROVE IInv'
  OBVIOUS
<1>1. CASE Click
  BY <1>1, ClickKeeps
<1>2. CASE PostFails
  BY <1>2, PostFailsKeeps
<1>3. CASE Kill
  BY <1>3, KillKeeps
<1>4. ASSUME NEW r \in Runs, Run(r) PROVE IInv'
  <2>1. PICK t \in Seq(Event), h \in Gens : Grows(r, t, h)
    BY <1>4, RunGrows DEF IInv
  <2>. QED  BY <2>1, GrowsKeeps
<1>5. ASSUME NEW r \in Runs, OtherStarts(r) PROVE IInv'
  BY <1>5, OtherKeeps
<1>6. ASSUME NEW r \in Runs, Answered(r) PROVE IInv'
  BY <1>6, AnsweredKeeps
<1>7. ASSUME NEW r \in Runs, Connection(r) PROVE IInv'
  BY <1>7, ConnectKeeps, RefusedKeeps, DeliverKeeps, DoneKeeps DEF Connection
<1>8. ASSUME NEW r \in Runs, Drop(r) PROVE IInv'
  BY <1>8, DropKeeps
<1>9. CASE UNCHANGED vars
  BY <1>9, StutterKeeps
<1>. QED  BY <1>1, <1>2, <1>3, <1>4, <1>5, <1>6, <1>7, <1>8, <1>9 DEF Next

-----------------------------------------------------------------------------
(* What the page shows, for every value of the bounds.                     *)

\* The inductive invariant: how far each stream and the connection to it have
\* come, and what the view owes to the events delivered (useInvestigation.ts).
THEOREM PageInvariant == Spec => []IInv
<1>1. Init => IInv
  BY InitKeeps
<1>2. IInv /\ [Next]_vars => IInv'
  BY NextKeeps
<1>. QED  BY <1>1, <1>2, PTL DEF Spec

LEMMA ShownIs ==
  ASSUME IInv, Shown
  PROVE  page.run \in Runs /\ Alive(page.run) /\ conn[page.run].state = "open"
BY DEF IInv, TypeOK, Pages, Shown, Alive

\* Over one connection, the view of a run that fell back to its recording is at
\* every event the view of the recording alone (useInvestigation.ts:88).
THEOREM ReplayTheorem == Spec => []ReplayLooksLive
<1>1. ASSUME IInv PROVE ReplayLooksLive
  BY <1>1, ShownIs, Zenon DEF IInv, FirstInv, ReplayLooksLive
<1>. QED  BY <1>1, PageInvariant, PTL

\* However often it reconnected, a page to which the history has been delivered
\* again has the status, phase, progress, tests, error and duration of a page
\* that was connected all along (useInvestigation.ts:98-284). Its lists, which
\* the history fills again, are not part of the statement.
THEOREM CaughtUpTheorem == Spec => []CaughtUpAgrees
<1>1. ASSUME IInv, Shown, conn[page.run].done \/ conn[page.run].at > Len(stream[page.run]),
             NEW f \in Fields
      PROVE  view[f] = Folded(Delivered(page.run))[f]
  <2>. DEFINE r == page.run
              s == stream[r]
              at == conn[r].at
  <2>1. r \in Runs /\ Alive(r) /\ conn[r].state = "open"
    BY <1>1, ShownIs
  <2>2. at \in Nat \ {0} /\ Len(s) \in Nat /\ DOMAIN s = 1..Len(s)
    <3>1. conn[r] \in Conns /\ s \in Seq(Event)
      BY <1>1, <2>1 DEF IInv, TypeOK
    <3>. QED  BY <3>1 DEF Conns
  <2>3. ASSUME NEW i \in DOMAIN s, i >= at, Reachable(r, i) PROVE FALSE
    <3>1. conn[r].done
      BY <1>1, <2>2, <2>3
    <3>2. at > 1 /\ Terminal(s[at - 1])
      BY <1>1, <2>1, <3>1 DEF IInv, CursorInv
    <3>3. at - 1 \in 1..(i - 1)
      BY <2>2, <2>3, <3>2
    <3>. QED  BY <2>3, <3>2, <3>3 DEF Reachable
  <2>. HIDE DEF s, at
  <2>4. view[f] # Folded(Delivered(r))[f] =>
          \E i \in DOMAIN s : i >= at /\ Reachable(r, i) /\ Sets(s[i], f)
    BY <1>1, <2>1 DEF IInv, CatchUpInv, s, at
  <2>. QED  BY <2>3, <2>4
<1>2. ASSUME IInv PROVE CaughtUpAgrees
  BY <1>1, <1>2, Zenon DEF CaughtUpAgrees, Fields
<1>. QED  BY <1>2, PageInvariant, PTL

LEMMA BaseRises ==
  /\ \A p \in 1..7 : Base(p) \in Nat /\ Base(p) <= Total
  /\ \A p, q \in 1..7 : p <= q => Base(p) <= Base(q)
  /\ Base(5) = Base(6)
<1>1. Total \in Nat
  BY DashboardAssumption
<1>2. /\ Base(1) = (Total * 35) \div 100 /\ Base(2) = (Total * 55) \div 100
      /\ Base(3) = (Total * 75) \div 100 /\ Base(4) = (Total * 90) \div 100
      /\ Base(5) = (Total * 100) \div 100 /\ Base(6) = (Total * 100) \div 100
      /\ Base(7) = Total
  BY DEF Base, Percent, Phases
<1>3. /\ Base(1) \in Nat /\ Base(1) <= Base(2) /\ Base(2) \in Nat /\ Base(2) <= Base(3)
      /\ Base(3) \in Nat /\ Base(3) <= Base(4) /\ Base(4) \in Nat /\ Base(4) <= Base(5)
      /\ Base(5) = Base(6) /\ Base(6) = Total /\ Base(7) = Total
  BY <1>1, <1>2
<1>4. \A p \in 1..7 : p = 1 \/ p = 2 \/ p = 3 \/ p = 4 \/ p = 5 \/ p = 6 \/ p = 7
  OBVIOUS
<1>5. \A p \in 1..7 : Base(p) \in Nat /\ Base(p) <= Total
  BY <1>1, <1>3, <1>4
<1>6. ASSUME NEW p \in 1..7, NEW q \in 1..7, p <= q PROVE Base(p) <= Base(q)
  BY <1>1, <1>3, <1>4, <1>6
<1>. QED  BY <1>3, <1>5, <1>6

\* The points revealed while a run goes on.
LEMMA VisibleIs ==
  ASSUME NEW v \in Views, v.status \notin {"idle", "resolved"}
  PROVE  /\ v.phase = NoPhase => VisibleCount(v) = 0
         /\ v.phase # NoPhase =>
              /\ v.phase \in 1..6 /\ VisibleCount(v) \in Nat
              /\ VisibleCount(v) = IF Base(v.phase) + v.count < Base(v.phase + 1)
                                   THEN Base(v.phase) + v.count ELSE Base(v.phase + 1)
<1>1. v.phase \in 0..6 /\ v.count \in Nat
  BY DEF Views
<1>2. v.phase # NoPhase => v.phase \in 1..6 /\ v.phase + 1 \in 1..7 /\ v.phase \in 1..7
  BY <1>1 DEF NoPhase
<1>3. v.phase # NoPhase => Base(v.phase) \in Nat /\ Base(v.phase + 1) \in Nat
  BY <1>2, BaseRises
<1>. QED  BY <1>1, <1>2, <1>3 DEF VisibleCount

\* Entering a phase reveals at least the base of the phase before it.
LEMMA EnteringReveals ==
  ASSUME NEW v \in Views, NEW w \in Views, NEW q \in 0..6,
         v.status = "running", w.status = "running", w.phase = q, w.count = 0,
         v.phase # NoPhase => Rises(v.phase, q)
  PROVE  VisibleCount(v) <= VisibleCount(w)
<1>. SUFFICES ASSUME q # NoPhase PROVE VisibleCount(v) <= VisibleCount(w)
  <2>1. ASSUME q = NoPhase PROVE v.phase = NoPhase
    BY <2>1 DEF Views, Rises, NoPhase
  <2>. QED  BY <2>1, VisibleIs
<1>1. q \in 1..6 /\ q \in 1..7 /\ q + 1 \in 1..7 /\ q <= q + 1
  BY DEF NoPhase
<1>2. Base(q) \in Nat /\ Base(q + 1) \in Nat /\ Base(q) <= Base(q + 1)
  BY <1>1, BaseRises
<1>3. VisibleCount(w) = Base(q)
  BY <1>1, <1>2, VisibleIs
<1>4. CASE v.phase = NoPhase
  BY <1>2, <1>3, <1>4, VisibleIs
<1>5. CASE v.phase # NoPhase
  <2>. DEFINE p == v.phase
  <2>1. p \in 1..6 /\ p \in 1..7 /\ p + 1 \in 1..7
    BY <1>5, VisibleIs
  <2>2. v.count \in Nat /\ Base(p) \in Nat /\ Base(p + 1) \in Nat
    BY <2>1, BaseRises DEF Views
  <2>3. VisibleCount(v) \in Nat /\ VisibleCount(v) <= Base(p + 1)
    BY <1>5, <2>2, VisibleIs
  <2>4. Base(p + 1) <= Base(q)
    <3>1. CASE p < q
      <4>1. p + 1 <= q
        BY <1>1, <2>1, <3>1
      <4>. QED  BY <1>1, <2>1, <4>1, BaseRises
    <3>2. CASE p = 5 /\ q = 5
      <4>1. p + 1 = 6
        BY <3>2
      <4>. QED  BY <1>2, <3>2, <4>1, BaseRises
    <3>. QED  BY <1>5, <3>1, <3>2 DEF Rises
  <2>. QED  BY <1>2, <1>3, <2>2, <2>3, <2>4
<1>. QED  BY <1>4, <1>5

LEMMA DeliverReveals ==
  ASSUME IInv, NEW r \in Runs, Deliver(r), conn[r].opened = 1,
         stream[r][conn[r].at].type \notin {"demo_mode", "resolved"}
  PROVE  VisibleCount(view) <= VisibleCount(view')
<1>. DEFINE s == stream[r]
            at == conn[r].at
            e == s[at]
<1>1. /\ s \in Seq(Event) /\ DOMAIN s = 1..Len(s) /\ at \in Nat \ {0} /\ Len(s) \in Nat
      /\ view \in Views
  BY DEF IInv, TypeOK, Conns
<1>2. conn[r].state = "open" /\ ~conn[r].done /\ at <= Len(s) /\ view' = Reduce(view, e)
  BY DEF Deliver
<1>3. at \in DOMAIN s /\ e \in Event /\ e.arg \in 0..6 /\ e.type \notin {"demo_mode", "resolved"}
  <2>1. at \in DOMAIN s /\ e \in Event
    BY <1>1, <1>2
  <2>2. e.type \notin {"demo_mode", "resolved"}
    OBVIOUS
  <2>. HIDE DEF e
  <2>. QED  BY <2>1, <2>2 DEF Event
<1>. HIDE DEF e
<1>4. view' \in Views
  BY <1>1, <1>2, <1>3, ReduceTyped
<1>5. /\ view.status = "running"
      /\ view.phase # NoPhase =>
           \E i \in 1..(at - 1) : s[i] = Ev("phase", view.phase) /\ NoSwitch(s, i, at - 1)
  BY <1>2 DEF IInv, FirstInv, Alive
<1>6. CASE e.type = "phase"
  <2>1. view' = [view EXCEPT !.phase = e.arg, !.count = 0]
    BY <1>2, <1>3, <1>6, ReduceIs
  <2>2. view'.phase = e.arg /\ view'.count = 0 /\ view'.status = "running"
    BY <1>1, <1>5, <2>1 DEF Views
  <2>3. ASSUME view.phase # NoPhase PROVE Rises(view.phase, e.arg)
    <3>1. PICK i \in 1..(at - 1) : s[i] = Ev("phase", view.phase) /\ NoSwitch(s, i, at - 1)
      BY <1>5, <2>3
    <3>2. i \in DOMAIN s /\ i < at
      BY <1>1, <1>2
    <3>3. NoSwitch(s, i, at)
      <4>. SUFFICES ASSUME NEW k \in DOMAIN s, i < k, k <= at PROVE s[k].type # "demo_mode"
        BY DEF NoSwitch
      <4>1. k = at \/ k <= at - 1
        BY <1>1
      <4>. QED  BY <1>3, <3>1, <4>1 DEF NoSwitch, e
    <3>4. s[i].type = "phase" /\ s[i].arg = view.phase /\ s[at].type = "phase" /\ s[at].arg = e.arg
      BY <1>6, <3>1 DEF Ev, e
    <3>5. PhasesRise(s)
      BY DEF IInv, StreamInv
    <3>. HIDE DEF s, at
    <3>. QED  BY <1>3, <3>2, <3>3, <3>4, <3>5 DEF PhasesRise
  <2>. QED  BY <1>1, <1>3, <1>4, <1>5, <2>2, <2>3, EnteringReveals
<1>7. CASE e.type = "tool_result"
  <2>1. view'.count = view.count + 1 /\ view'.phase = view.phase /\ view'.status = "running"
    <3>. DEFINE t == Settled(view.tools)
    <3>1. view' = [view EXCEPT !.tools = t, !.count = @ + 1]
      BY <1>2, <1>3, <1>7, ReduceIs
    <3>. HIDE DEF t
    <3>. QED  BY <1>1, <1>5, <3>1 DEF Views
  <2>2. view.count \in Nat
    BY <1>1 DEF Views
  <2>3. CASE view.phase = NoPhase
    BY <1>1, <1>4, <1>5, <2>1, <2>3, VisibleIs
  <2>4. CASE view.phase # NoPhase
    <3>1. view.phase \in 1..7 /\ view.phase + 1 \in 1..7
      BY <1>1, <1>5, <2>4, VisibleIs
    <3>2. Base(view.phase) \in Nat /\ Base(view.phase + 1) \in Nat
      BY <3>1, BaseRises
    <3>3. /\ VisibleCount(view) = IF Base(view.phase) + view.count < Base(view.phase + 1)
                                  THEN Base(view.phase) + view.count ELSE Base(view.phase + 1)
          /\ VisibleCount(view') = IF Base(view.phase) + (view.count + 1) < Base(view.phase + 1)
                                   THEN Base(view.phase) + (view.count + 1) ELSE Base(view.phase + 1)
      BY <1>1, <1>4, <1>5, <2>1, <2>4, VisibleIs
    <3>. QED  BY <2>2, <3>2, <3>3
  <2>. QED  BY <2>3, <2>4
<1>8. CASE e.type \notin {"phase", "tool_result"}
  <2>1. {"phase", "count"} \subseteq Fields /\ ~Sets(e, "phase") /\ ~Sets(e, "count")
    BY <1>3, <1>8, SetsIs DEF Fields
  <2>2. view'.phase = view.phase /\ view'.count = view.count
    BY <1>1, <1>2, <1>3, <1>8, <2>1, ReduceField
  <2>3. view'.status \in {"running", "failed"}
    <3>1. CASE e.type = "started"
      <4>1. view' = [view EXCEPT !.status = "running"]
        BY <1>2, <1>3, <3>1, ReduceIs
      <4>. QED  BY <1>1, <4>1 DEF Views
    <3>2. CASE e.type = "fatal"
      <4>1. view' = [view EXCEPT !.error = TRUE, !.status = "failed"]
        BY <1>2, <1>3, <3>2, ReduceIs
      <4>. QED  BY <1>1, <4>1 DEF Views
    <3>3. CASE e.type \notin {"started", "fatal"}
      <4>1. "status" \in Fields /\ ~Sets(e, "status")
        BY <1>3, <3>3, SetsIs DEF Fields
      <4>2. view'.status = view.status
        BY <1>1, <1>2, <1>3, <4>1, ReduceField
      <4>. QED  BY <1>5, <4>2
    <3>. QED  BY <3>1, <3>2, <3>3
  <2>4. view.count \in Nat
    BY <1>1 DEF Views
  <2>5. VisibleCount(view') = VisibleCount(view) /\ VisibleCount(view) \in Nat
    <3>1. CASE view.phase = NoPhase
      BY <1>1, <1>4, <1>5, <2>2, <2>3, <3>1, VisibleIs
    <3>2. CASE view.phase # NoPhase
      BY <1>1, <1>4, <1>5, <2>2, <2>3, <3>2, VisibleIs
    <3>. QED  BY <3>1, <3>2
  <2>. QED  BY <2>5
<1>. QED  BY <1>6, <1>7, <1>8

\* A chart loses no points while the events of one connection arrive, except at
\* the switch to the recording and at the end (playback.ts).
THEOREM RevealTheorem == Spec => RevealNeverShrinks
<1>1. IInv /\ [Next]_vars =>
        [(\E r \in Runs : Deliver(r) /\ conn[r].opened = 1
                          /\ stream[r][conn[r].at].type \notin {"demo_mode", "resolved"})
           => VisibleCount(view) <= VisibleCount(view')]_vars
  BY DeliverReveals
<1>. QED  BY <1>1, PageInvariant, PTL DEF Spec, RevealNeverShrinks

-----------------------------------------------------------------------------
(* The incident page, whose state is its own: what was deleted stays gone, *)
(* the detail is the selected incident's, a form makes one row.            *)

Polls ==
  [pc : {"off"}] \cup [pc : {"sent"}, id : Nat] \cup [pc : {"answered"}, id : Nat, got : SUBSET Nat]

Creation ==
  [pc : {"idle"}] \cup [pc : {"sent"}, key : Nat \ {0}, no : Nat \ {0}] \cup [pc : {"done"}, id : Nat]
Deletion == [pc : {"idle"}] \cup [pc : {"sent", "done"}, id : Nat]

RowsTyped ==
  /\ DOMAIN rows \subseteq Nat /\ stored \in Nat
  /\ \A n \in DOMAIN rows : rows[n] \in [key : Nat, form : Nat]

FormTyped ==
  /\ form \in [no : Nat, key : Nat]
  /\ opened \in Nat /\ minted \in Nat
  /\ act \in [{"create", "delete", "retry"} -> Creation \cup Deletion]
  /\ act["create"] \in Creation /\ act["delete"] \in Deletion

ShownTyped ==
  /\ list \subseteq Nat /\ gone \subseteq Nat
  /\ selected \in Nat /\ detail \in Nat
  /\ demo \in BOOLEAN /\ dirty \in SUBSET Effects
  /\ poll \in [Effects -> Polls]

\* Every variable is of its type.
IncidentTypeOK == RowsTyped /\ FormTyped /\ ShownTyped

\* The effect that runs asks for the incident that is selected, and whatever
\* changes the selection makes it run again.
DetailFollows ==
  "detail" \notin dirty =>
    /\ poll["detail"].pc # "off" => poll["detail"].id = selected
    /\ detail # 0 => detail = selected

\* The number of a form says which key it has: the rows that came from it, the
\* submission under way and the form itself agree.
KeysFollow ==
  /\ form.no <= opened
  /\ \A n \in DOMAIN rows :
       /\ rows[n].form <= opened
       /\ rows[n].form # 0 => rows[n].key # 0
       /\ form.no # 0 /\ rows[n].form = form.no => rows[n].key = form.key
  /\ act["create"].pc = "sent" =>
       LET job == act["create"] IN
       /\ job.no <= opened
       /\ form.no = job.no => form.key = job.key
       /\ \A n \in DOMAIN rows : rows[n].form = job.no => rows[n].key = job.key

IncidentIInv == IncidentTypeOK /\ DeletedStaysGone /\ DetailFollows /\ KeysFollow /\ OneRowPerForm

-----------------------------------------------------------------------------
(* Initially.                                                              *)

LEMMA IncidentInitially == IncidentInit => IncidentIInv
<1>. SUFFICES ASSUME IncidentInit PROVE IncidentIInv
  OBVIOUS
<1>1. RowsTyped /\ DOMAIN rows = {}
  BY DEF IncidentInit, RowsTyped
<1>2. FormTyped
  BY DEF IncidentInit, FormTyped, NoForm, Idle, Creation, Deletion
<1>3. ShownTyped
  BY DEF IncidentInit, ShownTyped, Effects, Off, Polls
<1>4. DeletedStaysGone
  BY DEF IncidentInit, DeletedStaysGone
<1>5. DetailFollows
  BY DEF IncidentInit, DetailFollows, Effects
<1>6. KeysFollow
  BY <1>1 DEF IncidentInit, KeysFollow, NoForm, Idle
<1>7. OneRowPerForm
  BY <1>1 DEF OneRowPerForm
<1>. QED  BY <1>1, <1>2, <1>3, <1>4, <1>5, <1>6, <1>7 DEF IncidentIInv, IncidentTypeOK

-----------------------------------------------------------------------------
(* The rows and the form.                                                 *)

\* What the rows, the form and the creation under way have in common.
FormPart == RowsTyped /\ FormTyped /\ KeysFollow /\ OneRowPerForm

\* A row that is no form's.
LEMMA OthersKeep ==
  ASSUME FormPart, Stored(0, 0), UNCHANGED <<typed, act>>
  PROVE  FormPart'
<1>1. \A n \in DOMAIN rows' : \/ n = stored + 1 /\ rows'[n] = [key |-> 0, form |-> 0]
                              \/ n \in DOMAIN rows /\ rows'[n] = rows[n]
  BY DEF Stored
<1>2. RowsTyped'
  BY <1>1 DEF FormPart, RowsTyped, Stored
<1>3. FormTyped'
  BY DEF FormPart, FormTyped, typed
<1>4. \A n \in DOMAIN rows' : rows'[n].form # 0 => n \in DOMAIN rows /\ rows'[n] = rows[n]
  BY <1>1
<1>5. OneRowPerForm'
  BY <1>4 DEF FormPart, OneRowPerForm
<1>6. KeysFollow'
  BY <1>1, <1>4 DEF FormPart, KeysFollow, FormTyped, RowsTyped, typed, Creation
<1>. QED  BY <1>2, <1>3, <1>5, <1>6 DEF FormPart

\* Rows that go, or stay, while a deletion may be answered.
LEMMA FewerRows ==
  ASSUME FormPart, stored' = stored,
         DOMAIN rows' \subseteq DOMAIN rows, \A n \in DOMAIN rows' : rows'[n] = rows[n],
         UNCHANGED typed,
         act' = act \/ \E j \in Deletion : act' = [act EXCEPT !["delete"] = j]
  PROVE  FormPart'
<1>1. RowsTyped'
  BY DEF FormPart, RowsTyped
<1>2. FormTyped' /\ act'["create"] = act["create"]
  BY DEF FormPart, FormTyped, typed
<1>3. OneRowPerForm'
  BY DEF FormPart, OneRowPerForm
<1>4. KeysFollow'
  BY <1>2 DEF FormPart, KeysFollow, typed
<1>. QED  BY <1>1, <1>2, <1>3, <1>4 DEF FormPart

\* A form mounted: it has a number no row has yet.
LEMMA MountKeeps ==
  ASSUME FormPart, Mount, UNCHANGED <<server, minted, act>>
  PROVE  FormPart'
<1>1. RowsTyped' /\ OneRowPerForm'
  BY DEF FormPart, RowsTyped, OneRowPerForm, server
<1>2. FormTyped'
  BY DEF FormPart, FormTyped, Mount
<1>3. \A n \in DOMAIN rows : rows[n].form \in Nat /\ rows[n].form <= opened
  BY DEF FormPart, RowsTyped, KeysFollow
<1>4. act["create"].pc = "sent" => act["create"].no \in Nat /\ act["create"].no <= opened
  BY DEF FormPart, FormTyped, KeysFollow, Creation
<1>5. KeysFollow'
  BY <1>3, <1>4 DEF FormPart, FormTyped, KeysFollow, Mount, server
<1>. QED  BY <1>1, <1>2, <1>5 DEF FormPart

\* A form closed.
LEMMA CloseKeeps ==
  ASSUME FormPart, form' = NoForm, UNCHANGED <<server, opened, minted>>,
         act' = act \/ act' = [act EXCEPT !["create"] = Idle]
  PROVE  FormPart'
<1>1. RowsTyped' /\ OneRowPerForm'
  BY DEF FormPart, RowsTyped, OneRowPerForm, server
<1>2. FormTyped'
  BY DEF FormPart, FormTyped, NoForm, Idle, Creation
<1>3. act'["create"].pc = "sent" => act' = act /\ act["create"].no # 0
  BY DEF FormPart, FormTyped, Idle, Creation
<1>4. KeysFollow'
  BY <1>3 DEF FormPart, FormTyped, KeysFollow, NoForm, server
<1>. QED  BY <1>1, <1>2, <1>4 DEF FormPart

\* A submission: a form without a key has no row, and gets one.
LEMMA SubmitKeeps ==
  ASSUME FormPart, Submit
  PROVE  FormPart'
<1>. DEFINE key == KeyOf(form)
            job == [pc |-> "sent", key |-> key, no |-> form.no]
<1>1. /\ form \in [no : Nat, key : Nat] /\ form.no # 0 /\ form.no <= opened
      /\ opened \in Nat /\ minted \in Nat /\ UNCHANGED <<rows, stored, opened>>
  BY DEF FormPart, FormTyped, KeysFollow, Submit, server
<1>2. key \in Nat \ {0} /\ (form.key # 0 => key = form.key)
  BY <1>1 DEF KeyOf
<1>3. form' = [form EXCEPT !.key = key] /\ act' = [act EXCEPT !["create"] = job]
  BY DEF Submit
<1>4. minted' \in Nat
  BY <1>1, <1>2 DEF Submit
<1>5. job \in Creation
  BY <1>1, <1>2 DEF Creation
<1>6. FormTyped'
  BY <1>1, <1>2, <1>3, <1>4, <1>5 DEF FormPart, FormTyped
<1>7. RowsTyped' /\ OneRowPerForm'
  BY <1>1 DEF FormPart, RowsTyped, OneRowPerForm
<1>8. ASSUME NEW n \in DOMAIN rows, rows[n].form = form.no
      PROVE  rows[n].key = key
  BY <1>1, <1>2, <1>8 DEF FormPart, KeysFollow
<1>9. act'["create"] = job
  BY <1>3 DEF FormPart, FormTyped
<1>10. form'.no = form.no /\ form'.key = key
  BY <1>1, <1>3
<1>11. KeysFollow'
  BY <1>1, <1>8, <1>9, <1>10 DEF FormPart, KeysFollow
<1>. QED  BY <1>6, <1>7, <1>11 DEF FormPart

\* A job that is pressed, answered, refused or done, other than the creation's
\* submission.
LEMMA JobKeeps ==
  ASSUME FormPart, UNCHANGED <<server, typed>>,
         NEW a \in {"create", "delete", "retry"}, NEW j \in Creation \cup Deletion,
         act' = [act EXCEPT ![a] = j],
         a = "create" => j \in Creation /\ j.pc # "sent",
         a = "delete" => j \in Deletion
  PROVE  FormPart'
<1>1. RowsTyped' /\ OneRowPerForm'
  BY DEF FormPart, RowsTyped, OneRowPerForm, server
<1>2. FormTyped'
  BY DEF FormPart, FormTyped, typed
<1>3. act'["create"].pc = "sent" => act'["create"] = act["create"]
  BY DEF FormPart, FormTyped
<1>4. KeysFollow'
  BY <1>3 DEF FormPart, KeysFollow, server, typed
<1>. QED  BY <1>1, <1>2, <1>4 DEF FormPart

\* The row of a submission: there is none of its key, so none of its form.
LEMMA CreateKeeps ==
  ASSUME FormPart, Create
  PROVE  FormPart'
<1>. DEFINE job == act["create"]
            old == {n \in DOMAIN rows : rows[n].key = job.key}
<1>1. /\ job.pc = "sent" /\ UNCHANGED typed
      /\ \/ old # {} /\ UNCHANGED server /\ \E n \in old : Answer("create", n)
         \/ old = {} /\ Stored(job.key, job.no) /\ Answer("create", stored + 1)
  BY DEF Create
<1>2. job.key \in Nat \ {0} /\ job.no \in Nat \ {0} /\ job.no <= opened
  BY <1>1 DEF FormPart, FormTyped, KeysFollow, Creation
<1>3. PICK id \in Nat : act' = [act EXCEPT !["create"] = [pc |-> "done", id |-> id]]
  BY <1>1 DEF Answer, FormPart, RowsTyped
<1>4. FormTyped' /\ act'["create"].pc # "sent"
  BY <1>1, <1>3 DEF FormPart, FormTyped, typed, Creation
<1>5. CASE UNCHANGED server
  <2>1. RowsTyped' /\ OneRowPerForm'
    BY <1>5 DEF FormPart, RowsTyped, OneRowPerForm, server
  <2>2. KeysFollow'
    BY <1>1, <1>4, <1>5 DEF FormPart, KeysFollow, server, typed
  <2>. QED  BY <1>4, <2>1, <2>2 DEF FormPart
<1>6. CASE old = {} /\ Stored(job.key, job.no)
  <2>1. \A n \in DOMAIN rows' :
           \/ n = stored + 1 /\ rows'[n] = [key |-> job.key, form |-> job.no]
           \/ n \in DOMAIN rows /\ rows'[n] = rows[n]
    BY <1>6 DEF Stored
  <2>2. RowsTyped'
    BY <1>2, <1>6, <2>1 DEF FormPart, RowsTyped, Stored
  <2>3. \A n \in DOMAIN rows : rows[n].form # job.no
    BY <1>1, <1>6 DEF FormPart, KeysFollow
  <2>4. OneRowPerForm'
    BY <2>1, <2>3 DEF FormPart, OneRowPerForm
  <2>5. form.no = job.no => form.key = job.key
    BY <1>1 DEF FormPart, KeysFollow
  <2>6. KeysFollow'
    BY <1>1, <1>2, <1>4, <2>1, <2>5 DEF FormPart, KeysFollow, typed
  <2>. QED  BY <1>4, <2>2, <2>4, <2>6 DEF FormPart
<1>. QED  BY <1>1, <1>5, <1>6

LEMMA FormStep ==
  ASSUME FormPart, ShownTyped, [IncidentNext]_incidentVars
  PROVE  FormPart'
<1>i. Idle \in Creation /\ Idle \in Deletion /\ Idle.pc # "sent"
  BY DEF Idle, Creation, Deletion
<1>1. CASE UNCHANGED incidentVars
  BY <1>1, FewerRows DEF incidentVars, server
<1>2. CASE Others
  <2>1. CASE Stored(0, 0)
    BY <1>2, <2>1, OthersKeep DEF Others
  <2>2. CASE \E id \in DOMAIN rows : Removed(id)
    BY <1>2, <2>2, FewerRows DEF Others, Removed
  <2>. QED  BY <1>2, <2>1, <2>2 DEF Others
<1>3. CASE \/ Commit \/ \E f \in Effects : Read(f) \/ Miss(f)
           \/ ShowList \/ ShowDetail \/ \E id \in list : Select(id)
  <2>1. UNCHANGED <<server, typed, act>>
    BY <1>3 DEF Commit, Read, Miss, ShowList, ShowDetail, Select
  <2>. QED  BY <2>1, FewerRows DEF server
<1>4. CASE ToggleDemo
  <2>1. CASE Mount
    BY <1>4, <2>1, MountKeeps DEF ToggleDemo
  <2>2. CASE UNCHANGED <<form, opened>>
    BY <1>4, <2>2, FewerRows DEF ToggleDemo, server, typed
  <2>. QED  BY <1>4, <2>1, <2>2 DEF ToggleDemo
<1>5. CASE ToggleForm
  <2>1. CASE Mount
    BY <1>5, <2>1, MountKeeps DEF ToggleForm
  <2>2. CASE form' = NoForm /\ UNCHANGED opened
    BY <1>5, <2>2, CloseKeeps DEF ToggleForm
  <2>. QED  BY <1>5, <2>1, <2>2 DEF ToggleForm
<1>6. CASE Submit
  BY <1>6, SubmitKeeps
<1>7. CASE Delete \/ Retry
  <2>1. PICK a \in {"delete", "retry"}, id \in Nat : Press(a, id)
    BY <1>7 DEF Delete, Retry, ShownTyped
  <2>2. [pc |-> "sent", id |-> id] \in Deletion
    BY DEF Deletion
  <2>. QED  BY <2>1, <2>2, JobKeeps DEF Press
<1>8. CASE \E a \in DOMAIN act : Lost(a)
  <2>1. PICK a \in {"create", "delete", "retry"} : Lost(a)
    BY <1>8 DEF FormPart, FormTyped
  <2>. QED  BY <1>i, <2>1, JobKeeps DEF Lost
<1>9. CASE Create
  BY <1>9, CreateKeeps
<1>10. CASE Remove
  <2>. DEFINE id == act["delete"].id
              j == [pc |-> "done", id |-> id]
  <2>1. act["delete"].pc = "sent" /\ Removed(id) /\ act' = [act EXCEPT !["delete"] = j] /\ UNCHANGED typed
    BY <1>10 DEF Remove, Answer
  <2>2. j \in Deletion
    BY <2>1 DEF FormPart, FormTyped, Deletion
  <2>3. DOMAIN rows' \subseteq DOMAIN rows /\ (\A n \in DOMAIN rows' : rows'[n] = rows[n]) /\ stored' = stored
    BY <2>1 DEF Removed
  <2>. QED  BY <2>1, <2>2, <2>3, FewerRows
<1>11. CASE Requeue
  <2>1. [pc |-> "done", id |-> 0] \in Deletion
    BY DEF Deletion
  <2>. QED  BY <1>11, <2>1, JobKeeps DEF Requeue, Answer
<1>12. CASE Created
  <2>1. act' = [act EXCEPT !["create"] = Idle]
    BY <1>12 DEF Created, Handled
  <2>. QED  BY <1>12, <2>1, CloseKeeps DEF Created, Handled
<1>13. CASE Deleted
  BY <1>i, <1>13, JobKeeps DEF Deleted, Handled, typed
<1>14. CASE Retried
  BY <1>i, <1>14, JobKeeps DEF Retried, Handled, typed
<1>. QED  BY <1>1, <1>2, <1>3, <1>4, <1>5, <1>6, <1>7, <1>8, <1>9, <1>10, <1>11, <1>12, <1>13, <1>14 DEF IncidentNext

-----------------------------------------------------------------------------
(* What is shown.                                                          *)

ShownPart == ShownTyped /\ DeletedStaysGone /\ DetailFollows

LEMMA CommitShows ==
  ASSUME ShownPart, Commit
  PROVE  ShownPart'
<1>1. /\ dirty' = {} /\ UNCHANGED <<list, selected, gone, demo>>
      /\ detail' = IF "detail" \in dirty THEN 0 ELSE detail
      /\ poll' \in [Effects -> Polls]
  <2>1. Off \in Polls /\ \A n \in Nat : Sent(n) \in Polls
    BY DEF Off, Sent, Polls
  <2>2. RunDetail(poll["detail"]) \in Polls
    BY <2>1 DEF RunDetail, ShownPart, ShownTyped
  <2>3. poll["list"] \in Polls /\ poll["detail"] \in Polls
    BY DEF ShownPart, ShownTyped, Effects
  <2>. QED  BY <2>1, <2>2, <2>3 DEF Commit, Effects
<1>2. ShownTyped' /\ DeletedStaysGone'
  BY <1>1 DEF ShownPart, ShownTyped, DeletedStaysGone
<1>3. poll'["detail"] = IF "detail" \notin dirty THEN poll["detail"] ELSE RunDetail(poll["detail"])
  BY DEF Commit
<1>4. LET p == RunDetail(poll["detail"]) IN p.pc # "off" => p.id = selected
  BY DEF RunDetail, Off, Sent
<1>5. DetailFollows'
  BY <1>1, <1>3, <1>4 DEF ShownPart, DetailFollows
<1>. QED  BY <1>2, <1>5 DEF ShownPart

\* A poll goes on for the incident it is for.
LEMMA PollShows ==
  ASSUME ShownPart, NEW f \in Effects, NEW q \in Polls, poll[f].pc # "off",
         q.pc # "off", q.id = poll[f].id, poll' = [poll EXCEPT ![f] = q],
         UNCHANGED <<selected, gone, demo, dirty>>,
         list' \subseteq Nat /\ list' \cap gone = {},
         detail' \in Nat /\ (detail' = detail \/ (detail' = poll["detail"].id /\ poll["detail"].pc # "off"))
  PROVE  ShownPart'
<1>1. ShownTyped' /\ DeletedStaysGone'
  BY DEF ShownPart, ShownTyped, DeletedStaysGone
<1>2. poll'["detail"] = IF f = "detail" THEN q ELSE poll["detail"]
  BY DEF ShownPart, ShownTyped, Effects
<1>3. DetailFollows'
  BY <1>2 DEF ShownPart, DetailFollows
<1>. QED  BY <1>1, <1>3 DEF ShownPart

LEMMA ReadShows ==
  ASSUME ShownPart, RowsTyped, NEW f \in Effects, Read(f) \/ Miss(f)
  PROVE  ShownPart'
<1>1. poll[f] \in Polls /\ list \subseteq Nat /\ list \cap gone = {} /\ detail \in Nat
  BY DEF ShownPart, ShownTyped, DeletedStaysGone
<1>2. CASE Read(f)
  <2>. DEFINE q == [pc |-> "answered", id |-> poll[f].id,
                    got |-> IF f = "list" THEN DOMAIN rows ELSE {poll[f].id} \cap DOMAIN rows]
  <2>1. poll[f].pc # "off" /\ poll[f].id \in Nat
    BY <1>1, <1>2 DEF Read, Polls
  <2>2. q \in Polls
    BY <2>1 DEF Polls, RowsTyped
  <2>3. poll' = [poll EXCEPT ![f] = q] /\ UNCHANGED <<list, selected, detail, gone, demo, dirty>>
    BY <1>2 DEF Read, shown
  <2>. QED  BY <1>1, <2>1, <2>2, <2>3, PollShows
<1>3. CASE Miss(f)
  <2>1. poll[f].pc # "off" /\ poll[f].id \in Nat
    BY <1>1, <1>3 DEF Miss, Polls
  <2>2. Again(f, FALSE) \in Polls /\ Again(f, FALSE).pc # "off" /\ Again(f, FALSE).id = poll[f].id
    BY <2>1 DEF Polls, Again, Sent
  <2>3. poll' = [poll EXCEPT ![f] = Again(f, FALSE)] /\ UNCHANGED <<list, selected, detail, gone, demo, dirty>>
    BY <1>3 DEF Miss, shown
  <2>. QED  BY <1>1, <2>1, <2>2, <2>3, PollShows
<1>. QED  BY <1>2, <1>3

LEMMA AnswerShows ==
  ASSUME ShownPart, ShowList \/ ShowDetail
  PROVE  ShownPart'
<1>1. /\ \A f \in Effects : poll[f] \in Polls
      /\ list \subseteq Nat /\ list \cap gone = {} /\ detail \in Nat
  BY DEF ShownPart, ShownTyped, DeletedStaysGone
<1>2. ASSUME NEW f \in Effects, poll[f].pc = "answered"
      PROVE  /\ poll[f].id \in Nat /\ poll[f].got \subseteq Nat
             /\ Again(f, TRUE) \in Polls /\ Again(f, TRUE).pc # "off" /\ Again(f, TRUE).id = poll[f].id
  BY <1>1, <1>2 DEF Polls, Again, Sent
<1>3. CASE ShowList
  <2>1. "list" \in Effects /\ poll["list"].pc = "answered"
    BY <1>3 DEF ShowList, Effects
  <2>2. list' \subseteq Nat /\ list' \cap gone = {}
    BY <1>2, <1>3, <2>1 DEF ShowList, Visible
  <2>3. /\ poll' = [poll EXCEPT !["list"] = Again("list", TRUE)]
        /\ UNCHANGED <<selected, detail, gone, demo, dirty>>
    BY <1>3 DEF ShowList
  <2>. QED  BY <1>1, <1>2, <2>1, <2>2, <2>3, PollShows
<1>4. CASE ShowDetail
  <2>1. "detail" \in Effects /\ poll["detail"].pc = "answered" /\ detail' = poll["detail"].id
    BY <1>4 DEF ShowDetail, Effects
  <2>2. /\ poll' = [poll EXCEPT !["detail"] = Again("detail", TRUE)]
        /\ UNCHANGED <<list, selected, gone, demo, dirty>>
    BY <1>4 DEF ShowDetail
  <2>. QED  BY <1>1, <1>2, <2>1, <2>2, PollShows
<1>. QED  BY <1>3, <1>4

\* A change that makes the detail's effect run again.
LEMMA DirtyShows ==
  ASSUME ShownPart, "detail" \in dirty', dirty' \subseteq Effects, demo' \in BOOLEAN,
         selected' \in Nat, list' \subseteq Nat, gone' \subseteq Nat, list' \cap gone' = {},
         UNCHANGED <<detail, poll>>
  PROVE  ShownPart'
BY DEF ShownPart, ShownTyped, DeletedStaysGone, DetailFollows

LEMMA ShownStep ==
  ASSUME ShownPart, FormPart, [IncidentNext]_incidentVars
  PROVE  ShownPart'
<1>1. CASE UNCHANGED <<shown, demo, dirty, poll>>
  BY <1>1 DEF ShownPart, ShownTyped, DeletedStaysGone, DetailFollows, shown
<1>2. CASE Commit
  BY <1>2, CommitShows
<1>3. CASE \/ \E f \in Effects : Read(f) \/ Miss(f)
           \/ ShowList \/ ShowDetail
  BY <1>3, ReadShows, AnswerShows DEF FormPart
<1>4. /\ list \subseteq Nat /\ gone \subseteq Nat /\ list \cap gone = {}
      /\ selected \in Nat /\ demo \in BOOLEAN
      /\ "detail" \in Effects
  BY DEF ShownPart, ShownTyped, DeletedStaysGone, Effects
<1>5. CASE \E id \in list : Select(id)
  <2>1. "detail" \in dirty' /\ dirty' \subseteq Effects
    BY <1>4, <1>5 DEF Select
  <2>2. selected' \in Nat
    BY <1>4, <1>5 DEF Select
  <2>. QED  BY <1>4, <1>5, <2>1, <2>2, DirtyShows DEF Select
<1>6. CASE ToggleDemo
  <2>1. dirty' = Effects /\ demo' \in BOOLEAN /\ UNCHANGED <<shown, poll>>
    BY <1>6 DEF ToggleDemo
  <2>. QED  BY <1>4, <2>1, DirtyShows DEF shown
<1>7. CASE Created
  <2>1. act["create"].pc = "done" /\ selected' = act["create"].id
    BY <1>7 DEF Created, Handled
  <2>2. selected' \in Nat
    BY <2>1 DEF FormPart, FormTyped, Creation
  <2>. QED  BY <1>4, <1>7, <2>2, DirtyShows DEF Created, Handled
<1>8. CASE Deleted
  <2>. DEFINE id == act["delete"].id
  <2>1. act["delete"].pc = "done" /\ gone' = gone \cup {id} /\ list' = list \ {id}
        /\ selected' = IF selected = id THEN 0 ELSE selected
    BY <1>8 DEF Deleted, Handled
  <2>2. id \in Nat
    BY <2>1 DEF FormPart, FormTyped, Deletion
  <2>3. gone' \subseteq Nat /\ list' \subseteq Nat /\ list' \cap gone' = {} /\ selected' \in Nat
    BY <1>4, <2>1, <2>2
  <2>. QED  BY <1>4, <1>8, <2>3, DirtyShows DEF Deleted, Handled
<1>9. CASE Retried
  BY <1>4, <1>9, DirtyShows DEF Retried, Handled
<1>10. CASE \/ UNCHANGED incidentVars \/ Others \/ ToggleForm \/ Submit \/ Delete \/ Retry
            \/ (\E a \in DOMAIN act : Lost(a)) \/ Create \/ Remove \/ Requeue
  <2>1. UNCHANGED <<shown, demo, dirty, poll>>
    BY <1>10 DEF incidentVars, Others, ToggleForm, Submit, Delete, Retry, Press, Lost, Create, Remove, Requeue
  <2>. QED  BY <1>1, <2>1
<1>. QED  BY <1>2, <1>3, <1>5, <1>6, <1>7, <1>8, <1>9, <1>10 DEF IncidentNext

-----------------------------------------------------------------------------
(* The theorems.                                                           *)

LEMMA IncidentInvariant == IncidentSpec => []IncidentIInv
<1>1. IncidentInit => IncidentIInv
  BY IncidentInitially
<1>2. IncidentIInv /\ [IncidentNext]_incidentVars => IncidentIInv'
  <2>1. ASSUME FormPart, ShownPart, [IncidentNext]_incidentVars PROVE FormPart' /\ ShownPart'
    <3>1. FormPart'
      BY <2>1, FormStep DEF ShownPart
    <3>. QED  BY <2>1, <3>1, ShownStep
  <2>. QED  BY <2>1 DEF IncidentIInv, IncidentTypeOK, FormPart, ShownPart
<1>. QED  BY <1>1, <1>2, PTL DEF IncidentSpec

\* Every variable of the page and of the table it shows is of its type.
THEOREM PageTypes == IncidentSpec => []IncidentTypeOK
<1>1. IncidentIInv => IncidentTypeOK
  BY DEF IncidentIInv
<1>. QED  BY <1>1, IncidentInvariant, PTL

\* An incident the reader deleted never comes back into the list.
THEOREM GoneForGood == IncidentSpec => []DeletedStaysGone
<1>1. IncidentIInv => DeletedStaysGone
  BY DEF IncidentIInv
<1>. QED  BY <1>1, IncidentInvariant, PTL

\* With no effect left to run, the detail shown is the selected incident's.
THEOREM DetailFollowsSelection == IncidentSpec => []DetailIsSelected
<1>1. IncidentIInv => DetailIsSelected
  BY DEF IncidentIInv, DetailFollows, DetailIsSelected
<1>. QED  BY <1>1, IncidentInvariant, PTL

\* However often a form is submitted, one row of the table is its.
THEOREM FormMakesOneRow == IncidentSpec => []OneRowPerForm
<1>1. IncidentIInv => OneRowPerForm
  BY DEF IncidentIInv
<1>. QED  BY <1>1, IncidentInvariant, PTL

=============================================================================
