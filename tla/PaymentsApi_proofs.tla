-------------------------- MODULE PaymentsApi_proofs --------------------------
(***************************************************************************)
(* For any currencies, amounts, addresses, limits and number of calls: the *)
(* books of the demo service agree, its refunds stay within the captures,  *)
(* and its throttle holds, in the service and in the replayed campaign.    *)
(*                                                                         *)
(* The throttle prunes and counts attempts, the promise is about those     *)
(* verified. What ties them: the last verified attempts are no later than  *)
(* the last attempts recorded, place by place from the end.                *)
(*                                                                         *)
(* The simulations tell a fixed code from one that is not: an address's    *)
(* slots are an interval apart, so the limit is never met, and the guesses *)
(* before a hit fall into one window, so a lockout has counted them all.   *)
(***************************************************************************)
EXTENDS PaymentsApi, FiniteSetTheorems, SequenceTheorems, WellFoundedInduction, TLAPS

Captures == [id: PaymentIds, amount: Nat, currency: Currencies]
Entries == [shape: Shapes, payment: Captures]
Period == SubSeq(captured, closed + 1, Len(captured))

SettlementTypes ==
  /\ keeps \in Shapes
  /\ captured \in Seq(Captures) /\ queue \in Seq(Entries) /\ settled \in Seq(Entries)
  /\ closed \in 0..Len(captured)
  /\ totals \in [Currencies -> [total: Nat, count: Nat]]
  /\ refunded \in Seq(Nat) /\ Len(refunded) = Len(captured)

SettlementInv == SettlementTypes /\ BooksAgree /\ RefundsWithinCapture

Ascending(times) == \A i, j \in 1..Len(times) : i <= j => times[i] <= times[j]

\* The place as far from the end of a sequence of n as j is of one of m.
Place(n, m, j) == n - (m - j)

\* From the end, each verified attempt is no later than the recorded one in the
\* same place, as long as it counts.
Backs(seen, recorded, t) ==
  \A j \in 1..Len(seen) : seen[j] > t - AuthWindow =>
    /\ Place(Len(recorded), Len(seen), j) \in 1..Len(recorded)
    /\ recorded[Place(Len(recorded), Len(seen), j)] >= seen[j]

\* Every entry is a window after the one `limit` before.
Spaced(seen, most) ==
  \A i \in 1..Len(seen) : i + most <= Len(seen) => seen[i + most] >= seen[i] + AuthWindow

AddressFits(recorded, seen, most, t) ==
  /\ recorded \in Seq(Nat) /\ seen \in Seq(Nat) /\ Ascending(recorded)
  /\ \A i \in 1..Len(recorded) : recorded[i] <= t
  /\ Backs(seen, recorded, t) /\ Spaced(seen, most)

ThrottleInv ==
  /\ clock \in Nat /\ limit \in Nat /\ attempt \in Nat
  /\ ipAttempts = [ip \in Addresses |-> ipAttempts[ip]]
  /\ verified = [ip \in Addresses |-> verified[ip]]
  /\ \A ip \in Addresses : AddressFits(ipAttempts[ip], verified[ip], limit, clock)

-----------------------------------------------------------------------------
(* Recursion and induction over the places of a sequence.                  *)

LEMMA LeastElement ==
  ASSUME NEW T \in SUBSET Nat, T # {}
  PROVE  \E x \in T : \A y \in T : x <= y
<1>1. PICK x \in T : \A y \in T : ~(<<y, x>> \in OpToRel(<, Nat))
  BY WFMin, NatLessThanWellFounded
<1>2. \A y \in T : ~(y < x)
  BY <1>1 DEF OpToRel
<1>. QED  BY <1>2

Zero == [total |-> 0, count |-> 0]

\* What one more entry makes of the tally of a currency.
Tallied(before, entry, c) ==
  IF entry.currency # c THEN before
  ELSE [total |-> before.total + entry.amount, count |-> before.count + 1]

\* f tallies the first entries of s, up to n of them.
Tallies(f, s, c, n) ==
  f = [m \in 0..n |-> IF m = 0 THEN Zero ELSE Tallied(f[m - 1], s[m], c)]

LEMMA TallyExists ==
  ASSUME NEW s, NEW c, NEW n \in Nat PROVE \E f : Tallies(f, s, c, n)
<1>. DEFINE T == {m \in Nat : ~\E f : Tallies(f, s, c, m)}
<1>. SUFFICES ASSUME T # {} PROVE FALSE
  OBVIOUS
<1>1. PICK m \in T : \A y \in T : m <= y
  <2>1. T \in SUBSET Nat
    OBVIOUS
  <2>. HIDE DEF T
  <2>. QED  BY <2>1, LeastElement
<1>2. CASE m = 0
  <2>. DEFINE f == [k \in 0..0 |-> Zero]
  <2>1. Tallies(f, s, c, 0)
    BY DEF Tallies
  <2>. QED  BY <1>1, <1>2, <2>1
<1>3. CASE m # 0
  <2>1. m - 1 \in Nat /\ m - 1 \notin T
    BY <1>1, <1>3
  <2>2. PICK f : Tallies(f, s, c, m - 1)
    BY <2>1
  <2>. DEFINE g == [k \in 0..m |-> IF k = m THEN Tallied(f[m - 1], s[m], c) ELSE f[k]]
  <2>3. \A k \in 0..m - 1 : f[k] = IF k = 0 THEN Zero ELSE Tallied(f[k - 1], s[k], c)
    BY <2>2 DEF Tallies
  <2>4. \A k \in 0..m : g[k] = IF k = 0 THEN Zero ELSE Tallied(g[k - 1], s[k], c)
    <3>. SUFFICES ASSUME NEW k \in 0..m
                  PROVE  g[k] = IF k = 0 THEN Zero ELSE Tallied(g[k - 1], s[k], c)
      OBVIOUS
    <3>1. CASE k = m
      <4>1. g[k] = Tallied(f[m - 1], s[m], c) /\ g[k - 1] = f[m - 1]
        BY <1>3, <3>1
      <4>. HIDE DEF g
      <4>. QED  BY <1>3, <3>1, <4>1
    <3>2. CASE k # m /\ k # 0
      <4>1. k \in 0..m - 1 /\ k - 1 \in 0..m - 1 /\ k - 1 # m /\ k - 1 \in 0..m
        BY <3>2
      <4>2. g[k] = f[k] /\ g[k - 1] = f[k - 1]
        BY <3>2, <4>1
      <4>. HIDE DEF g
      <4>. QED  BY <2>3, <3>2, <4>1, <4>2
    <3>3. CASE k = 0
      <4>1. g[k] = f[k] /\ 0 \in 0..m - 1
        BY <1>3, <3>3
      <4>. HIDE DEF g
      <4>. QED  BY <2>3, <3>3, <4>1
    <3>. QED  BY <3>1, <3>2, <3>3
  <2>5. g = [k \in 0..m |-> g[k]]
    OBVIOUS
  <2>. HIDE DEF g
  <2>6. Tallies(g, s, c, m)
    BY <2>4, <2>5 DEF Tallies
  <2>. QED  BY <1>1, <2>6
<1>. QED  BY <1>2, <1>3

\* Two tallies agree as far as their entries do.
LEMMA TallySame ==
  ASSUME NEW s, NEW r, NEW c, NEW n \in Nat, NEW l \in Nat, n <= l,
         \A i \in 1..n : s[i] = r[i],
         NEW f, Tallies(f, s, c, n), NEW g, Tallies(g, r, c, l)
  PROVE  f[n] = g[n]
<1>. DEFINE T == {m \in 0..n : f[m] # g[m]}
<1>. SUFFICES ASSUME T # {} PROVE FALSE
  OBVIOUS
<1>1. PICK m \in T : \A y \in T : m <= y
  <2>1. T \in SUBSET Nat
    OBVIOUS
  <2>. HIDE DEF T
  <2>. QED  BY <2>1, LeastElement
<1>2. \A k \in 0..n : /\ f[k] = IF k = 0 THEN Zero ELSE Tallied(f[k - 1], s[k], c)
                      /\ g[k] = IF k = 0 THEN Zero ELSE Tallied(g[k - 1], r[k], c)
  BY DEF Tallies
<1>3. m \in 0..n /\ f[m] # g[m]
  BY <1>1
<1>4. m # 0
  BY <1>2, <1>3
<1>5. m - 1 \in 0..n /\ m - 1 \notin T /\ s[m] = r[m]
  BY <1>1, <1>3, <1>4
<1>6. f[m - 1] = g[m - 1]
  BY <1>5
<1>. HIDE DEF T
<1>. QED  BY <1>2, <1>3, <1>4, <1>5, <1>6

LEMMA TallyIs ==
  ASSUME NEW s \in Seq(Captures), NEW c
  PROVE  \E f : Tallies(f, s, c, Len(s)) /\ Tally(s, c) = f[Len(s)]
<1>. DEFINE f == CHOOSE f : Tallies(f, s, c, Len(s))
<1>1. Tallies(f, s, c, Len(s))
  BY TallyExists
<1>2. Tally(s, c) = f[Len(s)]
  BY Zenon DEF Tally, Tallies, Tallied, Zero
<1>. QED  BY <1>1, <1>2

LEMMA TallyEmpty ==
  ASSUME NEW c PROVE Tally(<<>>, c) = Zero
<1>1. <<>> \in Seq(Captures) /\ Len(<<>>) = 0
  OBVIOUS
<1>2. PICK f : Tallies(f, <<>>, c, 0) /\ Tally(<<>>, c) = f[0]
  <2>1. \E f : Tallies(f, <<>>, c, Len(<<>>)) /\ Tally(<<>>, c) = f[Len(<<>>)]
    BY <1>1, TallyIs
  <2>. QED  BY <1>1, <2>1
<1>. QED  BY <1>2 DEF Tallies

LEMMA TallyAppend ==
  ASSUME NEW s \in Seq(Captures), NEW e \in Captures, NEW c
  PROVE  Tally(Append(s, e), c) = Tallied(Tally(s, c), e, c)
<1>. DEFINE r == Append(s, e)
            n == Len(s)
<1>1. /\ r \in Seq(Captures) /\ Len(r) = n + 1 /\ n \in Nat /\ r[n + 1] = e
      /\ \A i \in 1..n : s[i] = r[i]
  OBVIOUS
<1>. HIDE DEF r, n
<1>2. PICK f : Tallies(f, s, c, n) /\ Tally(s, c) = f[n]
  BY TallyIs DEF n
<1>3. PICK g : Tallies(g, r, c, n + 1) /\ Tally(r, c) = g[n + 1]
  <2>1. PICK g : Tallies(g, r, c, Len(r)) /\ Tally(r, c) = g[Len(r)]
    BY <1>1, TallyIs
  <2>. QED  BY <1>1, <2>1
<1>4. f[n] = g[n]
  BY <1>1, <1>2, <1>3, TallySame
<1>5. g[n + 1] = Tallied(g[n], r[n + 1], c)
  <2>1. n + 1 \in 0..n + 1 /\ n + 1 # 0 /\ (n + 1) - 1 = n
    BY <1>1
  <2>. QED  BY <1>3, <2>1 DEF Tallies
<1>. QED  BY <1>1, <1>2, <1>3, <1>4, <1>5 DEF r

-----------------------------------------------------------------------------
(* The books.                                                              *)

LEMMA EntryTypes ==
  ASSUME SettlementTypes, NEW body \in Bodies, Valid(body)
  PROVE  /\ Payment(body) \in Captures /\ Payment(body).amount = body.amount
         /\ Payment(body).currency = body.currency /\ body.currency \in Currencies
         /\ body.amount \in Nat
         /\ Entry(body) \in Entries /\ Entry(body).payment = Payment(body)
<1>1. body.id \in PaymentIds /\ body.amount \in Nat /\ body.currency \in Currencies
  BY SettlementAssumption DEF Bodies, Valid, Supported
<1>2. Payment(body) \in Captures /\ Payment(body).amount = body.amount
      /\ Payment(body).currency = body.currency
  BY <1>1 DEF Payment, Captures
<1>3. Entry(body) \in Entries /\ Entry(body).payment = Payment(body)
  BY <1>2 DEF SettlementTypes, Entry, Entries
<1>. QED  BY <1>1, <1>2, <1>3

\* A capture joins the queue and the captures that were answered.
LEMMA QueueAppends ==
  ASSUME NEW s \in Seq(Entries), NEW q \in Seq(Entries), NEW e \in Entries
  PROVE  s \o Append(q, e) = Append(s \o q, e)
OBVIOUS

LEMMA PaymentsAppend ==
  ASSUME NEW s \in Seq(Entries), NEW e \in Entries
  PROVE  PaymentsOf(Append(s, e)) = Append(PaymentsOf(s), e.payment)
<1>. DEFINE r == Append(s, e)
<1>1. /\ Len(s) \in Nat /\ DOMAIN s = 1..Len(s) /\ \A i \in 1..Len(s) : s[i] \in Entries
      /\ DOMAIN r = 1..Len(s) + 1 /\ r[Len(s) + 1] = e /\ \A i \in 1..Len(s) : r[i] = s[i]
  OBVIOUS
<1>2. e.payment \in Captures /\ \A i \in 1..Len(s) : s[i].payment \in Captures
  BY <1>1 DEF Entries
<1>. HIDE DEF r
<1>3. PaymentsOf(s) = [i \in 1..Len(s) |-> s[i].payment]
  BY <1>1 DEF PaymentsOf
<1>4. PaymentsOf(s) \in Seq(Captures) /\ Len(PaymentsOf(s)) = Len(s)
  BY <1>1, <1>2, <1>3
<1>5. PaymentsOf(r) = [i \in 1..Len(s) + 1 |-> r[i].payment]
  BY <1>1 DEF PaymentsOf
<1>6. \A i \in 1..Len(s) + 1 : Append(PaymentsOf(s), e.payment)[i] = r[i].payment
  BY <1>1, <1>2, <1>3, <1>4
<1>7. Append(PaymentsOf(s), e.payment) = [i \in 1..Len(s) + 1 |-> r[i].payment]
  <2>1. Append(PaymentsOf(s), e.payment) \in Seq(Captures)
        /\ Len(Append(PaymentsOf(s), e.payment)) = Len(s) + 1
    BY <1>2, <1>4
  <2>2. \A i \in 1..Len(s) + 1 : r[i].payment \in Captures
    BY <1>1, <1>2
  <2>3. [i \in 1..Len(s) + 1 |-> r[i].payment] \in Seq(Captures)
        /\ Len([i \in 1..Len(s) + 1 |-> r[i].payment]) = Len(s) + 1
    BY <1>1, <2>2
  <2>. QED  BY <1>6, <2>1, <2>3, SeqEqual
<1>. QED  BY <1>5, <1>7 DEF r

LEMMA PeriodGrows ==
  ASSUME NEW s \in Seq(Captures), NEW e \in Captures, NEW n \in 0..Len(s)
  PROVE  /\ SubSeq(s, n + 1, Len(s)) \in Seq(Captures)
         /\ SubSeq(Append(s, e), n + 1, Len(s) + 1) = Append(SubSeq(s, n + 1, Len(s)), e)
<1>. DEFINE old == SubSeq(s, n + 1, Len(s))
            r   == Append(s, e)
            new == SubSeq(r, n + 1, Len(s) + 1)
<1>1. /\ old \in Seq(Captures) /\ Len(old) = Len(s) - n
      /\ \A i \in 1..Len(s) - n : old[i] = s[n + i]
  BY SubSeqProperties
<1>2. /\ r \in Seq(Captures) /\ Len(r) = Len(s) + 1 /\ r[Len(s) + 1] = e
      /\ \A i \in 1..Len(s) : r[i] = s[i]
  OBVIOUS
<1>. HIDE DEF r, old
<1>3. /\ new \in Seq(Captures) /\ Len(new) = Len(s) + 1 - n
      /\ \A i \in 1..Len(s) + 1 - n : new[i] = r[n + i]
  BY <1>2, SubSeqProperties
<1>. HIDE DEF new
<1>4. Len(new) = Len(Append(old, e)) /\ Append(old, e) \in Seq(Captures)
  BY <1>1, <1>3
<1>5. \A i \in 1..Len(new) : new[i] = Append(old, e)[i]
  <2>. SUFFICES ASSUME NEW i \in 1..Len(new) PROVE new[i] = Append(old, e)[i]
    OBVIOUS
  <2>1. CASE i <= Len(s) - n
    <3>1. i \in 1..Len(s) - n /\ n + i \in 1..Len(s)
      BY <1>3, <2>1
    <3>2. new[i] = r[n + i] /\ r[n + i] = s[n + i] /\ old[i] = s[n + i]
      BY <1>1, <1>2, <1>3, <3>1
    <3>3. Append(old, e)[i] = old[i]
      BY <1>1, <3>1
    <3>. QED  BY <3>2, <3>3
  <2>2. CASE i = Len(s) - n + 1
    <3>1. new[i] = r[n + i] /\ n + i = Len(s) + 1
      BY <1>3, <2>2
    <3>2. Append(old, e)[i] = e
      BY <1>1, <2>2
    <3>. QED  BY <1>2, <3>1, <3>2
  <2>3. i <= Len(s) - n \/ i = Len(s) - n + 1
    <3>1. Len(s) \in Nat /\ i \in 1..Len(s) + 1 - n
      BY <1>3
    <3>. QED  BY <3>1
  <2>. QED  BY <2>1, <2>2, <2>3
<1>6. new = Append(old, e)
  BY <1>3, <1>4, <1>5, SeqEqual
<1>. QED  BY <1>1, <1>6 DEF new, old, r

LEMMA CaptureKeeps ==
  ASSUME SettlementInv, NEW body \in Bodies, ProcessPayment(body)
  PROVE  SettlementInv'
<1>. DEFINE e == Payment(body)
            entry == Entry(body)
<1>1. /\ captured \in Seq(Captures) /\ queue \in Seq(Entries) /\ settled \in Seq(Entries)
      /\ refunded \in Seq(Nat) /\ Len(refunded) = Len(captured) /\ closed \in 0..Len(captured)
  BY DEF SettlementInv, SettlementTypes
<1>2. /\ e \in Captures /\ e.amount = body.amount /\ e.currency = body.currency
      /\ body.currency \in Currencies /\ body.amount \in Nat
      /\ entry \in Entries /\ entry.payment = e
  BY EntryTypes DEF SettlementInv, ProcessPayment
<1>. HIDE DEF e, entry
<1>3. /\ queue' = Append(queue, entry) /\ captured' = Append(captured, e)
      /\ refunded' = Append(refunded, 0) /\ closed' = closed /\ settled' = settled
      /\ keeps' = keeps /\ Aggregate(body)
  BY DEF ProcessPayment, e, entry
<1>4. /\ captured' \in Seq(Captures) /\ queue' \in Seq(Entries) /\ settled' \in Seq(Entries)
      /\ refunded' \in Seq(Nat) /\ Len(refunded') = Len(captured')
      /\ Len(captured') = Len(captured) + 1 /\ closed' \in 0..Len(captured')
  <2>1. /\ captured' \in Seq(Captures) /\ Len(captured') = Len(captured) + 1
        /\ queue' \in Seq(Entries) /\ settled' \in Seq(Entries)
    BY <1>1, <1>2, <1>3
  <2>2. refunded' \in Seq(Nat) /\ Len(refunded') = Len(refunded) + 1
    BY <1>1, <1>3
  <2>3. closed' \in 0..Len(captured')
    BY <1>1, <1>3, <2>1
  <2>. QED  BY <1>1, <2>1, <2>2, <2>3
<1>5. /\ totals' \in [Currencies -> [total: Nat, count: Nat]]
      /\ \A c \in Currencies : totals'[c] = Tallied(totals[c], e, c)
  <2>1. totals \in [Currencies -> [total: Nat, count: Nat]]
    BY DEF SettlementInv, SettlementTypes
  <2>2. totals' = [totals EXCEPT ![body.currency] =
                     [total |-> totals[body.currency].total + body.amount,
                      count |-> totals[body.currency].count + 1]]
    BY <1>3 DEF Aggregate
  <2>. DEFINE more == [total |-> totals[body.currency].total + body.amount,
                       count |-> totals[body.currency].count + 1]
  <2>3. more \in [total: Nat, count: Nat]
    BY <1>2, <2>1
  <2>4. more = Tallied(totals[body.currency], e, body.currency)
    BY <1>2 DEF Tallied
  <2>. HIDE DEF more
  <2>5. totals' = [totals EXCEPT ![body.currency] = more]
    BY <2>2 DEF more
  <2>6. totals' \in [Currencies -> [total: Nat, count: Nat]]
    BY <2>1, <2>3, <2>5
  <2>7. ASSUME NEW c \in Currencies, c # body.currency
        PROVE  totals'[c] = totals[c] /\ Tallied(totals[c], e, c) = totals[c]
    BY <1>2, <2>1, <2>5, <2>7 DEF Tallied
  <2>. QED  BY <1>2, <2>1, <2>4, <2>5, <2>6, <2>7
<1>6. BooksAgree'
  <2>1. PaymentsOf(settled' \o queue') = captured'
    <3>1. PaymentsOf(settled \o queue) = captured /\ settled \o queue \in Seq(Entries)
      BY <1>1, ConcatProperties DEF SettlementInv, BooksAgree
    <3>2. settled \o Append(queue, entry) = Append(settled \o queue, entry)
      BY <1>1, <1>2, QueueAppends
    <3>3. PaymentsOf(Append(settled \o queue, entry)) = Append(captured, e)
      BY <1>2, <3>1, PaymentsAppend
    <3>. QED  BY <1>3, <3>2, <3>3, Zenon
  <2>2. SubSeq(captured', closed' + 1, Len(captured')) = Append(Period, e) /\ Period \in Seq(Captures)
    <3>1. /\ Period \in Seq(Captures)
          /\ SubSeq(Append(captured, e), closed + 1, Len(captured) + 1) = Append(Period, e)
      BY <1>1, <1>2, PeriodGrows DEF Period
    <3>2. captured' = Append(captured, e) /\ closed' = closed /\ Len(captured') = Len(captured) + 1
      BY <1>3, <1>4
    <3>. QED  BY <3>1, <3>2, Zenon
  <2>3. \A c \in Currencies : totals[c] = Tally(Period, c)
    BY DEF SettlementInv, BooksAgree, Period
  <2>4. \A c \in Currencies :
          totals'[c] = Tally(SubSeq(captured', closed' + 1, Len(captured')), c)
    <3>1. \A c \in Currencies : Tally(Append(Period, e), c) = Tallied(Tally(Period, c), e, c)
      BY <1>2, <2>2, TallyAppend
    <3>. QED  BY <1>5, <2>2, <2>3, <3>1
  <2>. QED  BY <2>1, <2>4 DEF BooksAgree
<1>7. RefundsWithinCapture'
  <2>. SUFFICES ASSUME NEW n \in DOMAIN captured' PROVE refunded'[n] <= captured'[n].amount
    BY DEF RefundsWithinCapture
  <2>1. CASE n = Len(captured) + 1
    BY <1>1, <1>2, <1>3, <2>1
  <2>2. CASE n \in DOMAIN captured
    BY <1>1, <1>2, <1>3, <2>2 DEF SettlementInv, RefundsWithinCapture
  <2>. QED  BY <1>1, <1>3, <1>4, <2>1, <2>2
<1>. QED  BY <1>3, <1>4, <1>5, <1>6, <1>7 DEF SettlementInv, SettlementTypes

LEMMA DrainKeeps ==
  ASSUME SettlementInv, DrainSettlementBatch PROVE SettlementInv'
<1>1. /\ queue \in Seq(Entries) /\ settled \in Seq(Entries)
      /\ settled' = settled \o queue /\ queue' = <<>>
      /\ PaymentsOf(settled \o queue) = captured
      /\ UNCHANGED <<keeps, totals, captured, closed, refunded>>
  BY DEF SettlementInv, SettlementTypes, BooksAgree, DrainSettlementBatch
<1>2. settled' \in Seq(Entries) /\ queue' \in Seq(Entries)
  <2>1. settled \o queue \in Seq(Entries) /\ <<>> \in Seq(Entries)
    BY <1>1, ConcatProperties, EmptySeq
  <2>. QED  BY <1>1, <2>1, Zenon
<1>3. PaymentsOf(settled' \o queue') = captured'
  <2>1. settled' \o <<>> = settled'
    BY <1>2, ConcatEmptySeq
  <2>. QED  BY <1>1, <2>1, Zenon
<1>. QED  BY <1>1, <1>2, <1>3
          DEF SettlementInv, SettlementTypes, BooksAgree, RefundsWithinCapture

LEMMA ResetKeeps ==
  ASSUME SettlementInv, ResetAggregation PROVE SettlementInv'
<1>1. /\ captured \in Seq(Captures) /\ totals' = Nothing /\ closed' = Len(captured)
      /\ UNCHANGED <<keeps, queue, captured, settled, refunded>>
  BY DEF SettlementInv, SettlementTypes, ResetAggregation
<1>2. totals' \in [Currencies -> [total: Nat, count: Nat]] /\ closed' \in 0..Len(captured')
  BY <1>1 DEF Nothing
<1>3. SubSeq(captured', closed' + 1, Len(captured')) = <<>>
  BY <1>1
<1>4. \A c \in Currencies : totals'[c] = Tally(<<>>, c)
  BY <1>1, TallyEmpty DEF Nothing, Zero
<1>. QED  BY <1>1, <1>2, <1>3, <1>4
          DEF SettlementInv, SettlementTypes, BooksAgree, RefundsWithinCapture

LEMMA RefundKeeps ==
  ASSUME SettlementInv, NEW n \in DOMAIN captured, NEW halves \in Nat, Refund(n, halves)
  PROVE  SettlementInv'
<1>1. /\ captured \in Seq(Captures) /\ refunded \in Seq(Nat) /\ Len(refunded) = Len(captured)
      /\ UNCHANGED <<keeps, queue, totals, captured, closed, settled>>
      /\ refunded' = [refunded EXCEPT ![n] = @ + halves \div 2]
      /\ halves \div 2 <= captured[n].amount - refunded[n]
  BY DEF SettlementInv, SettlementTypes, Refund, Refundable, Remaining
<1>2. halves \div 2 \in Nat
  OBVIOUS
<1>3. n \in 1..Len(refunded) /\ refunded[n] \in Nat /\ captured[n] \in Captures
  BY <1>1
<1>4. captured[n].amount \in Nat
  BY <1>3 DEF Captures
<1>. DEFINE more == refunded[n] + halves \div 2
<1>5. more \in Nat /\ more <= captured[n].amount
  BY <1>1, <1>2, <1>3, <1>4, SMTT(30)
<1>6. refunded' = [refunded EXCEPT ![n] = more]
  BY <1>1
<1>. HIDE DEF more
<1>7. /\ refunded' \in Seq(Nat) /\ Len(refunded') = Len(refunded) /\ refunded'[n] = more
      /\ \A m \in 1..Len(refunded) : m # n => refunded'[m] = refunded[m]
  BY <1>1, <1>3, <1>5, <1>6, ExceptSeq
<1>8. RefundsWithinCapture'
  BY <1>1, <1>5, <1>7 DEF SettlementInv, RefundsWithinCapture
<1>. QED  BY <1>1, <1>7, <1>8 DEF SettlementInv, SettlementTypes, BooksAgree

LEMMA SettlementSame ==
  ASSUME SettlementInv, UNCHANGED settlementVars PROVE SettlementInv'
BY DEF SettlementInv, SettlementTypes, BooksAgree, RefundsWithinCapture, settlementVars

LEMMA SettlementStart == Init => SettlementInv
<1>. SUFFICES ASSUME Init PROVE SettlementInv
  OBVIOUS
<1>1. /\ captured = <<>> /\ queue = <<>> /\ settled = <<>> /\ refunded = <<>> /\ closed = 0
      /\ totals = Nothing /\ keeps \in Shapes
  BY DEF Init, SettlementInit
<1>2. SettlementTypes /\ PaymentsOf(settled \o queue) = captured /\ RefundsWithinCapture
  BY <1>1 DEF SettlementTypes, Nothing, RefundsWithinCapture, PaymentsOf
<1>3. SubSeq(captured, closed + 1, Len(captured)) = <<>>
  BY <1>1
<1>4. \A c \in Currencies : totals[c] = Tally(<<>>, c)
  BY <1>1, TallyEmpty DEF Nothing, Zero
<1>. QED  BY <1>2, <1>3, <1>4 DEF SettlementInv, BooksAgree

LEMMA SettlementNext == SettlementInv /\ [Next]_vars => SettlementInv'
<1>. SUFFICES ASSUME SettlementInv, [Next]_vars PROVE SettlementInv'
  OBVIOUS
<1>1. CASE Payments
  <2>1. 0..(2 * MaxAmount + 2) \subseteq Nat
    OBVIOUS
  <2>. QED  BY <1>1, <2>1, CaptureKeeps, DrainKeeps, ResetKeeps, RefundKeeps DEF Payments, PaymentCall
<1>2. CASE MemorySim
  BY <1>2, CaptureKeeps DEF MemorySim, SimulateCapture
<1>3. CASE UNCHANGED settlementVars
  BY <1>3, SettlementSame
<1>. QED  BY <1>1, <1>2, <1>3 DEF Next, Tokens, AttackSim, vars

THEOREM SettlementHolds == Spec => []SettlementInv
BY SettlementStart, SettlementNext, PTL DEF Spec

\* What was drained and what is queued hold the captured payments in order, one
\* entry for each; the totals are those of the open period (transactions.ts:21-28).
THEOREM BooksHold == Spec => []BooksAgree
<1>1. SettlementInv => BooksAgree
  BY DEF SettlementInv
<1>. QED  BY <1>1, SettlementHolds, PTL

\* Partial refunds never exceed the capture.
THEOREM RefundsHold == Spec => []RefundsWithinCapture
<1>1. SettlementInv => RefundsWithinCapture
  BY DEF SettlementInv
<1>. QED  BY <1>1, SettlementHolds, PTL

-----------------------------------------------------------------------------
(* The campaign's slots are in order of time.                              *)

LEMMA SourceTypes ==
  /\ Len(Sources) \in Nat \ {0} /\ DOMAIN Sources = 1..Len(Sources)
  /\ \A s \in 1..Len(Sources) : Sources[s].attempts \in Nat
<1>1. Sources \in Seq([ip: Addresses, attempts: Nat]) /\ Sources # <<>>
  BY CampaignAssumption
<1>2. \A s \in 1..Len(Sources) : Sources[s] \in [ip: Addresses, attempts: Nat]
  BY <1>1, ElementOfSeq
<1>3. Len(Sources) \in Nat \ {0} /\ DOMAIN Sources = 1..Len(Sources)
  BY <1>1, EmptySeq, LenProperties
<1>. QED  BY <1>2, <1>3

\* One of the first n sources makes the most attempts of them.
HasMost(n) == \E m \in 1..n : \A s \in 1..n : Sources[s].attempts <= Sources[m].attempts

LEMMA MostOfFirst ==
  ASSUME NEW n \in Nat, n # 0, n <= Len(Sources), HasMost(n - 1) \/ n = 1
  PROVE  HasMost(n)
<1>. DEFINE made == [s \in 1..n |-> Sources[s].attempts]
<1>1. \A s \in 1..n : made[s] \in Nat /\ made[s] = Sources[s].attempts
  BY SourceTypes
<1>2. CASE n = 1
  BY <1>1, <1>2 DEF HasMost
<1>3. CASE n # 1 /\ HasMost(n - 1)
  <2>1. PICK m \in 1..n - 1 : \A s \in 1..n - 1 : made[s] <= made[m]
    BY <1>1, <1>3 DEF HasMost
  <2>. HIDE DEF made
  <2>2. n \in 1..n /\ m \in 1..n /\ \A s \in 1..n : s \in 1..n - 1 \/ s = n
    OBVIOUS
  <2>3. CASE made[m] >= made[n]
    <3>1. \A s \in 1..n : made[s] <= made[m]
      BY <1>1, <2>1, <2>2, <2>3
    <3>. QED  BY <1>1, <2>2, <3>1 DEF HasMost
  <2>4. CASE ~(made[m] >= made[n])
    <3>1. \A s \in 1..n : made[s] <= made[n]
      BY <1>1, <2>1, <2>2, <2>4
    <3>. QED  BY <1>1, <2>2, <3>1 DEF HasMost
  <2>. QED  BY <2>3, <2>4
<1>. QED  BY <1>2, <1>3

LEMMA MostIsNat == Most \in Nat
<1>. DEFINE T == {n \in 1..Len(Sources) : ~HasMost(n)}
<1>1. T = {}
  <2>. SUFFICES ASSUME T # {} PROVE FALSE
    OBVIOUS
  <2>1. PICK n \in T : \A y \in T : n <= y
    <3>1. T \in SUBSET Nat
      BY SourceTypes
    <3>. HIDE DEF T
    <3>. QED  BY <3>1, LeastElement
  <2>2. n \in Nat /\ n # 0 /\ n <= Len(Sources) /\ ~HasMost(n)
    BY SourceTypes
  <2>3. CASE n = 1
    BY <2>2, <2>3, MostOfFirst
  <2>4. CASE n # 1
    <3>1. n - 1 \in 1..Len(Sources) /\ ~(n <= n - 1)
      BY <2>2, <2>4, SourceTypes
    <3>2. n - 1 \notin T
      BY <2>1, <3>1
    <3>3. HasMost(n - 1)
      BY <3>1, <3>2
    <3>. QED  BY <2>2, <3>3, MostOfFirst
  <2>. QED  BY <2>3, <2>4
<1>. HIDE DEF T
<1>3. HasMost(Len(Sources))
  <2>1. Len(Sources) \in 1..Len(Sources)
    BY SourceTypes
  <2>. QED  BY <1>1, <2>1 DEF T
<1>2. \E n \in {Sources[s].attempts : s \in DOMAIN Sources} :
        \A s \in DOMAIN Sources : Sources[s].attempts <= n
  BY <1>3, SourceTypes DEF HasMost
<1>4. Most \in {Sources[s].attempts : s \in DOMAIN Sources}
  BY <1>2 DEF Most
<1>. QED  BY <1>4, SourceTypes

LEMMA MadeIsFinite ==
  ASSUME NEW i \in Nat PROVE Cardinality(Made(i)) \in Nat /\ (i = 0 => Cardinality(Made(i)) = 0)
<1>1. IsFiniteSet(1..i) /\ IsFiniteSet(DOMAIN Sources)
  BY FS_Interval, SourceTypes
<1>2. IsFiniteSet((1..i) \X DOMAIN Sources)
  BY <1>1, FS_Product
<1>3. Made(i) \in SUBSET ((1..i) \X DOMAIN Sources)
  BY DEF Made
<1>4. IsFiniteSet(Made(i))
  BY <1>2, <1>3, FS_Subset
<1>5. i = 0 => Made(i) = {}
  BY <1>3
<1>. QED  BY <1>4, <1>5, FS_CardinalityType, FS_EmptySet

LEMMA RoundIs ==
  ASSUME NEW k \in 1..Cardinality(Made(Most))
  PROVE  /\ RoundOf(k) \in 1..Most /\ k <= Cardinality(Made(RoundOf(k)))
         /\ \A j \in 1..(RoundOf(k) - 1) : Cardinality(Made(j)) < k
<1>. DEFINE count(i) == Cardinality(Made(i))
            T == {i \in 1..Most : k <= count(i)}
<1>1. Most \in Nat /\ count(Most) \in Nat /\ (Most = 0 => count(Most) = 0)
  BY MostIsNat, MadeIsFinite
<1>2. Most \in T
  <2>. HIDE DEF count
  <2>1. k \in 1..count(Most)
    BY DEF count
  <2>. QED  BY <1>1, <2>1
<1>3. PICK i \in T : \A y \in T : i <= y
  <2>1. T \in SUBSET Nat /\ T # {}
    BY <1>1, <1>2
  <2>. HIDE DEF T
  <2>. QED  BY <2>1, LeastElement
<1>4. i \in 1..Most /\ k <= count(i)
  BY <1>3
<1>5. \A j \in 1..(i - 1) : count(j) < k
  <2>. SUFFICES ASSUME NEW j \in 1..(i - 1) PROVE count(j) < k
    OBVIOUS
  <2>1. j \in 1..Most /\ ~(i <= j) /\ j \in Nat /\ k \in Nat
    BY <1>1, <1>4
  <2>2. j \notin T
    BY <1>3, <2>1
  <2>3. count(j) \in Nat
    BY <2>1, MadeIsFinite
  <2>4. ~(k <= count(j))
    BY <2>1, <2>2
  <2>. HIDE DEF count
  <2>. QED  BY <2>1, <2>3, <2>4
<1>6. \E r \in 1..Most : k <= count(r) /\ \A j \in 1..(r - 1) : count(j) < k
  BY <1>4, <1>5
<1>. QED  BY <1>6 DEF RoundOf

LEMMA SlotsAscend ==
  /\ Len(Slots) \in Nat /\ DOMAIN Slots = 1..Len(Slots)
  /\ \A k \in 1..Len(Slots) : Slots[k].t \in Nat
  /\ \A k \in 1..Len(Slots) - 1 : Slots[k].t <= Slots[k + 1].t
<1>. DEFINE n == Cardinality(Made(Most))
<1>1. n \in Nat /\ Most \in Nat /\ Interval \in Nat
  BY MostIsNat, MadeIsFinite, CampaignAssumption
<1>2. Len(Slots) = n /\ DOMAIN Slots = 1..n
  <2>. HIDE DEF n
  <2>1. Slots = [k \in 1..n |-> Slots[k]]
    BY DEF Slots, n
  <2>. QED  BY <1>1, <2>1
<1>3. \A k \in 1..n : Slots[k].t = (RoundOf(k) - 1) * Interval
  BY DEF Slots
<1>. HIDE DEF n
<1>4. ASSUME NEW k \in 1..n PROVE RoundOf(k) - 1 \in Nat /\ RoundOf(k) \in 1..Most
  BY <1>1, RoundIs DEF n
<1>5. \A a, b \in Nat : a <= b => a * Interval \in Nat /\ a * Interval <= b * Interval
  BY <1>1
<1>6. ASSUME NEW k \in 1..n - 1 PROVE RoundOf(k) <= RoundOf(k + 1)
  <2>1. k \in 1..n /\ k + 1 \in 1..n
    BY <1>1
  <2>. DEFINE i == RoundOf(k)
              j == RoundOf(k + 1)
  <2>2. i \in 1..Most /\ j \in 1..Most /\ k + 1 <= Cardinality(Made(j))
    BY <2>1, RoundIs DEF n
  <2>3. \A m \in 1..(i - 1) : Cardinality(Made(m)) < k
    BY <2>1, RoundIs DEF n
  <2>4. Cardinality(Made(j)) \in Nat
    BY <1>1, <2>2, MadeIsFinite
  <2>. HIDE DEF i, j
  <2>5. j \notin 1..(i - 1)
    BY <2>2, <2>3, <2>4
  <2>. QED  BY <1>1, <2>2, <2>5 DEF i, j
<1>7. \A k \in 1..n : Slots[k].t \in Nat
  BY <1>3, <1>4, <1>5
<1>8. ASSUME NEW k \in 1..n - 1 PROVE Slots[k].t <= Slots[k + 1].t
  <2>1. k \in 1..n /\ k + 1 \in 1..n
    BY <1>1
  <2>2. RoundOf(k) - 1 \in Nat /\ RoundOf(k + 1) - 1 \in Nat /\ RoundOf(k) - 1 <= RoundOf(k + 1) - 1
    BY <1>1, <1>4, <1>6, <2>1
  <2>. QED  BY <1>3, <1>5, <2>1, <2>2
<1>. QED  BY <1>1, <1>2, <1>7, <1>8

-----------------------------------------------------------------------------
(* One address.                                                            *)

LEMMA WithinIsTail ==
  ASSUME NEW times \in Seq(Nat), Ascending(times), clock \in Nat
  PROVE  \E d \in 0..Len(times) :
           /\ \A i \in 1..Len(times) : i > d <=> times[i] > clock - AuthWindow
           /\ Within(times) \in Seq(Nat) /\ Len(Within(times)) = Len(times) - d
           /\ \A i \in 1..Len(times) - d : Within(times)[i] = times[i + d]
<1>. DEFINE recent(i) == times[i] > clock - AuthWindow
            T == {i \in 1..Len(times) + 1 : i = Len(times) + 1 \/ recent(i)}
<1>1. PICK n \in T : \A i \in T : n <= i
  <2>1. Len(times) + 1 \in T /\ T \subseteq Nat
    OBVIOUS
  <2>. HIDE DEF T
  <2>. QED  BY <2>1, LeastElement
<1>. DEFINE d == n - 1
<1>2. d \in 0..Len(times) /\ d + 1 = n
  BY <1>1
<1>3. \A i \in 1..Len(times) : i > d <=> recent(i)
  <2>1. ASSUME NEW i \in 1..Len(times), i > d PROVE recent(i)
    <3>1. n \in 1..Len(times) /\ recent(n) /\ n <= i
      BY <1>1, <1>2, <2>1
    <3>2. times[n] <= times[i] /\ times[n] \in Nat /\ times[i] \in Nat
      BY <3>1 DEF Ascending
    <3>. QED  BY <3>1, <3>2, CampaignAssumption, SMTT(30)
  <2>2. ASSUME NEW i \in 1..Len(times), recent(i) PROVE i > d
    BY <1>1, <1>2, <2>2
  <2>. QED  BY <2>1, <2>2
<1>4. Within(times) = SubSeq(times, d + 1, Len(times))
  <2>1. {i \in DOMAIN times : times[i] <= clock - AuthWindow} = 1..d
    <3>1. clock - AuthWindow \in Int /\ \A i \in 1..Len(times) : times[i] \in Int
      BY CampaignAssumption
    <3>2. \A i \in 1..Len(times) : (times[i] <= clock - AuthWindow) <=> ~recent(i)
      BY <3>1
    <3>3. \A i \in 1..Len(times) : (times[i] <= clock - AuthWindow) <=> i <= d
      BY <1>2, <1>3, <3>2
    <3>. HIDE DEF d
    <3>. QED  BY <1>2, <3>3
  <2>2. Cardinality(1..d) = d
    BY <1>2, FS_Interval
  <2>. QED  BY <2>1, <2>2 DEF Within
<1>. HIDE DEF d
<1>5. LET left == SubSeq(times, d + 1, Len(times)) IN
        /\ left \in Seq(Nat) /\ Len(left) = Len(times) - d
        /\ \A i \in 1..Len(times) - d : left[i] = times[i + d]
  BY <1>2, SubSeqProperties
<1>. QED  BY <1>2, <1>3, <1>4, <1>5

\* An attempt is recorded: the places shift by one, whatever was pruned.
LEMMA RecordKeeps ==
  ASSUME clock \in Nat, NEW old, NEW seen, NEW most, AddressFits(old, seen, most, clock),
         NEW new, new = Append(Within(old), clock)
  PROVE  /\ new \in Seq(Nat) /\ Ascending(new) /\ Len(new) \in Nat \ {0} /\ new[Len(new)] = clock
         /\ \A i \in 1..Len(new) : new[i] <= clock
         /\ \A j \in 1..Len(seen) : seen[j] > clock - AuthWindow =>
              /\ Place(Len(new) - 1, Len(seen), j) \in 1..Len(new) - 1
              /\ new[Place(Len(new) - 1, Len(seen), j)] >= seen[j]
<1>1. /\ old \in Seq(Nat) /\ seen \in Seq(Nat) /\ Ascending(old) /\ Backs(seen, old, clock)
      /\ \A i \in 1..Len(old) : old[i] <= clock
  BY DEF AddressFits
<1>2. PICK d \in 0..Len(old) :
        /\ \A i \in 1..Len(old) : i > d <=> old[i] > clock - AuthWindow
        /\ Within(old) \in Seq(Nat) /\ Len(Within(old)) = Len(old) - d
        /\ \A i \in 1..Len(old) - d : Within(old)[i] = old[i + d]
  BY <1>1, WithinIsTail
<1>3. PICK l \in Nat : l = Len(old) - d
  <2>1. Len(old) \in Nat
    BY <1>1
  <2>2. Len(old) - d \in Nat
    BY <2>1
  <2>. QED  BY <2>2
<1>4. /\ new \in Seq(Nat) /\ Len(new) = l + 1 /\ new[l + 1] = clock
      /\ \A i \in 1..l : i + d \in 1..Len(old) /\ new[i] = old[i + d]
  BY <1>1, <1>2, <1>3
<1>5. \A i \in 1..Len(old) : old[i] \in Nat
  BY <1>1
<1>6. \A i \in 1..Len(seen) : seen[i] \in Nat
  BY <1>1
<1>7. clock \in Nat /\ AuthWindow \in Nat /\ Len(old) \in Nat /\ Len(seen) \in Nat
  BY <1>1, CampaignAssumption
<1>8. ASSUME NEW i \in 1..(l + 1) PROVE new[i] <= clock
  <2>1. CASE i = l + 1
    BY <1>4, <1>7, <2>1
  <2>2. CASE i # l + 1
    <3>1. i \in 1..l
      BY <2>2
    <3>2. i + d \in 1..Len(old) /\ new[i] = old[i + d]
      BY <1>4, <3>1
    <3>. QED  BY <1>1, <3>2
  <2>. QED  BY <2>1, <2>2
<1>9. ASSUME NEW i \in 1..(l + 1), NEW j \in 1..(l + 1), i <= j PROVE new[i] <= new[j]
  <2>1. CASE j = l + 1
    BY <1>4, <1>8, <2>1
  <2>2. CASE j # l + 1
    <3>1. i \in 1..l /\ j \in 1..l
      BY <1>9, <2>2
    <3>2. i + d \in 1..Len(old) /\ j + d \in 1..Len(old) /\ i + d <= j + d
      BY <1>4, <1>9, <3>1
    <3>3. old[i + d] <= old[j + d]
      BY <1>1, <3>2 DEF Ascending
    <3>. QED  BY <1>4, <3>1, <3>3
  <2>. QED  BY <2>1, <2>2
<1>10. ASSUME NEW j \in 1..Len(seen), seen[j] > clock - AuthWindow
       PROVE  Place(l, Len(seen), j) \in 1..l /\ new[Place(l, Len(seen), j)] >= seen[j]
  <2>1. PICK was \in Int : was = Place(Len(old), Len(seen), j)
    <3>1. \A n, m \in Nat : \A k \in 1..m : Place(n, m, k) \in Int
      BY DEF Place
    <3>. QED  BY <1>7, <3>1
  <2>2. was \in 1..Len(old) /\ old[was] >= seen[j]
    BY <1>1, <1>10, <2>1 DEF Backs
  <2>3. old[was] > clock - AuthWindow
    BY <1>5, <1>6, <1>7, <1>10, <2>2
  <2>4. was > d
    BY <1>2, <2>2, <2>3
  <2>5. Place(l, Len(seen), j) = was - d
    BY <1>3, <1>7, <2>1 DEF Place
  <2>6. was - d \in 1..l /\ (was - d) + d = was
    BY <1>2, <1>3, <1>7, <2>2, <2>4
  <2>7. new[was - d] = old[was]
    BY <1>4, <2>6
  <2>8. Place(l, Len(seen), j) \in 1..l
    BY <2>5, <2>6, Zenon
  <2>9. new[Place(l, Len(seen), j)] = old[was]
    BY <2>5, <2>7, Zenon
  <2>. QED  BY <2>2, <2>8, <2>9, Zenon
<1>11. Len(new) = l + 1 /\ Len(new) - 1 = l
  BY <1>4
<1>12. Ascending(new)
  BY <1>9, <1>11 DEF Ascending
<1>13. \A i \in 1..Len(new) : new[i] <= clock
  BY <1>8, <1>11
<1>14. \A j \in 1..Len(seen) : seen[j] > clock - AuthWindow =>
         /\ Place(Len(new) - 1, Len(seen), j) \in 1..Len(new) - 1
         /\ new[Place(Len(new) - 1, Len(seen), j)] >= seen[j]
  <2>1. \A j \in 1..Len(seen) : seen[j] > clock - AuthWindow =>
          Place(l, Len(seen), j) \in 1..l /\ new[Place(l, Len(seen), j)] >= seen[j]
    BY <1>10, Zenon
  <2>. QED  BY <1>11, <2>1, Zenon
<1>15. Len(new) \in Nat \ {0} /\ new[Len(new)] = clock
  BY <1>4
<1>. QED  BY <1>4, <1>12, <1>13, <1>14, <1>15, Zenon

\* A refused attempt moves the recorded times only.
LEMMA RefusedFits ==
  ASSUME clock \in Nat, NEW old, NEW seen, NEW most, AddressFits(old, seen, most, clock),
         NEW new, new = Append(Within(old), clock)
  PROVE  AddressFits(new, seen, most, clock)
<1>1. /\ new \in Seq(Nat) /\ Ascending(new) /\ Len(new) \in Nat \ {0} /\ new[Len(new)] = clock
      /\ \A i \in 1..Len(new) : new[i] <= clock
      /\ \A j \in 1..Len(seen) : seen[j] > clock - AuthWindow =>
           /\ Place(Len(new) - 1, Len(seen), j) \in 1..Len(new) - 1
           /\ new[Place(Len(new) - 1, Len(seen), j)] >= seen[j]
  BY RecordKeeps
<1>2. seen \in Seq(Nat) /\ Spaced(seen, most)
  BY DEF AddressFits
<1>3. /\ Len(seen) \in Nat /\ \A i \in 1..Len(seen) : seen[i] \in Nat
      /\ \A i \in 1..Len(new) : new[i] \in Nat
  BY <1>1, <1>2
<1>4. ASSUME NEW j \in 1..Len(seen), seen[j] > clock - AuthWindow
      PROVE  /\ Place(Len(new), Len(seen), j) \in 1..Len(new)
             /\ new[Place(Len(new), Len(seen), j)] >= seen[j]
  <2>1. PICK before \in 1..Len(new) - 1 :
          before = Place(Len(new) - 1, Len(seen), j) /\ new[before] >= seen[j]
    BY <1>1, <1>4
  <2>2. Place(Len(new), Len(seen), j) = before + 1
    BY <1>1, <1>3, <2>1 DEF Place
  <2>3. before \in 1..Len(new) /\ before + 1 \in 1..Len(new) /\ before <= before + 1
    BY <1>1, <2>1
  <2>4. new[before] <= new[before + 1]
    BY <1>1, <2>3 DEF Ascending
  <2>. QED  BY <1>3, <2>1, <2>2, <2>3, <2>4
<1>5. Backs(seen, new, clock)
  BY <1>4 DEF Backs
<1>. QED  BY <1>1, <1>2, <1>5 DEF AddressFits

\* A verified one finds fewer than `most` recorded in its window, so the one
\* `most` before it is out of the window.
LEMMA VerifiedFits ==
  ASSUME clock \in Nat, NEW old, NEW seen, NEW most \in Nat, AddressFits(old, seen, most, clock),
         Len(Within(old)) + 1 <= most,
         NEW new, new = Append(Within(old), clock), NEW seen2, seen2 = Append(seen, clock)
  PROVE  AddressFits(new, seen2, most, clock)
<1>1. /\ new \in Seq(Nat) /\ Ascending(new) /\ Len(new) \in Nat \ {0} /\ new[Len(new)] = clock
      /\ \A i \in 1..Len(new) : new[i] <= clock
      /\ \A j \in 1..Len(seen) : seen[j] > clock - AuthWindow =>
           /\ Place(Len(new) - 1, Len(seen), j) \in 1..Len(new) - 1
           /\ new[Place(Len(new) - 1, Len(seen), j)] >= seen[j]
  BY RecordKeeps
<1>2. /\ old \in Seq(Nat) /\ seen \in Seq(Nat) /\ Spaced(seen, most) /\ Ascending(old)
      /\ Backs(seen, old, clock)
  BY DEF AddressFits
<1>3. /\ clock \in Nat /\ AuthWindow \in Nat /\ Len(seen) \in Nat /\ Len(old) \in Nat
      /\ \A i \in 1..Len(seen) : seen[i] \in Nat
      /\ \A i \in 1..Len(old) : old[i] \in Nat
  <2>1. AuthWindow \in Nat
    BY CampaignAssumption
  <2>2. /\ Len(seen) \in Nat /\ Len(old) \in Nat
        /\ \A i \in 1..Len(seen) : seen[i] \in Nat
        /\ \A i \in 1..Len(old) : old[i] \in Nat
    BY <1>2
  <2>. QED  BY <2>1, <2>2
<1>4. /\ seen2 \in Seq(Nat) /\ Len(seen2) = Len(seen) + 1 /\ seen2[Len(seen) + 1] = clock
      /\ \A i \in 1..Len(seen) : seen2[i] = seen[i]
  BY <1>2
<1>5. \A i \in 1..Len(seen2) : i \in 1..Len(seen) \/ i = Len(seen) + 1
  BY <1>3, <1>4
<1>6. ASSUME NEW j \in 1..Len(seen2), seen2[j] > clock - AuthWindow
      PROVE  /\ Place(Len(new), Len(seen2), j) \in 1..Len(new)
             /\ new[Place(Len(new), Len(seen2), j)] >= seen2[j]
  <2>1. CASE j \in 1..Len(seen)
    <3>1. PICK before \in 1..Len(new) - 1 :
            before = Place(Len(new) - 1, Len(seen), j) /\ new[before] >= seen[j]
      BY <1>1, <1>4, <1>6, <2>1
    <3>2. Place(Len(new), Len(seen2), j) = before
      BY <1>1, <1>3, <1>4, <3>1 DEF Place
    <3>3. before \in 1..Len(new)
      BY <1>1, <3>1
    <3>. QED  BY <1>4, <2>1, <3>1, <3>2, <3>3
  <2>2. CASE j = Len(seen) + 1
    <3>1. Place(Len(new), Len(seen2), j) = Len(new)
      BY <1>1, <1>3, <1>4, <2>2 DEF Place
    <3>. QED  BY <1>1, <1>3, <1>4, <2>2, <3>1
  <2>. QED  BY <1>5, <2>1, <2>2
<1>7. Backs(seen2, new, clock)
  BY <1>6 DEF Backs
<1>8. most > 0 /\ Len(Within(old)) \in Nat
  BY <1>2, WithinIsTail
<1>9. ASSUME NEW i \in 1..Len(seen), i + most = Len(seen) + 1
      PROVE  clock >= seen[i] + AuthWindow
  <2>. SUFFICES ASSUME seen[i] > clock - AuthWindow PROVE FALSE
    BY <1>3
  <2>1. PICK d \in 0..Len(old) :
          /\ \A k \in 1..Len(old) : k > d <=> old[k] > clock - AuthWindow
          /\ Len(Within(old)) = Len(old) - d
    BY <1>2, WithinIsTail
  <2>. DEFINE m == Len(old)
              n == Len(seen)
  <2>2. m \in Nat /\ n \in Nat /\ i \in 1..n /\ i + most = n + 1
    BY <1>3, <1>9
  <2>. HIDE DEF m, n
  <2>3. Place(m, n, i) \in Int /\ Place(m, n, i) = m - most + 1
    BY <2>2 DEF Place
  <2>4. PICK was \in Int : was = Place(Len(old), Len(seen), i)
    BY <2>3 DEF m, n
  <2>5. was \in 1..Len(old) /\ old[was] >= seen[i]
    BY <1>2, <2>4 DEF Backs
  <2>6. old[was] > clock - AuthWindow
    BY <1>3, <2>5
  <2>7. was > d
    BY <2>1, <2>5, <2>6
  <2>8. was = Len(old) - most + 1
    BY <2>4, <2>3 DEF m, n
  <2>. QED  BY <1>3, <2>1, <2>7, <2>8
<1>10. ASSUME NEW i \in 1..Len(seen2), i + most <= Len(seen2)
       PROVE  seen2[i + most] >= seen2[i] + AuthWindow
  <2>1. i \in 1..Len(seen) /\ i + most \in 1..Len(seen2)
    BY <1>3, <1>4, <1>8, <1>10
  <2>2. CASE i + most \in 1..Len(seen)
    <3>1. seen[i + most] >= seen[i] + AuthWindow
      BY <1>2, <1>3, <2>1, <2>2 DEF Spaced
    <3>. QED  BY <1>4, <2>1, <2>2, <3>1
  <2>3. CASE i + most = Len(seen) + 1
    <3>1. clock >= seen[i] + AuthWindow
      BY <1>9, <2>1, <2>3
    <3>. QED  BY <1>4, <2>1, <2>3, <3>1
  <2>. QED  BY <1>5, <2>1, <2>2, <2>3
<1>11. Spaced(seen2, most)
  BY <1>10 DEF Spaced
<1>. QED  BY <1>1, <1>4, <1>7, <1>11 DEF AddressFits

\* As time passes fewer attempts count.
LEMMA LaterFits ==
  ASSUME NEW old, NEW seen, NEW most, NEW t \in Nat, NEW u \in Nat, t <= u,
         AddressFits(old, seen, most, t)
  PROVE  AddressFits(old, seen, most, u)
<1>1. old \in Seq(Nat) /\ seen \in Seq(Nat) /\ \A i \in 1..Len(old) : old[i] <= t
  BY DEF AddressFits
<1>2. /\ AuthWindow \in Nat /\ \A i \in 1..Len(seen) : seen[i] \in Nat
      /\ \A i \in 1..Len(old) : old[i] \in Nat
  <2>1. AuthWindow \in Nat
    BY CampaignAssumption
  <2>2. (\A i \in 1..Len(seen) : seen[i] \in Nat) /\ \A i \in 1..Len(old) : old[i] \in Nat
    BY <1>1
  <2>. QED  BY <2>1, <2>2
<1>3. \A i \in 1..Len(old) : old[i] <= u
  BY <1>1, <1>2
<1>4. \A j \in 1..Len(seen) : seen[j] > u - AuthWindow => seen[j] > t - AuthWindow
  BY <1>2
<1>5. Backs(seen, old, u)
  BY <1>4 DEF AddressFits, Backs
<1>. QED  BY <1>3, <1>5 DEF AddressFits

\* What a request does to the two records of every address.
LEMMA IssueTokenFits ==
  ASSUME ThrottleInv, NEW ip, NEW account, NEW right, IssueToken(ip, account, right)
  PROVE  /\ limit' = limit /\ attempt' = attempt + 1
         /\ ipAttempts' = [x \in Addresses |-> ipAttempts'[x]]
         /\ verified' = [x \in Addresses |-> verified'[x]]
         /\ \A x \in Addresses : AddressFits(ipAttempts'[x], verified'[x], limit, clock)
<1>1. /\ clock \in Nat /\ limit \in Nat
      /\ ipAttempts = [x \in Addresses |-> ipAttempts[x]]
      /\ verified = [x \in Addresses |-> verified[x]]
      /\ \A x \in Addresses : AddressFits(ipAttempts[x], verified[x], limit, clock)
  BY DEF ThrottleInv
<1>2. /\ limit' = limit /\ attempt' = attempt + 1
      /\ ipAttempts' = [ipAttempts EXCEPT ![ip] = Append(Within(@), clock)]
      /\ verified' = IF Throttled(ip) THEN verified
                     ELSE [verified EXCEPT ![ip] = Append(@, clock)]
  BY DEF IssueToken
<1>3. /\ ipAttempts' = [x \in Addresses |-> ipAttempts'[x]]
      /\ \A x \in Addresses : x # ip => ipAttempts'[x] = ipAttempts[x]
      /\ ip \in Addresses => ipAttempts'[ip] = Append(Within(ipAttempts[ip]), clock)
  BY <1>1, <1>2
<1>4. CASE Throttled(ip)
  <2>1. verified' = verified
    BY <1>2, <1>4
  <2>2. ASSUME NEW x \in Addresses
        PROVE  AddressFits(ipAttempts'[x], verified'[x], limit, clock)
    <3>1. CASE x = ip
      BY <1>1, <1>3, <2>1, <3>1, RefusedFits
    <3>2. CASE x # ip
      BY <1>1, <1>3, <2>1, <3>2
    <3>. QED  BY <3>1, <3>2
  <2>. QED  BY <1>1, <1>2, <1>3, <2>1, <2>2
<1>5. CASE ~Throttled(ip)
  <2>1. verified' = [verified EXCEPT ![ip] = Append(@, clock)]
    BY <1>2, <1>5
  <2>2. /\ verified' = [x \in Addresses |-> verified'[x]]
        /\ \A x \in Addresses : x # ip => verified'[x] = verified[x]
        /\ ip \in Addresses => verified'[ip] = Append(verified[ip], clock)
    BY <1>1, <2>1
  <2>3. ~(AttemptsInWindow(ip) > limit)
    BY <1>5 DEF Throttled
  <2>4. ASSUME NEW x \in Addresses
        PROVE  AddressFits(ipAttempts'[x], verified'[x], limit, clock)
    <3>1. CASE x = ip
      <4>1. ipAttempts[ip] \in Seq(Nat) /\ Ascending(ipAttempts[ip])
        BY <1>1, <3>1 DEF AddressFits
      <4>2. Len(Within(ipAttempts[ip])) \in Nat
        BY <1>1, <4>1, WithinIsTail
      <4>3. Len(Within(ipAttempts[ip])) + 1 <= limit
        BY <1>1, <2>3, <4>2 DEF AttemptsInWindow
      <4>. QED  BY <1>1, <1>3, <2>2, <3>1, <4>3, VerifiedFits
    <3>2. CASE x # ip
      BY <1>1, <1>3, <2>2, <3>2
    <3>. QED  BY <3>1, <3>2
  <2>. QED  BY <1>2, <1>3, <2>2, <2>4
<1>. QED  BY <1>4, <1>5

\* A service answers requests, and time passes.
LEMMA RequestFits == ThrottleInv /\ Request => ThrottleInv'
<1>. SUFFICES ASSUME ThrottleInv, Request PROVE ThrottleInv'
  OBVIOUS
<1>1. PICK ip \in Addresses, account \in Accounts \cup {Stranger}, right \in BOOLEAN :
        IssueToken(ip, account, right)
  BY DEF Request
<1>2. /\ limit' = limit /\ attempt' = attempt + 1
      /\ ipAttempts' = [x \in Addresses |-> ipAttempts'[x]]
      /\ verified' = [x \in Addresses |-> verified'[x]]
      /\ \A x \in Addresses : AddressFits(ipAttempts'[x], verified'[x], limit, clock)
  BY <1>1, IssueTokenFits
<1>3. clock' = clock /\ clock \in Nat /\ limit \in Nat /\ attempt + 1 \in Nat
  BY DEF Request, ThrottleInv
<1>4. \A x \in Addresses : AddressFits(ipAttempts'[x], verified'[x], limit', clock')
  BY <1>2, <1>3
<1>. QED  BY <1>2, <1>3, <1>4 DEF ThrottleInv

LEMMA TickFits == ThrottleInv /\ Tick => ThrottleInv'
<1>. SUFFICES ASSUME ThrottleInv, Tick PROVE ThrottleInv'
  OBVIOUS
<1>1. /\ clock \in Nat /\ clock + 1 \in Nat /\ clock <= clock + 1
      /\ clock' = clock + 1 /\ limit' = limit /\ attempt' = attempt
      /\ ipAttempts' = ipAttempts /\ verified' = verified
  BY DEF ThrottleInv, Tick
<1>2. ASSUME NEW x \in Addresses
      PROVE  AddressFits(ipAttempts'[x], verified'[x], limit', clock')
  <2>1. AddressFits(ipAttempts[x], verified[x], limit, clock + 1)
    BY <1>1, LaterFits DEF ThrottleInv
  <2>. QED  BY <1>1, <2>1
<1>. QED  BY <1>1, <1>2 DEF ThrottleInv

\* The replay makes the attempts of the campaign in order of their times.
LEMMA AttackFits == ThrottleInv /\ Attack => ThrottleInv'
<1>. SUFFICES ASSUME ThrottleInv, Attack PROVE ThrottleInv'
  OBVIOUS
<1>. DEFINE k == attempt + 1
<1>1. \E account, right : IssueToken(Slots[k].ip, account, right)
  BY DEF Attack
<1>2. /\ limit' = limit /\ attempt' = attempt + 1
      /\ ipAttempts' = [x \in Addresses |-> ipAttempts'[x]]
      /\ verified' = [x \in Addresses |-> verified'[x]]
      /\ \A x \in Addresses : AddressFits(ipAttempts'[x], verified'[x], limit, clock)
  BY <1>1, IssueTokenFits
<1>3. /\ clock \in Nat /\ limit \in Nat /\ attempt \in Nat
      /\ attempt < Len(Slots) /\ clock = Slots[k].t
      /\ clock' = IF k < Len(Slots) THEN Slots[k + 1].t ELSE clock
  BY DEF Attack, ThrottleInv
<1>4. clock' \in Nat /\ clock <= clock'
  <2>1. CASE k < Len(Slots)
    <3>1. k \in 1..Len(Slots) - 1 /\ k + 1 \in 1..Len(Slots)
      BY <1>3, <2>1, SlotsAscend
    <3>. QED  BY <1>3, <2>1, <3>1, SlotsAscend
  <2>2. CASE ~(k < Len(Slots))
    BY <1>3, <2>2
  <2>. QED  BY <2>1, <2>2
<1>5. ASSUME NEW x \in Addresses
      PROVE  AddressFits(ipAttempts'[x], verified'[x], limit', clock')
  BY <1>2, <1>3, <1>4, LaterFits
<1>. QED  BY <1>2, <1>3, <1>4, <1>5 DEF ThrottleInv

LEMMA ThrottleStarts == Init => ThrottleInv
<1>. SUFFICES ASSUME Init PROVE ThrottleInv
  OBVIOUS
<1>1. /\ clock = 0 /\ attempt = 0 /\ limit \in Nat
      /\ ipAttempts = [ip \in Addresses |-> <<>>]
      /\ verified = [ip \in Addresses |-> <<>>]
  BY CampaignAssumption DEF Init, ThrottleInit
<1>2. AddressFits(<<>>, <<>>, limit, 0)
  BY DEF AddressFits, Ascending, Backs, Spaced
<1>. QED  BY <1>1, <1>2 DEF ThrottleInv

\* Whatever process runs, the two records of every address fit.
THEOREM ThrottleInvHolds == Spec => []ThrottleInv
<1>1. ThrottleInv /\ [Next]_vars => ThrottleInv'
  <2>. SUFFICES ASSUME ThrottleInv, [Next]_vars PROVE ThrottleInv'
    OBVIOUS
  <2>1. CASE UNCHANGED throttleVars
    BY <2>1 DEF ThrottleInv, throttleVars
  <2>2. CASE Request
    BY <2>2, RequestFits
  <2>3. CASE Tick
    BY <2>3, TickFits
  <2>4. CASE Attack
    BY <2>4, AttackFits
  <2>5. UNCHANGED throttleVars \/ Request \/ Tick \/ Attack
    BY DEF vars, Next, Payments, Tokens, MemorySim, AttackSim
  <2>. QED  BY <2>1, <2>2, <2>3, <2>4, <2>5
<1>. QED  BY <1>1, ThrottleStarts, PTL DEF Spec

\* However many attempts are refused in between, of one address's attempts that
\* reach the verifier the one a limit later comes a window later (auth.ts:6-9).
THEOREM ThrottleStands == Spec => []ThrottleHolds
<1>1. ThrottleInv => ThrottleHolds
  <2>. SUFFICES ASSUME ThrottleInv, NEW ip \in Addresses, NEW i \in DOMAIN verified[ip],
                       i + limit \in DOMAIN verified[ip]
                PROVE  verified[ip][i + limit] >= verified[ip][i] + AuthWindow
    BY DEF ThrottleHolds
  <2>1. verified[ip] \in Seq(Nat) /\ Spaced(verified[ip], limit)
    BY DEF ThrottleInv, AddressFits
  <2>2. DOMAIN verified[ip] = 1..Len(verified[ip]) /\ Len(verified[ip]) \in Nat
    BY <2>1
  <2>3. i + limit <= Len(verified[ip])
    BY <2>2
  <2>. QED  BY <2>1, <2>2, <2>3 DEF Spaced
<1>. QED  BY <1>1, ThrottleInvHolds, PTL

-----------------------------------------------------------------------------
(* The slots of the campaign, each of a source and a round.                *)

\* The sources among the first n that make an attempt in round i.
Making(n, i) == {r \in 1..n : Sources[r].attempts >= i}

LEMMA MakingGrows ==
  ASSUME NEW i \in Nat, NEW n \in Nat
  PROVE  /\ Cardinality(Making(n, i)) \in Nat /\ Cardinality(Making(0, i)) = 0
         /\ Cardinality(Making(n + 1, i)) =
              Cardinality(Making(n, i)) + (IF Sources[n + 1].attempts >= i THEN 1 ELSE 0)
<1>1. IsFiniteSet(Making(n, i))
  <2>1. Making(n, i) \in SUBSET (1..n) /\ IsFiniteSet(1..n)
    BY FS_Interval DEF Making
  <2>. QED  BY <2>1, FS_Subset
<1>2. Making(0, i) = {}
  BY DEF Making
<1>3. n + 1 \notin Making(n, i)
  BY DEF Making
<1>. SUFFICES Cardinality(Making(n + 1, i)) =
                Cardinality(Making(n, i)) + (IF Sources[n + 1].attempts >= i THEN 1 ELSE 0)
  <2>1. Cardinality(Making(n, i)) \in Nat
    BY <1>1, FS_CardinalityType
  <2>2. Cardinality(Making(0, i)) = 0
    BY <1>2, FS_EmptySet, Zenon
  <2>. QED  BY <2>1, <2>2
<1>4. CASE Sources[n + 1].attempts >= i
  <2>1. Making(n + 1, i) = Making(n, i) \cup {n + 1}
    BY <1>4 DEF Making
  <2>2. Cardinality(Making(n, i) \cup {n + 1}) = Cardinality(Making(n, i)) + 1
    BY <1>1, <1>3, FS_AddElement
  <2>. QED  BY <1>4, <2>1, <2>2
<1>5. CASE ~(Sources[n + 1].attempts >= i)
  <2>1. Making(n + 1, i) = Making(n, i)
    BY <1>5 DEF Making
  <2>2. Cardinality(Making(n, i)) \in Nat
    BY <1>1, FS_CardinalityType
  <2>. QED  BY <1>5, <2>1, <2>2
<1>. QED  BY <1>4, <1>5

\* A round adds an attempt of each source that has not made all of its own.
LEMMA MadeGrows ==
  ASSUME NEW i \in Nat, i # 0
  PROVE  Cardinality(Made(i)) =
           Cardinality(Made(i - 1)) + Cardinality(Making(Len(Sources), i))
<1>. DEFINE making == Making(Len(Sources), i)
            row == {i} \X making
<1>1. IsFiniteSet(making) /\ Cardinality(making) \in Nat
  <2>1. making \in SUBSET (1..Len(Sources)) /\ IsFiniteSet(1..Len(Sources))
    BY SourceTypes, FS_Interval DEF Making
  <2>. QED  BY <2>1, FS_Subset, FS_CardinalityType
<1>2. IsFiniteSet({i}) /\ Cardinality({i}) = 1
  BY FS_Singleton
<1>3. IsFiniteSet(row) /\ Cardinality(row) = Cardinality(making)
  <2>. HIDE DEF making
  <2>1. IsFiniteSet(row) /\ Cardinality(row) = Cardinality({i}) * Cardinality(making)
    BY <1>1, <1>2, FS_Product
  <2>. QED  BY <1>1, <1>2, <2>1
<1>4. Made(i) = Made(i - 1) \cup row
  <2>1. 1..i = (1..(i - 1)) \cup {i}
    OBVIOUS
  <2>. QED  BY <2>1, SourceTypes DEF Made, Making
<1>5. Made(i - 1) \cap row = {}
  BY DEF Made
<1>6. IsFiniteSet(Made(i - 1)) /\ Cardinality(Made(i - 1)) \in Nat
  <2>1. i - 1 \in Nat
    OBVIOUS
  <2>2. IsFiniteSet((1..(i - 1)) \X DOMAIN Sources)
    <3>1. IsFiniteSet(1..(i - 1)) /\ IsFiniteSet(DOMAIN Sources)
      BY <2>1, FS_Interval, SourceTypes
    <3>. QED  BY <3>1, FS_Product
  <2>3. Made(i - 1) \in SUBSET ((1..(i - 1)) \X DOMAIN Sources)
    BY DEF Made
  <2>. QED  BY <2>1, <2>2, <2>3, FS_Subset, MadeIsFinite
<1>. HIDE DEF row, making
<1>7. Cardinality(Made(i)) = Cardinality(Made(i - 1)) + Cardinality(row) - 0
  BY <1>3, <1>4, <1>5, <1>6, FS_Union, FS_EmptySet
<1>. QED  BY <1>1, <1>3, <1>6, <1>7 DEF making

\* The source whose attempt is the one in place q of round i.
LEMMA SourceInPlace ==
  ASSUME NEW i \in Nat, NEW q \in Nat, q # 0, q <= Cardinality(Making(Len(Sources), i))
  PROVE  \E s \in 1..Len(Sources) :
           Sources[s].attempts >= i /\ q = Cardinality(Making(s, i))
<1>. DEFINE count(s) == Cardinality(Making(s, i))
            T == {s \in 0..Len(Sources) : q <= count(s)}
<1>1. PICK s \in T : \A y \in T : s <= y
  <2>1. T \in SUBSET Nat /\ Len(Sources) \in T
    BY SourceTypes
  <2>. HIDE DEF T
  <2>. QED  BY <2>1, LeastElement
<1>2. s \in Nat /\ s <= Len(Sources) /\ q <= count(s)
  BY <1>1, SourceTypes
<1>3. s # 0
  <2>1. count(0) = 0
    BY MakingGrows
  <2>. HIDE DEF count
  <2>. QED  BY <1>2, <2>1
<1>4. s - 1 \in Nat /\ s - 1 \in 0..Len(Sources) /\ (s - 1) + 1 = s /\ ~(s <= s - 1)
  BY <1>2, <1>3, SourceTypes
<1>5. s - 1 \notin T
  BY <1>1, <1>4
<1>6. ~(q <= count(s - 1))
  BY <1>4, <1>5
<1>7. /\ count(s - 1) \in Nat
      /\ count(s) = count(s - 1) + (IF Sources[s].attempts >= i THEN 1 ELSE 0)
  <2>1. /\ Cardinality(Making(s - 1, i)) \in Nat
        /\ Cardinality(Making((s - 1) + 1, i)) = Cardinality(Making(s - 1, i)) +
             (IF Sources[(s - 1) + 1].attempts >= i THEN 1 ELSE 0)
    BY <1>4, MakingGrows
  <2>. QED  BY <1>4, <2>1
<1>. HIDE DEF count, T
<1>8. CASE Sources[s].attempts >= i
  <2>1. q = count(s)
    BY <1>2, <1>6, <1>7, <1>8
  <2>. QED  BY <1>2, <1>3, <1>8, <2>1 DEF count
<1>9. CASE ~(Sources[s].attempts >= i)
  BY <1>2, <1>6, <1>7, <1>9
<1>. QED  BY <1>8, <1>9

\* What slot k is.
Fills(k, i, s) ==
  /\ k = Cardinality(Made(i - 1)) + Cardinality(Making(s, i))
  /\ Slots[k] = [ip |-> Sources[s].ip, t |-> (i - 1) * Interval]

LEMMA SlotIs ==
  ASSUME NEW k \in 1..Len(Slots)
  PROVE  \E i \in Nat \ {0}, s \in DOMAIN Sources : Fills(k, i, s)
<1>. DEFINE n == Cardinality(Made(Most))
            i == RoundOf(k)
            source(s) == /\ Sources[s].attempts >= i
                         /\ k = Cardinality(Made(i - 1)) + Cardinality({r \in 1..s : Sources[r].attempts >= i})
            s == CHOOSE s \in DOMAIN Sources : source(s)
<1>1. n \in Nat /\ Len(Slots) = n /\ k \in 1..n /\ Most \in Nat
  <2>1. n \in Nat /\ Most \in Nat
    BY MostIsNat, MadeIsFinite
  <2>2. Len(Slots) = n
    <3>. HIDE DEF n
    <3>1. Slots = [j \in 1..n |-> Slots[j]]
      BY DEF Slots, n
    <3>. QED  BY <2>1, <3>1
  <2>. HIDE DEF n
  <2>. QED  BY <2>1, <2>2
<1>2. Slots[k] = [ip |-> Sources[s].ip, t |-> (i - 1) * Interval]
  BY <1>1 DEF Slots
<1>. HIDE DEF n, s
<1>3. /\ i \in Nat \ {0} /\ k <= Cardinality(Made(i))
      /\ \A j \in 1..(i - 1) : Cardinality(Made(j)) < k
  BY <1>1, RoundIs DEF n
<1>4. i - 1 \in Nat /\ Cardinality(Made(i - 1)) < k
  <2>1. CASE i = 1
    <3>1. Cardinality(Made(0)) = 0
      BY MadeIsFinite
    <3>. HIDE DEF i
    <3>. QED  BY <1>1, <2>1, <3>1
  <2>2. CASE i # 1
    <3>. HIDE DEF i
    <3>. QED  BY <1>3, <2>2
  <2>. QED  BY <2>1, <2>2
<1>. HIDE DEF i
<1>5. Cardinality(Made(i - 1)) \in Nat /\ Cardinality(Making(Len(Sources), i)) \in Nat
  BY <1>3, <1>4, MadeIsFinite, MakingGrows, SourceTypes
<1>. DEFINE q == k - Cardinality(Made(i - 1))
<1>6. q \in Nat /\ q # 0 /\ q <= Cardinality(Making(Len(Sources), i))
  <2>1. Cardinality(Made(i)) = Cardinality(Made(i - 1)) + Cardinality(Making(Len(Sources), i))
    BY <1>3, MadeGrows
  <2>. QED  BY <1>1, <1>3, <1>4, <1>5, <2>1
<1>7. k = Cardinality(Made(i - 1)) + q
  BY <1>1, <1>5
<1>. HIDE DEF q
<1>8. PICK r \in 1..Len(Sources) : Sources[r].attempts >= i /\ q = Cardinality(Making(r, i))
  BY <1>3, <1>6, SourceInPlace
<1>9. r \in DOMAIN Sources /\ source(r)
  BY <1>7, <1>8, SourceTypes DEF Making
<1>10. s \in DOMAIN Sources /\ source(s)
  BY <1>9 DEF s
<1>11. Fills(k, i, s)
  BY <1>2, <1>10 DEF Fills, Making
<1>. QED  BY <1>3, <1>10, <1>11

\* Slots go on in time, and those of one address are an interval apart.
LEMMA SlotsApart ==
  ASSUME NEW j \in 1..Len(Slots), NEW k \in 1..Len(Slots), j < k
  PROVE  /\ Slots[j].t \in Nat /\ Slots[k].t \in Nat /\ Slots[j].t <= Slots[k].t
         /\ Slots[j].ip = Slots[k].ip => Slots[j].t + Interval <= Slots[k].t
<1>1. /\ Len(Slots) \in Nat /\ \A i \in 1..Len(Slots) : Slots[i].t \in Nat
      /\ \A i \in 1..Len(Slots) - 1 : Slots[i].t <= Slots[i + 1].t
  BY SlotsAscend
<1>2. Slots[j].t <= Slots[k].t
  <2>. DEFINE T == {i \in j..k : ~(Slots[j].t <= Slots[i].t)}
  <2>1. T = {}
    <3>. SUFFICES ASSUME T # {} PROVE FALSE
      OBVIOUS
    <3>1. PICK i \in T : \A y \in T : i <= y
      <4>1. T \in SUBSET Nat
        BY <1>1
      <4>. HIDE DEF T
      <4>. QED  BY <4>1, LeastElement
    <3>2. i \in j..k /\ ~(Slots[j].t <= Slots[i].t)
      BY <3>1
    <3>3. i # j
      BY <1>1, <3>2
    <3>4. i - 1 \in j..k /\ ~(i <= i - 1)
      BY <1>1, <3>2, <3>3
    <3>5. i - 1 \notin T
      BY <3>1, <3>4
    <3>6. Slots[j].t <= Slots[i - 1].t
      BY <3>4, <3>5
    <3>7. /\ i - 1 \in 1..Len(Slots) - 1 /\ (i - 1) + 1 = i
          /\ i \in 1..Len(Slots) /\ i - 1 \in 1..Len(Slots)
      BY <1>1, <3>2, <3>3
    <3>8. Slots[i - 1].t <= Slots[i].t
      BY <1>1, <3>7
    <3>. HIDE DEF T
    <3>. QED  BY <1>1, <3>2, <3>6, <3>7, <3>8
  <2>2. k \in j..k
    OBVIOUS
  <2>. QED  BY <2>1, <2>2
<1>3. ASSUME Slots[j].ip = Slots[k].ip PROVE Slots[j].t + Interval <= Slots[k].t
  <2>1. PICK a \in Nat \ {0}, r \in DOMAIN Sources : Fills(j, a, r)
    BY SlotIs
  <2>2. PICK b \in Nat \ {0}, s \in DOMAIN Sources : Fills(k, b, s)
    BY SlotIs
  <2>3. r = s
    <3>1. Sources[r].ip = Sources[s].ip
      BY <1>3, <2>1, <2>2 DEF Fills
    <3>. QED  BY <3>1, ReplayAssumption
  <2>4. a # b
    BY <2>1, <2>2, <2>3 DEF Fills
  <2>5. Slots[j].t = (a - 1) * Interval /\ Slots[k].t = (b - 1) * Interval
    BY <2>1, <2>2 DEF Fills
  <2>6. PICK m \in Nat, n \in Nat : m = a - 1 /\ n = b - 1
    OBVIOUS
  <2>7. Interval \in Nat \ {0}
    BY CampaignAssumption
  <2>8. \A x, y \in Nat : x < y => x * Interval + Interval <= y * Interval
    <3>1. \A x, z \in Nat : (x + 1 + z) * Interval = x * Interval + Interval + z * Interval
      BY <2>7
    <3>2. \A z \in Nat : z * Interval \in Nat
      BY <2>7
    <3>. SUFFICES ASSUME NEW x \in Nat, NEW y \in Nat, x < y
                  PROVE  x * Interval + Interval <= y * Interval
      OBVIOUS
    <3>3. PICK z \in Nat : y = x + 1 + z
      <4>1. y - x - 1 \in Nat /\ y = x + 1 + (y - x - 1)
        OBVIOUS
      <4>. QED  BY <4>1
    <3>4. y * Interval = x * Interval + Interval + z * Interval
      BY <3>1, <3>3
    <3>. QED  BY <2>7, <3>2, <3>4
  <2>9. m < n
    <3>. SUFFICES ASSUME n < m PROVE FALSE
      BY <2>4, <2>6
    <3>1. n * Interval + Interval <= m * Interval /\ m * Interval <= n * Interval
      BY <1>2, <2>5, <2>6, <2>8
    <3>2. n * Interval \in Nat /\ m * Interval \in Nat
      BY <2>7
    <3>. QED  BY <2>7, <3>1, <3>2
  <2>. QED  BY <2>5, <2>6, <2>8, <2>9
<1>. QED  BY <1>1, <1>2, <1>3

-----------------------------------------------------------------------------
(* The replay never meets the limit.                                       *)

\* The attempts of an address are an interval apart.
Apart(times) ==
  \A i, j \in 1..Len(times) : i <= j => times[i] + (j - i) * Interval <= times[j]

\* Each of them is a slot of the address that was replayed.
SlotAt(k, ip, t) == Slots[k].ip = ip /\ Slots[k].t = t
OfSlots(times, ip, upto) ==
  \A i \in 1..Len(times) : \E k \in 1..upto : SlotAt(k, ip, times[i])

\* And the last of them is an interval before t.
Clear(times, t) == \A i \in 1..Len(times) : times[i] + Interval <= t

\* A window has less than the limit of attempts an interval apart and apart from now.
LEMMA WindowHasRoom ==
  ASSUME clock \in Nat, NEW old \in Seq(Nat), Ascending(old), Apart(old),
         Clear(old, clock)
  PROVE  Len(Within(old)) \in Nat /\ Len(Within(old)) + 1 <= PerIpLimit
<1>1. PICK d \in 0..Len(old) :
        /\ \A i \in 1..Len(old) : i > d <=> old[i] > clock - AuthWindow
        /\ Within(old) \in Seq(Nat) /\ Len(Within(old)) = Len(old) - d
  BY WithinIsTail
<1>2. /\ Interval \in Nat \ {0} /\ AuthWindow \in Nat \ {0} /\ PerIpLimit \in Nat
      /\ AuthWindow <= PerIpLimit * Interval
  BY CampaignAssumption, ReplayAssumption
<1>3. Len(old) \in Nat /\ \A i \in 1..Len(old) : old[i] \in Nat
  OBVIOUS
<1>4. PICK m \in Nat : m = Len(old) - d
  BY <1>3
<1>. SUFFICES m + 1 <= PerIpLimit
  BY <1>1, <1>4
<1>5. m * Interval < PerIpLimit * Interval
  <2>1. CASE m = 0
    <3>1. 0 * Interval = 0 /\ PerIpLimit * Interval \in Nat
      BY <1>2
    <3>. QED  BY <1>2, <2>1, <3>1
  <2>2. CASE m # 0
    <3>1. /\ d + 1 \in 1..Len(old) /\ Len(old) \in 1..Len(old) /\ d + 1 <= Len(old)
          /\ Len(old) - (d + 1) = m - 1 /\ m - 1 \in Nat
      BY <1>3, <1>4, <2>2
    <3>2. old[d + 1] > clock - AuthWindow /\ old[Len(old)] + Interval <= clock
      <4>1. d + 1 > d
        OBVIOUS
      <4>. QED  BY <1>1, <3>1, <4>1 DEF Clear
    <3>3. old[d + 1] + (m - 1) * Interval <= old[Len(old)]
      BY <3>1 DEF Apart
    <3>4. m * Interval = (m - 1) * Interval + Interval /\ (m - 1) * Interval \in Nat
      BY <1>2, <3>1
    <3>5. old[d + 1] \in Nat /\ old[Len(old)] \in Nat
      BY <1>3, <3>1
    <3>6. m * Interval < AuthWindow
      <4>1. \A p, a, e \in Nat :
              a > clock - AuthWindow /\ e + Interval <= clock /\ a + p <= e => p + Interval < AuthWindow
        BY <1>2, SMTT(30)
      <4>. QED  BY <3>2, <3>3, <3>4, <3>5, <4>1
    <3>7. m * Interval \in Nat /\ PerIpLimit * Interval \in Nat
      BY <1>2
    <3>. QED  BY <1>2, <3>6, <3>7
  <2>. QED  BY <2>1, <2>2
<1>6. PerIpLimit <= m => PerIpLimit * Interval <= m * Interval
  BY <1>2
<1>7. m * Interval \in Nat /\ PerIpLimit * Interval \in Nat
  BY <1>2
<1>. QED  BY <1>2, <1>5, <1>6, <1>7

\* It stays so with one more attempt.
LEMMA RecordApart ==
  ASSUME clock \in Nat, NEW old \in Seq(Nat), Ascending(old), Apart(old),
         Clear(old, clock),
         NEW ip, NEW n \in Nat, OfSlots(old, ip, n), SlotAt(n + 1, ip, clock)
  PROVE  Apart(Append(Within(old), clock)) /\ OfSlots(Append(Within(old), clock), ip, n + 1)
<1>. DEFINE new == Append(Within(old), clock)
<1>1. PICK d \in 0..Len(old) :
        /\ Within(old) \in Seq(Nat) /\ Len(Within(old)) = Len(old) - d
        /\ \A i \in 1..Len(old) - d : Within(old)[i] = old[i + d]
  BY WithinIsTail
<1>2. Interval \in Nat \ {0}
  BY CampaignAssumption
<1>3. Len(old) \in Nat /\ \A i \in 1..Len(old) : old[i] \in Nat
  OBVIOUS
<1>4. PICK m \in Nat : m = Len(old) - d
  <2>1. Len(old) - d \in Nat
    BY <1>3
  <2>. QED  BY <2>1
<1>5. /\ Len(new) = m + 1 /\ new[m + 1] = clock
      /\ \A i \in 1..m : i + d \in 1..Len(old) /\ new[i] = old[i + d]
  <2>1. Len(Within(old)) = m /\ \A i \in 1..m : i + d \in 1..Len(old) /\ Within(old)[i] = old[i + d]
    BY <1>1, <1>3, <1>4
  <2>2. /\ Len(new) = Len(Within(old)) + 1 /\ new[Len(Within(old)) + 1] = clock
        /\ \A i \in 1..Len(Within(old)) : new[i] = Within(old)[i]
    BY <1>1, AppendProperties
  <2>. QED  BY <2>1, <2>2
<1>. HIDE DEF new
<1>6. \A i, j \in 1..(m + 1) : i + d <= j + d <=> i <= j
  OBVIOUS
<1>7. \A i, j \in 1..(m + 1) : (j + d) - (i + d) = j - i
  OBVIOUS
<1>8. ASSUME NEW i \in 1..(m + 1), NEW j \in 1..(m + 1), i <= j
      PROVE  new[i] + (j - i) * Interval <= new[j]
  <2>1. CASE i = j
    <3>1. j - i = 0 /\ 0 * Interval = 0
      BY <1>2, <2>1
    <3>2. new[i] \in Nat
      <4>1. CASE i = m + 1
        BY <1>5, <4>1
      <4>2. CASE i \in 1..m
        BY <1>3, <1>5, <4>2
      <4>. QED  BY <4>1, <4>2
    <3>3. (j - i) * Interval = 0
      BY <3>1, Zenon
    <3>. QED  BY <2>1, <3>2, <3>3
  <2>2. CASE j # m + 1
    <3>1. i \in 1..m /\ j \in 1..m
      BY <1>8, <2>2
    <3>2. /\ i + d \in 1..Len(old) /\ j + d \in 1..Len(old) /\ i + d <= j + d
          /\ (j + d) - (i + d) = j - i
      <4>1. i + d \in 1..Len(old) /\ j + d \in 1..Len(old)
        BY <1>5, <3>1
      <4>. QED  BY <1>8, <1>6, <1>7, <4>1
    <3>3. old[i + d] + ((j + d) - (i + d)) * Interval <= old[j + d]
      BY <3>2 DEF Apart
    <3>. QED  BY <1>5, <3>1, <3>2, <3>3
  <2>3. CASE j = m + 1 /\ i # j
    <3>1. i \in 1..m /\ m \in 1..m /\ m - i \in Nat
      BY <2>3
    <3>2. /\ i + d \in 1..Len(old) /\ m + d \in 1..Len(old) /\ i + d <= m + d
          /\ (m + d) - (i + d) = m - i
      <4>1. i + d \in 1..Len(old) /\ m + d \in 1..Len(old)
        BY <1>5, <3>1
      <4>2. m \in 1..(m + 1) /\ i <= m
        BY <3>1
      <4>. QED  BY <1>6, <1>7, <4>1, <4>2
    <3>3. old[i + d] + (m - i) * Interval <= old[m + d]
      <4>1. old[i + d] + ((m + d) - (i + d)) * Interval <= old[m + d]
        BY <3>2 DEF Apart
      <4>. QED  BY <3>2, <4>1
    <3>4. old[m + d] + Interval <= clock
      BY <3>2 DEF Clear
    <3>5. (j - i) * Interval = (m - i) * Interval + Interval /\ (m - i) * Interval \in Nat
      <4>1. j - i = (m - i) + 1
        BY <2>3
      <4>. QED  BY <1>2, <3>1, <4>1
    <3>6. old[i + d] \in Nat /\ old[m + d] \in Nat
      BY <1>3, <3>2
    <3>7. new[i] = old[i + d] /\ new[j] = clock
      BY <1>5, <2>3, <3>1
    <3>8. PICK p \in Nat : p = (m - i) * Interval
      BY <3>5
    <3>9. (j - i) * Interval = p + Interval /\ old[i + d] + p <= old[m + d]
      BY <3>3, <3>5, <3>8, Zenon
    <3>10. old[i + d] + (p + Interval) <= clock
      <4>1. \A a, e, x, c \in Nat : a + p <= e /\ e + x <= c => a + (p + x) <= c
        BY <3>8, SMTT(30)
      <4>. QED  BY <1>2, <3>4, <3>6, <3>9, <4>1
    <3>. QED  BY <3>7, <3>9, <3>10, Zenon
  <2>. QED  BY <2>1, <2>2, <2>3
<1>9. ASSUME NEW i \in 1..(m + 1)
      PROVE  \E q \in 1..(n + 1) : SlotAt(q, ip, new[i])
  <2>1. CASE i = m + 1
    <3>1. n + 1 \in 1..(n + 1)
      OBVIOUS
    <3>. QED  BY <1>5, <2>1, <3>1
  <2>2. CASE i # m + 1
    <3>1. i \in 1..m
      BY <2>2
    <3>2. i + d \in 1..Len(old) /\ new[i] = old[i + d]
      BY <1>5, <3>1
    <3>3. PICK q \in 1..n : SlotAt(q, ip, old[i + d])
      BY <3>2 DEF OfSlots
    <3>4. q \in 1..(n + 1)
      OBVIOUS
    <3>. QED  BY <3>2, <3>3, <3>4
  <2>. QED  BY <2>1, <2>2
<1>10. Apart(new) /\ OfSlots(new, ip, n + 1)
  BY <1>5, <1>8, <1>9 DEF Apart, OfSlots
<1>. QED  BY <1>10 DEF new

-----------------------------------------------------------------------------
(* The wrong guesses before a hit are all in its window.                   *)

First(h) == HitIndex(h) - Guesses

\* The last m of the times are of slot `from` or later.
LastSince(times, m, from) ==
  m <= Len(times) /\ \A i \in 1..Len(times) : i > Len(times) - m => times[i] >= Slots[from].t

Past(times, t) ==
  times \in Seq(Nat) /\ Ascending(times) /\ \A i \in 1..Len(times) : times[i] <= t

\* While the guesses before a hit are made, all of them count as failures.
Guessed(h) ==
  attempt \in (First(h) - 1)..(HitIndex(h) - 1) =>
    LastSince(failures[Hits[h].account], attempt - (First(h) - 1), First(h))

LEMMA HitTypes ==
  ASSUME NEW h \in DOMAIN Hits
  PROVE  /\ Hits[h].account \in Accounts /\ Guesses \in Nat
         /\ HitIndex(h) \in 1..Len(Slots) /\ First(h) \in 1..HitIndex(h)
         /\ Slots[First(h)].t > Slots[HitIndex(h)].t - AuthWindow
<1>1. /\ Hits[h].account \in Accounts /\ Guesses \in Nat /\ HitIndex(h) > Guesses
      /\ HitIndex(h) \in DOMAIN Slots /\ Slots[First(h)].t > Slots[HitIndex(h)].t - AuthWindow
  BY CampaignAssumption, ReplayAssumption DEF First
<1>2. HitIndex(h) \in 1..Len(Slots) /\ Len(Slots) \in Nat
  BY <1>1, SlotsAscend
<1>. QED  BY <1>1, <1>2 DEF First

\* A slot is assigned to one hit at most.
LEMMA OneHit ==
  ASSUME NEW k \in Nat, NEW g \in DOMAIN Hits, NEW h \in DOMAIN Hits,
         g \in Assigned(k), h \in Assigned(k)
  PROVE  g = h
<1>1. /\ DOMAIN Hits = 1..Len(Hits) /\ Len(Hits) \in Nat
  BY ReplayAssumption
<1>2. ASSUME NEW a \in DOMAIN Hits, NEW b \in DOMAIN Hits, a \in Assigned(k), b \in Assigned(k), a < b
      PROVE  FALSE
  <2>1. k \in (HitIndex(a) - Guesses)..HitIndex(a) /\ k \in (HitIndex(b) - Guesses)..HitIndex(b)
    BY <1>2 DEF Assigned
  <2>2. a \in 1..(b - 1)
    BY <1>1, <1>2
  <2>3. HitIndex(a) < HitIndex(b) - Guesses
    BY <2>2, ReplayAssumption
  <2>4. HitIndex(a) \in Nat /\ HitIndex(b) \in Nat /\ Guesses \in Nat
    BY HitTypes, SlotsAscend
  <2>. QED  BY <2>1, <2>3, <2>4
<1>. QED  BY <1>1, <1>2

\* One more failure within the window of what was recorded since `from`.
LEMMA FailureCounts ==
  ASSUME clock \in Nat, NEW old, Past(old, clock), NEW m \in Nat, NEW from,
         Slots[from].t \in Nat, LastSince(old, m, from), clock >= Slots[from].t,
         Slots[from].t > clock - AuthWindow
  PROVE  /\ Len(Within(old)) \in Nat /\ m <= Len(Within(old))
         /\ LastSince(Append(Within(old), clock), m + 1, from)
<1>1. old \in Seq(Nat) /\ Ascending(old)
  BY DEF Past
<1>2. PICK d \in 0..Len(old) :
        /\ \A i \in 1..Len(old) : i > d <=> old[i] > clock - AuthWindow
        /\ Within(old) \in Seq(Nat) /\ Len(Within(old)) = Len(old) - d
        /\ \A i \in 1..Len(old) - d : Within(old)[i] = old[i + d]
  BY <1>1, WithinIsTail
<1>3. Len(old) \in Nat /\ \A i \in 1..Len(old) : old[i] \in Nat
  BY <1>1
<1>4. PICK l \in Nat : l = Len(old) - d
  <2>1. Len(old) - d \in Nat
    BY <1>3
  <2>. QED  BY <2>1
<1>5. AuthWindow \in Nat
  BY CampaignAssumption
<1>6. m <= Len(old) /\ \A i \in 1..Len(old) : i > Len(old) - m => old[i] >= Slots[from].t
  BY DEF LastSince
<1>7. m <= l
  <2>. SUFFICES ASSUME l < m PROVE FALSE
    BY <1>4
  <2>1. d \in 1..Len(old) /\ d > Len(old) - m /\ ~(d > d)
    BY <1>3, <1>4, <1>6
  <2>2. old[d] >= Slots[from].t /\ ~(old[d] > clock - AuthWindow)
    BY <1>2, <1>6, <2>1
  <2>. QED  BY <1>3, <1>5, <2>1, <2>2
<1>. DEFINE new == Append(Within(old), clock)
<1>8. /\ Len(new) = l + 1 /\ new[l + 1] = clock
      /\ \A i \in 1..l : i + d \in 1..Len(old) /\ new[i] = old[i + d]
  <2>1. Len(Within(old)) = l /\ \A i \in 1..l : i + d \in 1..Len(old) /\ Within(old)[i] = old[i + d]
    BY <1>2, <1>3, <1>4, SMTT(30)
  <2>2. /\ Len(new) = Len(Within(old)) + 1 /\ new[Len(Within(old)) + 1] = clock
        /\ \A i \in 1..Len(Within(old)) : new[i] = Within(old)[i]
    BY <1>2, AppendProperties
  <2>. QED  BY <2>1, <2>2
<1>. HIDE DEF new
<1>9. ASSUME NEW i \in 1..(l + 1), i > (l + 1) - (m + 1) PROVE new[i] >= Slots[from].t
  <2>1. CASE i = l + 1
    BY <1>8, <2>1
  <2>2. CASE i # l + 1
    <3>1. i \in 1..l /\ i + d > Len(old) - m
      BY <1>3, <1>4, <1>9, <2>2
    <3>2. i + d \in 1..Len(old) /\ new[i] = old[i + d]
      BY <1>8, <3>1
    <3>. QED  BY <1>6, <3>1, <3>2
  <2>. QED  BY <2>1, <2>2
<1>10. LastSince(new, m + 1, from)
  <2>1. m + 1 <= l + 1
    BY <1>7
  <2>. QED  BY <1>8, <1>9, <2>1 DEF LastSince
<1>. QED  BY <1>2, <1>4, <1>7, <1>10 DEF new

\* What is recorded of an account's failures.
LEMMA FailurePast ==
  ASSUME clock \in Nat, NEW old, Past(old, clock)
  PROVE  Past(Append(Within(old), clock), clock)
<1>1. AddressFits(old, <<>>, 0, clock)
  BY DEF Past, AddressFits, Backs, Spaced
<1>. QED  BY <1>1, RecordKeeps DEF Past

-----------------------------------------------------------------------------
(* The replay: what it has told of each hit.                               *)

\* The password of a hit was refused by a lockout, or it fits.
Judged(h) ==
  IF lockAfter > 0 THEN hitAnswers[h] = lockAnswer
  ELSE hitAnswers[h] \in {"ok", "mfa_required"}

\* The lock answers as for too many attempts.
LockLimits == lockAfter > 0 /\ lockAnswer = "rate_limited"

Told ==
  /\ rateLimited = 0 \/ LockLimits
  /\ lockAfter > 0 => sessions = 0
  /\ \A h \in DOMAIN Hits : attempt >= HitIndex(h) => Judged(h)
  /\ lockAfter > 0 => \A h \in DOMAIN Hits : Guessed(h)

FailuresPast ==
  /\ failures = [a \in Accounts |-> failures[a]]
  /\ \A a \in Accounts : Past(failures[a], clock)

AnswersFit ==
  /\ hitAnswers = [h \in DOMAIN Hits |-> hitAnswers[h]]
  /\ \A h \in DOMAIN Hits : hitAnswers[h] = "invalid_credentials" => lockAfter > 0

AddressesApart ==
  \A ip \in Addresses : Apart(ipAttempts[ip]) /\ OfSlots(ipAttempts[ip], ip, attempt)

ReplayInv ==
  /\ lockAfter \in Lockouts /\ lockAnswer \in Refusals
  /\ FailuresPast /\ AnswersFit /\ AddressesApart
  /\ limit = PerIpLimit => Told

\* An attempt of the replay is one of the spray or is about one hit.
Sprays(ip) ==
  /\ Assigned(attempt + 1) = {} /\ IssueToken(ip, Stranger, FALSE) /\ hitAnswers' = hitAnswers

Targets(ip, h) ==
  /\ h \in Assigned(attempt + 1)
  /\ IssueToken(ip, Hits[h].account, attempt + 1 = HitIndex(h))
  /\ hitAnswers' = IF attempt + 1 = HitIndex(h)
                   THEN [hitAnswers EXCEPT ![h] = Answer(ip, Hits[h].account, TRUE)]
                   ELSE hitAnswers

Makes(ip) == Sprays(ip) \/ \E h \in DOMAIN Hits : Targets(ip, h)

LEMMA SlotHasAddress ==
  ASSUME NEW k \in 1..Len(Slots) PROVE Slots[k].ip \in Addresses
<1>1. PICK i \in Nat \ {0}, s \in DOMAIN Sources : Fills(k, i, s)
  BY SlotIs
<1>. QED  BY <1>1 DEF Fills, Addresses

LEMMA AttackIs ==
  ASSUME ThrottleInv, Attack
  PROVE  /\ attempt \in Nat /\ attempt + 1 \in 1..Len(Slots) /\ attempt' = attempt + 1
         /\ clock \in Nat /\ clock' \in Nat /\ clock <= clock' /\ limit' = limit
         /\ lockAfter' = lockAfter /\ lockAnswer' = lockAnswer
         /\ \E ip \in Addresses : SlotAt(attempt + 1, ip, clock) /\ Makes(ip)
<1>. DEFINE k == attempt + 1
            ip == Slots[k].ip
<1>1. /\ attempt \in Nat /\ clock \in Nat /\ attempt < Len(Slots) /\ clock = Slots[k].t
      /\ clock' = IF k < Len(Slots) THEN Slots[k + 1].t ELSE clock
  BY DEF ThrottleInv, Attack
<1>2. k \in 1..Len(Slots) /\ (k < Len(Slots) => k + 1 \in 1..Len(Slots))
  BY <1>1, SlotsAscend
<1>3. clock' \in Nat /\ clock <= clock'
  <2>1. CASE k < Len(Slots)
    <3>1. k \in 1..Len(Slots) - 1
      BY <1>2, <2>1, SlotsAscend
    <3>. QED  BY <1>1, <1>2, <2>1, <3>1, SlotsAscend
  <2>2. CASE ~(k < Len(Slots))
    BY <1>1, <2>2
  <2>. QED  BY <2>1, <2>2
<1>4. ip \in Addresses /\ SlotAt(k, ip, clock)
  BY <1>1, <1>2, SlotHasAddress DEF SlotAt
<1>5. Makes(ip)
  <2>1. CASE Assigned(k) = {}
    BY <2>1 DEF Attack, Makes, Sprays
  <2>2. CASE Assigned(k) # {}
    <3>. DEFINE h == CHOOSE g \in Assigned(k) : \A f \in Assigned(k) : f <= g
    <3>1. \E g \in Assigned(k) : \A f \in Assigned(k) : f <= g
      <4>1. PICK g \in Assigned(k) : TRUE
        BY <2>2
      <4>2. Assigned(k) \subseteq DOMAIN Hits /\ DOMAIN Hits \subseteq Nat /\ k \in Nat
        <5>1. DOMAIN Hits \subseteq Nat
          BY ReplayAssumption
        <5>. QED  BY <1>1, <5>1 DEF Assigned
      <4>3. \A f \in Assigned(k) : f = g /\ f \in Nat
        BY <4>1, <4>2, OneHit, SMTT(30)
      <4>. QED  BY <4>1, <4>3
    <3>2. h \in Assigned(k)
      BY <3>1
    <3>3. h \in DOMAIN Hits
      BY <3>2 DEF Assigned
    <3>4. /\ IssueToken(ip, Hits[h].account, k = HitIndex(h))
          /\ hitAnswers' = IF k = HitIndex(h)
                           THEN [hitAnswers EXCEPT ![h] = Answer(ip, Hits[h].account, TRUE)]
                           ELSE hitAnswers
      BY <2>2 DEF Attack
    <3>. HIDE DEF h
    <3>. QED  BY <3>2, <3>3, <3>4 DEF Makes, Targets
  <2>. QED  BY <2>1, <2>2
<1>6. attempt' = attempt + 1 /\ limit' = limit /\ lockAfter' = lockAfter /\ lockAnswer' = lockAnswer
  BY <1>5 DEF Makes, Sprays, Targets, IssueToken
<1>. QED  BY <1>1, <1>2, <1>3, <1>4, <1>5, <1>6

\* The attempts of its address are all an interval before it.
LEMMA SlotIsClear ==
  ASSUME ThrottleInv, ReplayInv, attempt + 1 \in 1..Len(Slots),
         NEW ip \in Addresses, SlotAt(attempt + 1, ip, clock)
  PROVE  /\ ipAttempts[ip] \in Seq(Nat) /\ Ascending(ipAttempts[ip]) /\ Apart(ipAttempts[ip])
         /\ OfSlots(ipAttempts[ip], ip, attempt) /\ Clear(ipAttempts[ip], clock)
<1>1. /\ ipAttempts[ip] \in Seq(Nat) /\ Ascending(ipAttempts[ip]) /\ Apart(ipAttempts[ip])
      /\ OfSlots(ipAttempts[ip], ip, attempt)
  BY DEF ThrottleInv, AddressFits, ReplayInv, AddressesApart
<1>2. attempt \in Nat /\ Len(Slots) \in Nat
  BY SlotsAscend DEF ThrottleInv
<1>3. ASSUME NEW i \in 1..Len(ipAttempts[ip]) PROVE ipAttempts[ip][i] + Interval <= clock
  <2>1. PICK j \in 1..attempt : SlotAt(j, ip, ipAttempts[ip][i])
    BY <1>1 DEF OfSlots
  <2>2. j \in 1..Len(Slots) /\ j < attempt + 1
    BY <1>2
  <2>. QED  BY <2>1, <2>2, SlotsApart DEF SlotAt
<1>. QED  BY <1>1, <1>3 DEF Clear

LEMMA LimitNeverMet ==
  ASSUME ThrottleInv, ReplayInv, attempt + 1 \in 1..Len(Slots), limit = PerIpLimit,
         NEW ip \in Addresses, SlotAt(attempt + 1, ip, clock)
  PROVE  ~(AttemptsInWindow(ip) > limit)
<1>1. clock \in Nat
  BY DEF ThrottleInv
<1>2. Len(Within(ipAttempts[ip])) \in Nat /\ Len(Within(ipAttempts[ip])) + 1 <= PerIpLimit
  BY <1>1, SlotIsClear, WindowHasRoom
<1>3. PerIpLimit \in Nat
  BY CampaignAssumption
<1>. QED  BY <1>2, <1>3 DEF AttemptsInWindow

LEMMA ApartGoesOn ==
  ASSUME ThrottleInv, ReplayInv, attempt + 1 \in 1..Len(Slots),
         NEW ip \in Addresses, SlotAt(attempt + 1, ip, clock),
         NEW account, NEW right, IssueToken(ip, account, right)
  PROVE  AddressesApart'
<1>. SUFFICES ASSUME NEW x \in Addresses
              PROVE  Apart(ipAttempts'[x]) /\ OfSlots(ipAttempts'[x], x, attempt')
  BY DEF AddressesApart
<1>1. /\ clock \in Nat /\ attempt \in Nat /\ ipAttempts = [y \in Addresses |-> ipAttempts[y]]
      /\ Apart(ipAttempts[x]) /\ OfSlots(ipAttempts[x], x, attempt)
  BY DEF ThrottleInv, ReplayInv, AddressesApart
<1>2. /\ ipAttempts' = [ipAttempts EXCEPT ![ip] = Append(Within(@), clock)]
      /\ attempt' = attempt + 1
  BY DEF IssueToken
<1>3. CASE x = ip
  <2>1. ipAttempts'[x] = Append(Within(ipAttempts[ip]), clock)
    BY <1>1, <1>2, <1>3
  <2>2. /\ Apart(Append(Within(ipAttempts[ip]), clock))
        /\ OfSlots(Append(Within(ipAttempts[ip]), clock), ip, attempt + 1)
    BY <1>1, SlotIsClear, RecordApart
  <2>. QED  BY <1>2, <1>3, <2>1, <2>2
<1>4. CASE x # ip
  <2>1. ipAttempts'[x] = ipAttempts[x]
    BY <1>1, <1>2, <1>4
  <2>2. OfSlots(ipAttempts[x], x, attempt + 1)
    <3>1. \A q \in 1..attempt : q \in 1..(attempt + 1)
      BY <1>1
    <3>. QED  BY <1>1, <3>1 DEF OfSlots
  <2>. QED  BY <1>1, <1>2, <2>1, <2>2
<1>. QED  BY <1>3, <1>4

LEMMA FailuresGoOn ==
  ASSUME clock \in Nat, clock' \in Nat, clock <= clock', FailuresPast,
         NEW ip, NEW account, NEW right, IssueToken(ip, account, right)
  PROVE  FailuresPast'
<1>1. /\ failures = [a \in Accounts |-> failures[a]]
      /\ \A a \in Accounts : Past(failures[a], clock)
  BY DEF FailuresPast
<1>2. \/ failures' = failures
      \/ account \in Accounts /\ failures' = [failures EXCEPT ![account] = Append(Within(@), clock)]
  BY DEF IssueToken, Fails
<1>3. \A times : Past(times, clock) => Past(times, clock')
  <2>. SUFFICES ASSUME NEW times, Past(times, clock) PROVE Past(times, clock')
    OBVIOUS
  <2>1. times \in Seq(Nat) /\ \A i \in 1..Len(times) : times[i] \in Nat /\ times[i] <= clock
    BY DEF Past
  <2>. QED  BY <2>1 DEF Past
<1>4. failures' = [a \in Accounts |-> failures'[a]]
  BY <1>1, <1>2
<1>5. ASSUME NEW a \in Accounts PROVE Past(failures'[a], clock)
  <2>1. CASE failures' = failures
    BY <1>1, <2>1
  <2>2. CASE account \in Accounts /\ failures' = [failures EXCEPT ![account] = Append(Within(@), clock)]
    <3>1. failures'[a] = IF a = account THEN Append(Within(failures[a]), clock) ELSE failures[a]
      BY <1>1, <2>2
    <3>2. Past(Append(Within(failures[a]), clock), clock)
      BY <1>1, FailurePast
    <3>. QED  BY <1>1, <3>1, <3>2
  <2>. QED  BY <1>2, <2>1, <2>2
<1>. QED  BY <1>3, <1>4, <1>5 DEF FailuresPast

LEMMA AnswersGoOn ==
  ASSUME AnswersFit, lockAfter' = lockAfter, NEW ip, Makes(ip) PROVE AnswersFit'
<1>1. /\ hitAnswers = [h \in DOMAIN Hits |-> hitAnswers[h]]
      /\ \A h \in DOMAIN Hits : hitAnswers[h] = "invalid_credentials" => lockAfter > 0
  BY DEF AnswersFit
<1>2. CASE hitAnswers' = hitAnswers
  BY <1>1, <1>2 DEF AnswersFit
<1>3. CASE \E h \in DOMAIN Hits : hitAnswers' = [hitAnswers EXCEPT ![h] = Answer(ip, Hits[h].account, TRUE)]
  <2>1. PICK h \in DOMAIN Hits : hitAnswers' = [hitAnswers EXCEPT ![h] = Answer(ip, Hits[h].account, TRUE)]
    BY <1>3
  <2>2. Answer(ip, Hits[h].account, TRUE) = "invalid_credentials" => lockAfter > 0
    <3>1. Fits(Hits[h].account, TRUE)
      BY HitTypes DEF Fits
    <3>. QED  BY <3>1 DEF Answer, LockedOut
  <2>. QED  BY <1>1, <2>1, <2>2 DEF AnswersFit
<1>. QED  BY <1>2, <1>3 DEF Makes, Sprays, Targets

-----------------------------------------------------------------------------
(* What the replay is told, with the repository's limit.                   *)

\* The replay, of code with the repository's limit, is about to make an attempt
\* from this address.
Playing(ip) ==
  /\ ThrottleInv /\ ReplayInv /\ limit = PerIpLimit
  /\ attempt \in Nat /\ attempt + 1 \in 1..Len(Slots) /\ clock \in Nat
  /\ ip \in Addresses /\ SlotAt(attempt + 1, ip, clock)

\* While the guesses before a hit go on, the attempt is one of them.
LEMMA GuessIsTarget ==
  ASSUME attempt \in Nat, NEW ip, Makes(ip), NEW h \in DOMAIN Hits,
         attempt + 1 \in First(h)..HitIndex(h)
  PROVE  Targets(ip, h)
<1>1. h \in Assigned(attempt + 1)
  BY DEF Assigned, First
<1>2. PICK g \in DOMAIN Hits : Targets(ip, g)
  BY <1>1 DEF Makes, Sprays
<1>3. g = h
  BY <1>1, <1>2, OneHit DEF Targets
<1>. QED  BY <1>2, <1>3

\* All the guesses of a hit are in one window.
LEMMA GuessesInWindow ==
  ASSUME NEW h \in DOMAIN Hits, NEW k \in First(h)..HitIndex(h), clock = Slots[k].t
  PROVE  /\ clock \in Nat /\ Slots[First(h)].t \in Nat /\ Slots[First(h)].t <= clock
         /\ Slots[First(h)].t > clock - AuthWindow
<1>1. /\ HitIndex(h) \in 1..Len(Slots) /\ First(h) \in 1..HitIndex(h)
      /\ Slots[First(h)].t > Slots[HitIndex(h)].t - AuthWindow
      /\ Len(Slots) \in Nat /\ \A q \in 1..Len(Slots) : Slots[q].t \in Nat
  BY HitTypes, SlotsAscend
<1>2. k \in 1..Len(Slots) /\ First(h) \in 1..Len(Slots) /\ k \in Nat
  BY <1>1
<1>3. Slots[First(h)].t <= Slots[k].t
  <2>1. First(h) < k \/ First(h) = k
    BY <1>1
  <2>. QED  BY <1>1, <1>2, <2>1, SlotsApart
<1>4. Slots[k].t <= Slots[HitIndex(h)].t
  <2>1. k < HitIndex(h) \/ k = HitIndex(h)
    BY <1>1
  <2>. QED  BY <1>1, <1>2, <2>1, SlotsApart
<1>5. AuthWindow \in Nat
  BY CampaignAssumption
<1>6. Slots[k].t \in Nat /\ Slots[First(h)].t \in Nat /\ Slots[HitIndex(h)].t \in Nat
  BY <1>1, <1>2
<1>. QED  BY <1>1, <1>3, <1>4, <1>5, <1>6, SMTT(30)

\* A password that is not right is refused, perhaps by the lock.
LEMMA WrongIsRefused ==
  ASSUME NEW ip, Playing(ip), NEW account, NEW right, ~Fits(account, right)
  PROVE  /\ ~Throttled(ip)
         /\ \/ Answer(ip, account, right) = "invalid_credentials"
            \/ lockAfter > 0 /\ Answer(ip, account, right) = lockAnswer
<1>1. ~Throttled(ip)
  BY LimitNeverMet DEF Playing, Throttled
<1>. QED  BY <1>1 DEF Answer, LockedOut

\* The right one is, exactly when the code locks accounts.
LEMMA RightIsJudged ==
  ASSUME NEW ip, Playing(ip), Makes(ip), NEW h \in DOMAIN Hits, attempt + 1 = HitIndex(h)
  PROVE  IF lockAfter > 0 THEN Answer(ip, Hits[h].account, TRUE) = lockAnswer
         ELSE Answer(ip, Hits[h].account, TRUE) \in {"ok", "mfa_required"}
<1>1. ~Throttled(ip)
  BY LimitNeverMet DEF Playing, Throttled
<1>2. /\ Hits[h].account \in Accounts /\ Guesses \in Nat /\ First(h) \in 1..HitIndex(h)
      /\ HitIndex(h) \in 1..Len(Slots) /\ First(h) = HitIndex(h) - Guesses
  BY HitTypes DEF First
<1>3. Fits(Hits[h].account, TRUE)
  BY <1>2 DEF Fits
<1>4. CASE ~(lockAfter > 0)
  BY <1>1, <1>3, <1>4 DEF Answer, LockedOut
<1>5. CASE lockAfter > 0
  <2>. DEFINE f == failures[Hits[h].account]
  <2>1. /\ attempt \in Nat /\ lockAfter \in Nat /\ lockAfter <= Guesses
        /\ Past(f, clock) /\ Guessed(h)
    <3>1. lockAfter \in Lockouts /\ FailuresPast /\ Told /\ attempt \in Nat
      BY DEF Playing, ReplayInv
    <3>. QED  BY <1>2, <1>5, <3>1, CampaignAssumption, ReplayAssumption DEF FailuresPast, Told
  <2>2. LastSince(f, Guesses, First(h))
    <3>1. attempt \in (First(h) - 1)..(HitIndex(h) - 1) /\ attempt - (First(h) - 1) = Guesses
      <4>1. attempt = HitIndex(h) - 1 /\ HitIndex(h) \in Nat
        BY <1>2, <2>1
      <4>2. HitIndex(h) - 1 \in (First(h) - 1)..(HitIndex(h) - 1)
        BY <1>2, <4>1
      <4>3. (HitIndex(h) - 1) - (First(h) - 1) = Guesses
        BY <1>2, <4>1
      <4>. QED  BY <4>1, <4>2, <4>3, Zenon
    <3>. QED  BY <2>1, <3>1 DEF Guessed
  <2>3. /\ clock \in Nat /\ Slots[First(h)].t \in Nat /\ Slots[First(h)].t <= clock
        /\ Slots[First(h)].t > clock - AuthWindow
    <3>1. HitIndex(h) \in First(h)..HitIndex(h) /\ clock = Slots[HitIndex(h)].t
      BY <1>2 DEF Playing, SlotAt
    <3>. QED  BY <3>1, GuessesInWindow
  <2>. HIDE DEF f
  <2>4. Len(Within(f)) \in Nat /\ Guesses <= Len(Within(f))
    BY <1>2, <2>1, <2>2, <2>3, FailureCounts
  <2>5. LockedOut(Hits[h].account)
    <3>1. Len(Within(f)) >= lockAfter
      BY <1>2, <2>1, <2>4
    <3>. QED  BY <1>2, <1>5, <3>1 DEF LockedOut, f
  <2>. QED  BY <1>1, <1>5, <2>5 DEF Answer
<1>. QED  BY <1>4, <1>5

LEMMA GuessedGoesOn ==
  ASSUME NEW ip, Playing(ip), Makes(ip), lockAfter > 0, lockAfter' = lockAfter,
         FailuresPast', attempt' = attempt + 1, NEW h \in DOMAIN Hits
  PROVE  Guessed(h)'
<1>. SUFFICES ASSUME attempt' \in (First(h) - 1)..(HitIndex(h) - 1)
              PROVE  LastSince(failures'[Hits[h].account], attempt' - (First(h) - 1), First(h))
  BY DEF Guessed
<1>. DEFINE a == Hits[h].account
            from == First(h)
<1>1. /\ a \in Accounts /\ Guesses \in Nat /\ HitIndex(h) \in Nat /\ from \in 1..HitIndex(h)
      /\ attempt \in Nat
      /\ attempt + 1 \in (from - 1)..(HitIndex(h) - 1)
  BY HitTypes, SlotsAscend DEF Playing
<1>. HIDE DEF a, from
<1>2. CASE attempt + 1 = from - 1
  <2>1. failures'[a] \in Seq(Nat)
    BY <1>1 DEF FailuresPast, Past
  <2>2. attempt' - (from - 1) = 0
    BY <1>1, <1>2
  <2>3. LastSince(failures'[a], 0, from)
    BY <2>1 DEF LastSince
  <2>. QED  BY <2>2, <2>3 DEF a, from
<1>3. CASE attempt + 1 # from - 1
  <2>1. /\ attempt + 1 \in from..HitIndex(h) /\ attempt + 1 # HitIndex(h)
        /\ attempt \in (from - 1)..(HitIndex(h) - 1) /\ attempt - (from - 1) \in Nat
        /\ attempt' - (from - 1) = (attempt - (from - 1)) + 1
    BY <1>1, <1>3
  <2>2. Targets(ip, h)
    BY <1>1, <2>1, GuessIsTarget DEF from
  <2>3. IssueToken(ip, a, FALSE)
    BY <2>1, <2>2 DEF Targets, a
  <2>4. Fails(ip, a, FALSE)
    <3>1. ~Fits(a, FALSE)
      BY DEF Fits
    <3>. QED  BY <1>1, <3>1, WrongIsRefused DEF Fails
  <2>5. /\ failures = [x \in Accounts |-> failures[x]] /\ Past(failures[a], clock)
        /\ LastSince(failures[a], attempt - (from - 1), from)
    <3>1. FailuresPast /\ Told
      BY DEF Playing, ReplayInv
    <3>2. Guessed(h)
      BY <3>1 DEF Told
    <3>. QED  BY <1>1, <2>1, <3>1, <3>2 DEF FailuresPast, Guessed, a, from
  <2>6. failures'[a] = Append(Within(failures[a]), clock)
    BY <1>1, <2>3, <2>4, <2>5 DEF IssueToken
  <2>7. /\ clock \in Nat /\ Slots[from].t \in Nat /\ Slots[from].t <= clock
        /\ Slots[from].t > clock - AuthWindow
    <3>1. clock = Slots[attempt + 1].t
      BY DEF Playing, SlotAt
    <3>. QED  BY <2>1, <3>1, GuessesInWindow DEF from
  <2>8. LastSince(Append(Within(failures[a]), clock), (attempt - (from - 1)) + 1, from)
    BY <2>1, <2>5, <2>7, FailureCounts
  <2>. QED  BY <2>1, <2>6, <2>8 DEF a, from
<1>. QED  BY <1>2, <1>3

LEMMA JudgedGoesOn ==
  ASSUME NEW ip, Playing(ip), Makes(ip), lockAfter' = lockAfter, lockAnswer' = lockAnswer,
         attempt' = attempt + 1, NEW h \in DOMAIN Hits, attempt' >= HitIndex(h)
  PROVE  Judged(h)'
<1>1. /\ attempt \in Nat /\ HitIndex(h) \in Nat /\ First(h) \in 1..HitIndex(h)
      /\ hitAnswers = [g \in DOMAIN Hits |-> hitAnswers[g]] /\ Told
  BY HitTypes, SlotsAscend DEF Playing, ReplayInv, AnswersFit
<1>2. CASE attempt + 1 = HitIndex(h)
  <2>1. attempt + 1 \in First(h)..HitIndex(h)
    BY <1>1, <1>2
  <2>2. Targets(ip, h)
    BY <1>1, <2>1, GuessIsTarget
  <2>3. hitAnswers'[h] = Answer(ip, Hits[h].account, TRUE)
    BY <1>1, <1>2, <2>2 DEF Targets
  <2>. QED  BY <1>2, <2>3, RightIsJudged DEF Judged
<1>3. CASE attempt + 1 # HitIndex(h)
  <2>1. attempt >= HitIndex(h)
    BY <1>1, <1>3
  <2>2. Judged(h)
    BY <1>1, <2>1 DEF Told
  <2>3. hitAnswers'[h] = hitAnswers[h]
    <3>1. CASE Sprays(ip)
      BY <3>1 DEF Sprays
    <3>2. ASSUME NEW g \in DOMAIN Hits, Targets(ip, g) PROVE hitAnswers'[h] = hitAnswers[h]
      BY <1>1, <1>3, <3>2 DEF Targets
    <3>. QED  BY <3>1, <3>2 DEF Makes
  <2>. QED  BY <2>2, <2>3 DEF Judged
<1>. QED  BY <1>2, <1>3

LEMMA CountsGoOn ==
  ASSUME NEW ip, Playing(ip), Makes(ip)
  PROVE  (rateLimited' = 0 \/ LockLimits) /\ (lockAfter > 0 => sessions' = 0)
<1>1. (rateLimited = 0 \/ LockLimits) /\ (lockAfter > 0 => sessions = 0) /\ lockAnswer \in Refusals
  BY DEF Playing, ReplayInv, Told
<1>2. ASSUME NEW account, NEW right, IssueToken(ip, account, right),
             Answer(ip, account, right) = "rate_limited" => LockLimits,
             lockAfter > 0 => Answer(ip, account, right) # "ok"
      PROVE  (rateLimited' = 0 \/ LockLimits) /\ (lockAfter > 0 => sessions' = 0)
  BY <1>1, <1>2 DEF IssueToken
<1>3. ASSUME NEW account, NEW right, ~Fits(account, right)
      PROVE  /\ Answer(ip, account, right) = "rate_limited" => LockLimits
             /\ Answer(ip, account, right) # "ok"
  BY <1>1, <1>3, WrongIsRefused DEF LockLimits, Refusals
<1>4. CASE Sprays(ip)
  <2>1. ~Fits(Stranger, FALSE)
    BY DEF Fits
  <2>. QED  BY <1>2, <1>3, <1>4, <2>1 DEF Sprays
<1>5. ASSUME NEW h \in DOMAIN Hits, Targets(ip, h)
      PROVE  (rateLimited' = 0 \/ LockLimits) /\ (lockAfter > 0 => sessions' = 0)
  <2>1. CASE attempt + 1 = HitIndex(h)
    <3>1. IF lockAfter > 0 THEN Answer(ip, Hits[h].account, TRUE) = lockAnswer
          ELSE Answer(ip, Hits[h].account, TRUE) \in {"ok", "mfa_required"}
      BY <2>1, RightIsJudged
    <3>2. IssueToken(ip, Hits[h].account, TRUE)
      BY <1>5, <2>1 DEF Targets
    <3>3. /\ Answer(ip, Hits[h].account, TRUE) = "rate_limited" => LockLimits
          /\ lockAfter > 0 => Answer(ip, Hits[h].account, TRUE) # "ok"
      BY <1>1, <3>1 DEF LockLimits, Refusals
    <3>. QED  BY <1>2, <3>2, <3>3
  <2>2. CASE attempt + 1 # HitIndex(h)
    <3>1. ~Fits(Hits[h].account, FALSE)
      BY DEF Fits
    <3>2. IssueToken(ip, Hits[h].account, FALSE)
      BY <1>5, <2>2 DEF Targets
    <3>. QED  BY <1>2, <1>3, <3>1, <3>2
  <2>. QED  BY <2>1, <2>2
<1>. QED  BY <1>4, <1>5 DEF Makes

LEMMA ReplayGoesOn ==
  ASSUME ThrottleInv, ReplayInv, Attack PROVE ReplayInv'
<1>1. /\ attempt \in Nat /\ attempt + 1 \in 1..Len(Slots) /\ attempt' = attempt + 1
      /\ clock \in Nat /\ clock' \in Nat /\ clock <= clock' /\ limit' = limit
      /\ lockAfter' = lockAfter /\ lockAnswer' = lockAnswer
  BY AttackIs
<1>2. PICK ip \in Addresses : SlotAt(attempt + 1, ip, clock) /\ Makes(ip)
  BY AttackIs
<1>3. PICK account, right : IssueToken(ip, account, right)
  BY <1>2 DEF Makes, Sprays, Targets
<1>4. FailuresPast'
  BY <1>1, <1>3, FailuresGoOn DEF ReplayInv
<1>5. AnswersFit'
  BY <1>1, <1>2, AnswersGoOn DEF ReplayInv
<1>6. AddressesApart'
  BY <1>1, <1>2, <1>3, ApartGoesOn
<1>7. ASSUME limit = PerIpLimit PROVE Told'
  <2>1. Playing(ip)
    BY <1>1, <1>2, <1>7 DEF Playing
  <2>2. (rateLimited' = 0 \/ LockLimits') /\ (lockAfter' > 0 => sessions' = 0)
    BY <1>1, <1>2, <2>1, CountsGoOn DEF LockLimits
  <2>3. \A h \in DOMAIN Hits : attempt' >= HitIndex(h) => Judged(h)'
    BY <1>1, <1>2, <2>1, JudgedGoesOn
  <2>4. lockAfter' > 0 => \A h \in DOMAIN Hits : Guessed(h)'
    BY <1>1, <1>2, <1>4, <2>1, GuessedGoesOn
  <2>. QED  BY <2>2, <2>3, <2>4 DEF Told
<1>. QED  BY <1>1, <1>4, <1>5, <1>6, <1>7 DEF ReplayInv

LEMMA ReplayStarts == Init => ReplayInv
<1>. SUFFICES ASSUME Init PROVE ReplayInv
  OBVIOUS
<1>1. /\ lockAfter \in Lockouts /\ lockAnswer \in Refusals /\ clock = 0 /\ attempt = 0 /\ rateLimited = 0 /\ sessions = 0
      /\ ipAttempts = [ip \in Addresses |-> <<>>] /\ failures = [a \in Accounts |-> <<>>]
      /\ hitAnswers = [h \in DOMAIN Hits |-> "none"]
  BY DEF Init, ThrottleInit
<1>2. FailuresPast /\ AnswersFit /\ AddressesApart
  BY <1>1 DEF FailuresPast, Past, Ascending, AnswersFit, AddressesApart, Apart, OfSlots
<1>3. Told
  <2>1. \A h \in DOMAIN Hits : HitIndex(h) \in Nat /\ HitIndex(h) > 0 /\ First(h) \in Nat
                               /\ First(h) > 0 /\ Hits[h].account \in Accounts
    BY HitTypes, SlotsAscend
  <2>2. \A h \in DOMAIN Hits : Guessed(h)
    <3>. SUFFICES ASSUME NEW h \in DOMAIN Hits, attempt \in (First(h) - 1)..(HitIndex(h) - 1)
                  PROVE  LastSince(failures[Hits[h].account], attempt - (First(h) - 1), First(h))
      BY DEF Guessed
    <3>1. attempt - (First(h) - 1) = 0
      BY <1>1, <2>1
    <3>2. failures[Hits[h].account] = <<>>
      BY <1>1, <2>1
    <3>3. LastSince(<<>>, 0, First(h))
      BY DEF LastSince
    <3>. QED  BY <3>1, <3>2, <3>3
  <2>. QED  BY <1>1, <2>1, <2>2 DEF Told
<1>. QED  BY <1>1, <1>2, <1>3 DEF ReplayInv

-----------------------------------------------------------------------------
(* What the simulations tell.                                              *)

SimulationInv ==
  /\ SettlementInv /\ ThrottleInv
  /\ process = "attack-sim" => ReplayInv

LEMMA SimulationNext == SimulationInv /\ [Next]_vars => SimulationInv'
<1>. SUFFICES ASSUME SimulationInv, [Next]_vars PROVE SimulationInv'
  OBVIOUS
<1>1. SettlementInv' /\ ThrottleInv'
  <2>1. CASE UNCHANGED throttleVars
    BY <2>1, SettlementNext DEF SimulationInv, ThrottleInv, throttleVars
  <2>2. CASE Request \/ Tick \/ Attack
    BY <2>2, SettlementNext, RequestFits, TickFits, AttackFits DEF SimulationInv
  <2>. QED  BY <2>1, <2>2 DEF Next, Payments, Tokens, MemorySim, AttackSim, vars
<1>2. process' = process
  BY DEF Next, vars
<1>3. ASSUME process = "attack-sim" PROVE ReplayInv'
  <2>1. ReplayInv /\ ThrottleInv
    BY <1>3 DEF SimulationInv
  <2>2. CASE AttackSim
    BY <2>1, <2>2, ReplayGoesOn DEF AttackSim
  <2>3. CASE UNCHANGED vars
    BY <2>1, <2>3 DEF vars, throttleVars, ReplayInv, FailuresPast, AnswersFit, AddressesApart,
       Told, LockLimits, Judged, Guessed
  <2>. QED  BY <1>3, <2>2, <2>3 DEF Next, Payments, Tokens, MemorySim
<1>. QED  BY <1>1, <1>2, <1>3 DEF SimulationInv

THEOREM SimulationHolds == Spec => []SimulationInv
<1>1. Init => SimulationInv
  BY SettlementStart, ThrottleStarts, ReplayStarts DEF SimulationInv
<1>. QED  BY <1>1, SimulationNext, PTL DEF Spec

\* Every hit was answered in one way, or none was.
LEMMA AllAnswered ==
  ASSUME NEW answers
  PROVE  /\ Answered(answers) \in Nat /\ Len(Hits) \in Nat \ {0}
         /\ (\A h \in DOMAIN Hits : hitAnswers[h] \in answers) => Answered(answers) = Len(Hits)
         /\ (\A h \in DOMAIN Hits : hitAnswers[h] \notin answers) <=> Answered(answers) = 0
<1>. DEFINE S == {h \in DOMAIN Hits : hitAnswers[h] \in answers}
<1>1. /\ DOMAIN Hits = 1..Len(Hits) /\ Len(Hits) \in Nat /\ Hits # <<>>
      /\ Hits \in Seq([account: Accounts, t: Nat])
  BY ReplayAssumption
<1>2. Len(Hits) # 0
  BY <1>1, EmptySeq
<1>3. IsFiniteSet(DOMAIN Hits) /\ Cardinality(DOMAIN Hits) = Len(Hits)
  BY <1>1, FS_Interval
<1>4. IsFiniteSet(S) /\ Cardinality(S) \in Nat
  <2>1. S \in SUBSET DOMAIN Hits
    OBVIOUS
  <2>. QED  BY <1>3, <2>1, FS_Subset, FS_CardinalityType
<1>5. Answered(answers) = Cardinality(S)
  BY DEF Answered
<1>6. (\A h \in DOMAIN Hits : hitAnswers[h] \in answers) => S = DOMAIN Hits
  OBVIOUS
<1>7. (\A h \in DOMAIN Hits : hitAnswers[h] \notin answers) <=> S = {}
  OBVIOUS
<1>. HIDE DEF S
<1>8. Cardinality(S) = 0 <=> S = {}
  BY <1>4, FS_EmptySet
<1>. QED  BY <1>1, <1>2, <1>3, <1>4, <1>5, <1>6, <1>7, <1>8

LEMMA AttackTells ==
  ASSUME ThrottleInv, ReplayInv, AttackMeasured
  PROVE  /\ LockedAccounts > 0 => lockAfter > 0
         /\ limit = PerIpLimit =>
              /\ rateLimited > 0 => lockAfter > 0 /\ lockAnswer = "rate_limited"
              /\ AttackOk <=> lockAfter > 0 /\ lockAnswer # "mfa_required"
              /\ LockedAccounts = IF lockAfter > 0 /\ lockAnswer = "invalid_credentials"
                                  THEN Len(Hits) ELSE 0
<1>1. /\ LockedAccounts \in Nat /\ CredentialsMatched \in Nat /\ Len(Hits) \in Nat \ {0}
  BY AllAnswered DEF LockedAccounts, CredentialsMatched
<1>2. LockedAccounts = Answered({"invalid_credentials"})
  <2>1. Refusals \ {"rate_limited", "mfa_required"} = {"invalid_credentials"}
    BY DEF Refusals
  <2>. QED  BY <2>1 DEF LockedAccounts
<1>3. LockedAccounts > 0 => lockAfter > 0
  <2>. SUFFICES ASSUME LockedAccounts > 0 PROVE lockAfter > 0
    OBVIOUS
  <2>1. LockedAccounts # 0
    BY <1>1
  <2>2. \E h \in DOMAIN Hits : hitAnswers[h] \in {"invalid_credentials"}
    BY <1>2, <2>1, AllAnswered
  <2>. QED  BY <2>2 DEF ReplayInv, AnswersFit
<1>4. ASSUME limit = PerIpLimit
      PROVE  /\ rateLimited > 0 => lockAfter > 0 /\ lockAnswer = "rate_limited"
             /\ AttackOk <=> lockAfter > 0 /\ lockAnswer # "mfa_required"
             /\ LockedAccounts = IF lockAfter > 0 /\ lockAnswer = "invalid_credentials"
                                 THEN Len(Hits) ELSE 0
  <2>1. Told /\ lockAnswer \in Refusals
    BY <1>4 DEF ReplayInv
  <2>2. rateLimited > 0 => lockAfter > 0 /\ lockAnswer = "rate_limited"
    BY <2>1 DEF Told, LockLimits
  <2>3. \A h \in DOMAIN Hits : Judged(h)
    <3>1. ASSUME NEW h \in DOMAIN Hits PROVE attempt >= HitIndex(h)
      <4>1. HitIndex(h) \in 1..Len(Slots) /\ attempt = Len(Slots) /\ Len(Slots) \in Nat
        BY HitTypes, SlotsAscend DEF AttackMeasured
      <4>. QED  BY <4>1
    <3>. QED  BY <2>1, <3>1 DEF Told
  <2>4. CASE lockAfter > 0
    <3>1. \A h \in DOMAIN Hits : hitAnswers[h] = lockAnswer
      BY <2>3, <2>4 DEF Judged
    <3>2. sessions = 0
      BY <2>1, <2>4 DEF Told
    <3>3. LockedAccounts = IF lockAnswer = "invalid_credentials" THEN Len(Hits) ELSE 0
      BY <1>2, <3>1, AllAnswered
    <3>4. CredentialsMatched = IF lockAnswer = "mfa_required" THEN Len(Hits) ELSE 0
      <4>1. CASE lockAnswer = "mfa_required"
        <5>1. \A h \in DOMAIN Hits : hitAnswers[h] \in {"ok", "mfa_required"}
          BY <3>1, <4>1
        <5>. QED  BY <4>1, <5>1, AllAnswered DEF CredentialsMatched
      <4>2. CASE lockAnswer # "mfa_required"
        <5>1. \A h \in DOMAIN Hits : hitAnswers[h] \notin {"ok", "mfa_required"}
          BY <2>1, <3>1, <4>2 DEF Refusals
        <5>. QED  BY <4>2, <5>1, AllAnswered DEF CredentialsMatched
      <4>. QED  BY <4>1, <4>2
    <3>5. AttackOk <=> lockAnswer # "mfa_required"
      BY <1>1, <3>2, <3>4 DEF AttackOk
    <3>. QED  BY <2>2, <2>4, <3>3, <3>5
  <2>5. CASE ~(lockAfter > 0)
    <3>1. \A h \in DOMAIN Hits : /\ hitAnswers[h] \notin {"invalid_credentials"}
                                 /\ hitAnswers[h] \in {"ok", "mfa_required"}
      BY <2>3, <2>5 DEF Judged
    <3>2. LockedAccounts = 0 /\ CredentialsMatched = Len(Hits)
      BY <1>2, <3>1, AllAnswered DEF CredentialsMatched
    <3>. QED  BY <1>1, <2>2, <2>5, <3>2 DEF AttackOk
  <2>. QED  BY <2>4, <2>5
<1>. QED  BY <1>3, <1>4

\* For any campaign whose slots keep to the limit and whose guesses fall in a
\* window, the replay of code with the repository's limit passes exactly when
\* that code locks accounts by an answer other than mfa_required, and counts the
\* locked accounts exactly when the lock answers invalid_credentials
\* (attack-sim.ts:93-95,175-184, attackInvestigator.ts:101).
THEOREM SimulationsJudge == Spec => []SimulationsTellTheFix
<1>1. SimulationInv => SimulationsTellTheFix
  BY AttackTells DEF SimulationInv, SimulationsTellTheFix
<1>. QED  BY <1>1, SimulationHolds, PTL

=============================================================================
