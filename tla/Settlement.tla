----------------------------- MODULE Settlement -----------------------------
(***************************************************************************)
(* Captures and their settlement in the demo service that is investigated  *)
(* (payments-api: transactions.ts, aggregation.ts, refunds.ts,             *)
(* validation.ts), and the captures of scripts/memory-sim.ts, run on code  *)
(* before and after a patch. They differ in what a queue entry keeps: the  *)
(* request, with the payment in its body, or a summary, with the payment's *)
(* fields on top.                                                          *)
(*                                                                         *)
(* A refused call changes nothing and is a stuttering step. The settlement *)
(* worker and the caller of the refunds are outside the repository.        *)
(***************************************************************************)
EXTENDS Integers, Sequences

CONSTANTS
  PaymentIds,    \* the ids of payments
  Currencies,    \* SUPPORTED_CURRENCIES
  Unsupported,   \* any other
  MaxAmount,     \* MAX_AMOUNT_MINOR_UNITS
  MaxCaptures    \* bound: captures; the transactions of the simulation

Shapes == {"request", "summary"}

ASSUME SettlementAssumption ==
  /\ Unsupported \notin Currencies
  /\ MaxAmount \in Nat \ {0} /\ MaxCaptures \in Nat

VARIABLES
  keeps,     \* what the code under test queues
  queue,     \* transactionCache
  totals,    \* runningTotals
  captured,  \* the payments captured and answered, in order
  closed,    \* how many of them belong to settlement periods that are closed
  settled,   \* what the settlement worker was given
  refunded   \* what the caller refunded of each capture

settlementVars == <<keeps, queue, totals, captured, closed, settled, refunded>>

Bodies == [id: PaymentIds, amount: -1..(MaxAmount + 1),
           currency: Currencies \cup {Unsupported}, complete: BOOLEAN]
Nothing == [c \in Currencies |-> [total |-> 0, count |-> 0]]

SettlementInit ==
  /\ keeps \in Shapes
  /\ queue = <<>> /\ totals = Nothing
  /\ captured = <<>> /\ closed = 0 /\ settled = <<>> /\ refunded = <<>>

\* isSupportedCurrency
Supported(currency) == currency \in Currencies

\* validatePaymentBody; a body is complete when its id, customer and method are
\* what they should be and its amount is an integer.
Valid(body) ==
  /\ body.complete
  /\ body.amount > 0 /\ body.amount <= MaxAmount
  /\ Supported(body.currency)

Payment(body) == [id |-> body.id, amount |-> body.amount, currency |-> body.currency]

\* What is queued, and where it has the payment: a summary on top, a request in
\* its body.
Entry(body) == [shape |-> keeps, payment |-> Payment(body)]

\* What settlement finds on top of an entry (types.ts:35-44): a request has no id,
\* no amount and no currency there.
OnTop(entry) == IF entry.shape = "summary" THEN {entry.payment} ELSE {}

Aggregate(body) ==
  totals' = [totals EXCEPT ![body.currency] =
               [total |-> @.total + body.amount, count |-> @.count + 1]]

\* Faulty: the capture is queued before it is validated.
ProcessPaymentUnchecked(body) ==
  /\ Len(captured) < MaxCaptures
  /\ queue' = Append(queue, Entry(body))
  /\ IF Valid(body) THEN /\ Aggregate(body)
                         /\ captured' = Append(captured, Payment(body))
                         /\ refunded' = Append(refunded, 0)
     ELSE UNCHANGED <<totals, captured, refunded>>
  /\ UNCHANGED <<keeps, closed, settled>>

ProcessPayment(body) ==
  /\ Len(captured) < MaxCaptures
  /\ Valid(body)
  /\ queue' = Append(queue, Entry(body))
  /\ Aggregate(body)
  /\ captured' = Append(captured, Payment(body))
  /\ refunded' = Append(refunded, 0)
  /\ UNCHANGED <<keeps, closed, settled>>

\* The entries are handed over as they are: the cast to summaries changes none.
DrainSettlementBatch ==
  /\ settled' = settled \o queue
  /\ queue' = <<>>
  /\ UNCHANGED <<keeps, totals, captured, closed, refunded>>

ResetAggregation ==
  /\ totals' = Nothing
  /\ closed' = Len(captured)
  /\ UNCHANGED <<keeps, queue, captured, settled, refunded>>

Remaining(n) == captured[n].amount - refunded[n]

\* Faulty: compared with the capture, whatever was refunded of it before.
RefundableOfCapture(n, halves) == halves > 0 /\ halves \div 2 <= captured[n].amount

\* computeRefund, of an amount in halves of a minor unit, which it floors after
\* the check that it is positive.
Refundable(n, halves) ==
  /\ Remaining(n) > 0
  /\ halves > 0
  /\ halves \div 2 <= Remaining(n)

Refund(n, halves) ==
  /\ Refundable(n, halves)
  /\ refunded' = [refunded EXCEPT ![n] = @ + halves \div 2]
  /\ UNCHANGED <<keeps, queue, totals, captured, closed, settled>>

PaymentCall ==
  \/ \E body \in Bodies : ProcessPayment(body)
  \/ DrainSettlementBatch \/ ResetAggregation
  \/ \E n \in DOMAIN captured, halves \in 0..(2 * MaxAmount + 2) : Refund(n, halves)

-----------------------------------------------------------------------------
(* memory-sim.ts: captures with an id each, that nothing drains.            *)

SimulateCapture ==
  \E body \in Bodies :
    /\ Valid(body) /\ \A n \in DOMAIN captured : captured[n].id # body.id
    /\ ProcessPayment(body)

-----------------------------------------------------------------------------
(* What settlement promises.                                               *)

\* What the captures of a currency come to, and how many they are.
Tally(entries, c) ==
  LET upto[n \in 0..Len(entries)] ==
        IF n = 0 THEN [total |-> 0, count |-> 0]
        ELSE IF entries[n].currency # c THEN upto[n - 1]
        ELSE [total |-> upto[n - 1].total + entries[n].amount, count |-> upto[n - 1].count + 1]
  IN upto[Len(entries)]

PaymentsOf(entries) == [n \in DOMAIN entries |-> entries[n].payment]

\* The queue and the totals are two accounts of the same captures, cleared by
\* two calls at different moments: what was drained and what is queued hold the
\* captured payments in order, one entry for each, and the totals are those of
\* the captures since the period was closed (transactions.ts:21-28,40,
\* aggregation.ts:11-21,37).
BooksAgree ==
  /\ PaymentsOf(settled \o queue) = captured
  /\ \A c \in Currencies : totals[c] = Tally(SubSeq(captured, closed + 1, Len(captured)), c)

\* Settlement finds the payment of every capture where it reads it: "settlement
\* only ever reads the id, the amount and the currency" (transactions.ts:11-12).
\* The code does not keep this (README, section 3).
SettlementReadsCaptures == \A n \in DOMAIN settled : captured[n] \in OnTop(settled[n])

\* A payment is captured once: its id is the "Idempotency key, also used as the
\* transaction id." (types.ts:7)
\* The code does not keep this (README, section 3).
CapturedOnce == \A m, n \in DOMAIN captured : captured[m].id = captured[n].id => m = n

\* "the sum of partial refunds can never exceed the capture" (refunds.ts:24),
\* over any sequence of refunds of whole and fractional amounts.
RefundsWithinCapture == \A n \in DOMAIN captured : refunded[n] <= captured[n].amount

=============================================================================
