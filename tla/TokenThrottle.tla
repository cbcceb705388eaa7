--------------------------- MODULE TokenThrottle ---------------------------
(***************************************************************************)
(* The token endpoint of the demo service (payments-api, auth.ts) and the  *)
(* replay of a campaign against it (scripts/attack-sim.ts), whose numbers  *)
(* judge a patch. The code under test may differ from the repository's in  *)
(* two ways: an account is locked after some failures, which is what the   *)
(* regression test asks for, or the limit per address is another. The test *)
(* leaves open how a lock answers, as long as it refuses.                  *)
(***************************************************************************)
EXTENDS Integers, Sequences, FiniteSets

CONSTANTS
  Accounts,    \* CREDENTIALS
  Stranger,    \* an account that is none of them
  MfaEnrolled,
  PerIpLimit,
  AuthWindow,  \* AUTH_WINDOW_MS, in ticks
  Limits,      \* limits per address of the code under test
  Lockouts,    \* failures it locks an account after; 0 for never
  Sources,     \* the campaign's addresses and their attempts
  Hits,        \* REAL_HITS: the accounts whose passwords it has, and when
  Guesses,     \* WRONG_GUESSES_BEFORE_HIT
  Interval,    \* INTERVAL_MS, in ticks
  MaxTime,     \* bound: ticks of a service
  MaxAttempts  \* bound: attempts on a service

Addresses == {Sources[s].ip : s \in DOMAIN Sources}
Refusals == {"invalid_credentials", "rate_limited", "mfa_required"}
Answers == {"ok"} \cup Refusals

VARIABLES
  limit, lockAfter, lockAnswer,  \* the code under test
  clock,             \* receivedAt of the next request
  ipAttempts,
  failures,          \* of a patched code: times of each account's failures
  sessions,          \* their number
  verified,          \* for each address, the times the verifier was reached
  attempt,           \* attempts made
  rateLimited,       \* of them, answered rate_limited
  hitAnswers         \* realResults

throttleVars == <<limit, lockAfter, lockAnswer, clock, ipAttempts, failures, sessions, verified,
                  attempt, rateLimited, hitAnswers>>

ThrottleInit ==
  /\ limit \in Limits /\ lockAfter \in Lockouts /\ lockAnswer \in Refusals
  /\ clock = 0
  /\ ipAttempts = [ip \in Addresses |-> <<>>]
  /\ failures = [a \in Accounts |-> <<>>]
  /\ sessions = 0
  /\ verified = [ip \in Addresses |-> <<>>]
  /\ attempt = 0 /\ rateLimited = 0
  /\ hitAnswers = [h \in DOMAIN Hits |-> "none"]

\* The times ascend, so what the filter leaves is a tail of them.
Within(times) ==
  SubSeq(times, Cardinality({i \in DOMAIN times : times[i] <= clock - AuthWindow}) + 1, Len(times))

\* Faulty: the attempt is not counted before it is judged.
AttemptsInWindowBefore(ip) == Len(Within(ipAttempts[ip]))

AttemptsInWindow(ip) == Len(Within(ipAttempts[ip])) + 1

Throttled(ip) == AttemptsInWindow(ip) > limit

\* A lockout as the regression test describes it (auth-lockout.test.ts:42).
LockedOut(account) ==
  /\ account \in Accounts
  /\ lockAfter > 0 /\ Len(Within(failures[account])) >= lockAfter

\* CREDENTIALS: nobody else has a password.
Fits(account, right) == account \in Accounts /\ right

NeedsMfa(account) == account \in MfaEnrolled

Answer(ip, account, right) ==
  IF Throttled(ip) THEN "rate_limited"
  ELSE IF LockedOut(account) THEN lockAnswer
  ELSE IF ~Fits(account, right) THEN "invalid_credentials"
  ELSE IF NeedsMfa(account) THEN "mfa_required" ELSE "ok"

\* What a lockout counts: refused attempts on an account that reach the verifier.
Fails(ip, account, right) ==
  /\ lockAfter > 0 /\ account \in Accounts
  /\ ~Throttled(ip) /\ (LockedOut(account) \/ ~Fits(account, right))

\* issueToken: the attempt is recorded whatever becomes of it, so an address
\* that keeps trying stays limited.
IssueToken(ip, account, right) ==
  LET answer == Answer(ip, account, right)
  IN /\ ipAttempts' = [ipAttempts EXCEPT ![ip] = Append(Within(@), clock)]
     /\ verified' = IF Throttled(ip) THEN verified
                    ELSE [verified EXCEPT ![ip] = Append(@, clock)]
     /\ failures' = IF Fails(ip, account, right)
                    THEN [failures EXCEPT ![account] = Append(Within(@), clock)] ELSE failures
     /\ sessions' = sessions + (IF answer = "ok" THEN 1 ELSE 0)
     /\ rateLimited' = rateLimited + (IF answer = "rate_limited" THEN 1 ELSE 0)
     /\ attempt' = attempt + 1
     /\ UNCHANGED <<limit, lockAfter, lockAnswer>>

\* A service receives requests from any address, one after the other.
Request ==
  /\ attempt < MaxAttempts
  /\ \E ip \in Addresses, account \in Accounts \cup {Stranger}, right \in BOOLEAN :
       IssueToken(ip, account, right)
  /\ UNCHANGED <<clock, hitAnswers>>

Tick ==
  /\ clock < MaxTime
  /\ clock' = clock + 1
  /\ UNCHANGED <<limit, lockAfter, lockAnswer, ipAttempts, failures, sessions, verified, attempt,
                 rateLimited, hitAnswers>>

-----------------------------------------------------------------------------
(* attack-sim.ts.                                                          *)

Most == CHOOSE n \in {Sources[s].attempts : s \in DOMAIN Sources} :
  \A s \in DOMAIN Sources : Sources[s].attempts <= n

\* The attempts of the first i of each source: i is the round.
Made(i) == {p \in (1..i) \X DOMAIN Sources : p[1] <= Sources[p[2]].attempts}

RoundOf(k) == CHOOSE i \in 1..Most :
  k <= Cardinality(Made(i)) /\ \A j \in 1..(i - 1) : Cardinality(Made(j)) < k

\* The sources' attempts in order of time; at one time, in order of sources.
Slots ==
  [k \in 1..Cardinality(Made(Most)) |->
     LET i == RoundOf(k)
         s == CHOOSE s \in DOMAIN Sources :
                /\ Sources[s].attempts >= i
                /\ k = Cardinality(Made(i - 1)) + Cardinality({r \in 1..s : Sources[r].attempts >= i})
     IN [ip |-> Sources[s].ip, t |-> (i - 1) * Interval]]

HitIndex(h) == CHOOSE k \in DOMAIN Slots :
  /\ Slots[k].t >= Hits[h].t
  /\ \A j \in 1..(k - 1) : Slots[j].t < Hits[h].t

\* Faulty: the wrong guesses follow the password that fits.
AssignedAfter(k) == {h \in DOMAIN Hits : k \in HitIndex(h)..(HitIndex(h) + Guesses)}

\* The hits whose password or wrong guesses were put into a slot; the last stays.
Assigned(k) == {h \in DOMAIN Hits : k \in (HitIndex(h) - Guesses)..HitIndex(h)}

ASSUME CampaignAssumption ==
  /\ Sources \in Seq([ip: Addresses, attempts: Nat]) /\ Sources # <<>>
  /\ Stranger \notin Accounts /\ MfaEnrolled \subseteq Accounts
  /\ PerIpLimit \in Limits /\ Limits \subseteq Nat /\ Lockouts \subseteq Nat
  /\ AuthWindow \in Nat \ {0} /\ Interval \in Nat \ {0} /\ Guesses \in Nat
  /\ MaxTime \in Nat /\ MaxAttempts \in Nat
  /\ \A h \in DOMAIN Hits : Hits[h].account \in Accounts /\ HitIndex(h) > Guesses

\* What attack-sim.ts chooses its numbers for: an address is one source, whose
\* attempts are so far apart that a window has no more than the limit of them
\* (93-95); the wrong guesses come in one window with the password (78-79), in
\* slots that no other hit takes (121-133), and a lockout that the regression
\* test would accept needs no more of them (tests/auth-lockout.test.ts).
ASSUME ReplayAssumption ==
  /\ \A r, s \in DOMAIN Sources : r # s => Sources[r].ip # Sources[s].ip
  /\ AuthWindow <= PerIpLimit * Interval
  /\ Hits \in Seq([account: Accounts, t: Nat]) /\ Hits # <<>>
  /\ \A h \in DOMAIN Hits :
       /\ HitIndex(h) \in DOMAIN Slots
       /\ Slots[HitIndex(h) - Guesses].t > Slots[HitIndex(h)].t - AuthWindow
       /\ \A g \in 1..(h - 1) : HitIndex(g) < HitIndex(h) - Guesses
  /\ \A n \in Lockouts : n <= Guesses

Attack ==
  /\ attempt < Len(Slots)
  /\ LET k == attempt + 1
         slot == Slots[k]
     IN /\ clock = slot.t
        /\ IF Assigned(k) = {}
           THEN IssueToken(slot.ip, Stranger, FALSE) /\ UNCHANGED hitAnswers
           ELSE LET h == CHOOSE g \in Assigned(k) : \A f \in Assigned(k) : f <= g
                    right == k = HitIndex(h)
                IN /\ IssueToken(slot.ip, Hits[h].account, right)
                   /\ hitAnswers' = IF right
                        THEN [hitAnswers EXCEPT ![h] = Answer(slot.ip, Hits[h].account, TRUE)]
                        ELSE hitAnswers
        /\ clock' = IF k < Len(Slots) THEN Slots[k + 1].t ELSE clock

AttackMeasured == attempt = Len(Slots)
Answered(answers) == Cardinality({h \in DOMAIN Hits : hitAnswers[h] \in answers})
CredentialsMatched == Answered({"ok", "mfa_required"})
LockedAccounts == Answered(Refusals \ {"rate_limited", "mfa_required"})

\* attackInvestigator.ts:101, against a code that matches every hit.
AttackOk == sessions = 0 /\ CredentialsMatched < Len(Hits)

-----------------------------------------------------------------------------
(* What the throttle promises.                                             *)

\* "Any single address is capped at PER_IP_LIMIT attempts per AUTH_WINDOW_MS"
\* (auth.ts:6-9): of one address's attempts that reach the verifier, the one
\* PER_IP_LIMIT later comes at least a window later, whatever was refused in
\* between.
ThrottleHolds ==
  \A ip \in Addresses : \A i \in DOMAIN verified[ip] :
    i + limit \in DOMAIN verified[ip] => verified[ip][i + limit] >= verified[ip][i] + AuthWindow

=============================================================================
