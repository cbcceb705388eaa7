---------------------------- MODULE PaymentsApi ----------------------------
(***************************************************************************)
(* The processes that run the demo service's code: a service, asked for    *)
(* payments or for tokens, and the two simulations that a run of an        *)
(* investigation starts in its sandbox. Each has the state of the modules  *)
(* to itself. Payments and tokens share none of it, so their calls commute *)
(* and a process is asked for one of the two. Only a simulation runs other *)
(* code than the repository's.                                             *)
(***************************************************************************)
EXTENDS Settlement, TokenThrottle

VARIABLE process

vars == <<process, settlementVars, throttleVars>>

Init ==
  /\ process \in {"payments", "tokens", "memory-sim", "attack-sim"}
  /\ SettlementInit /\ ThrottleInit
  /\ process # "attack-sim" =>
       limit = PerIpLimit /\ lockAfter = 0 /\ lockAnswer = "invalid_credentials"
  /\ process # "memory-sim" => keeps = "request"

Payments == process = "payments" /\ PaymentCall /\ UNCHANGED throttleVars
Tokens == process = "tokens" /\ (Request \/ Tick) /\ UNCHANGED settlementVars
MemorySim == process = "memory-sim" /\ SimulateCapture /\ UNCHANGED throttleVars
AttackSim == process = "attack-sim" /\ Attack /\ UNCHANGED settlementVars

Next == (Payments \/ Tokens \/ MemorySim \/ AttackSim) /\ UNCHANGED process

Spec == Init /\ [][Next]_vars

\* The replay's verdict is about the lockout and not about its own traffic
\* ("keeps the per-IP throttle from ever firing", attack-sim.ts:93-95; "An
\* account counts as locked only if", 175-184). It is slow enough for the limit of
\* the repository, its guesses come before the passwords that fit, and no
\* assignment overwrites another: so with that limit a replay passes
\* (attackInvestigator.ts:101) exactly for code that locks accounts, unless the
\* lock answers as for a missing second factor, which the replay takes for a
\* password that fits; it counts the locked accounts exactly for a lock that
\* answers as for a wrong password, and is limited nowhere but by the lock.
SimulationsTellTheFix ==
  process = "attack-sim" /\ AttackMeasured =>
    /\ LockedAccounts > 0 => lockAfter > 0
    /\ limit = PerIpLimit =>
         /\ rateLimited > 0 => lockAfter > 0 /\ lockAnswer = "rate_limited"
         /\ AttackOk <=> lockAfter > 0 /\ lockAnswer # "mfa_required"
         /\ LockedAccounts = IF lockAfter > 0 /\ lockAnswer = "invalid_credentials"
                             THEN Len(Hits) ELSE 0

=============================================================================
