--------------------------- MODULE MCPaymentsApi ---------------------------
(* Small instances of PaymentsApi. The campaign keeps the proportions of   *)
(* attack-sim.ts: an address makes just as many attempts in a window as    *)
(* its limit allows, and the guesses before a hit fit into one.            *)
EXTENDS PaymentsApi

CONSTANTS p1, p2, usd, eur, billing, ops, okafor, ip1, ip2

TwoCurrencies == {usd, eur}
TwoIds    == {p1, p2}
Staff     == {billing, ops, okafor}
Enrolled  == {ops, okafor}
TwoLimits == {2, 3}
SomeLockouts == {0, 1, 2, 3}
Campaign  == <<[ip |-> ip1, attempts |-> 9], [ip |-> ip2, attempts |-> 7]>>
Breached  == <<[account |-> ops, t |-> 5], [account |-> billing, t |-> 9], [account |-> okafor, t |-> 13]>>
=============================================================================
