--------------------------- MODULE MCIntakeQueue ---------------------------
(* Instances of IntakeQueue for TLC.                                       *)
EXTENDS IntakeQueue, TLC

CONSTANTS w1, w2, r1, r2, e1, t1, t2, t3, t4, t5, t6

OneWorker  == {w1}
TwoWorkers == {w1, w2}
OneRequest  == {r1}
TwoRequests == {r1, r2}
OneEvent   == {e1}
NoManual   == {}
SixTokens  == {t1, t2, t3, t4, t5, t6}
NoFault    == {}
Refused    == {"refused"}
AnyFault   == {"refused", "lost"}
Symmetric == Permutations(Workers) \cup Permutations(Requests)

\* Every claim finds a fresh token: the token pool is no hidden bound.
TokensSuffice == FreshTokens # {}

=============================================================================
