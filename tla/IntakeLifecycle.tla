-------------------------- MODULE IntakeLifecycle --------------------------
(***************************************************************************)
(* What the intake queue promises about one incident, whoever works on it: *)
(* the life of a row of incoming_incidents as its readers see it.          *)
(***************************************************************************)
EXTENDS Naturals

CONSTANTS Incidents, MaxAttempts

VARIABLES stage, attempts

Stage == {"absent", "queued", "investigating", "review", "failed"}

LifecycleTypeOK ==
  /\ stage \in [Incidents -> Stage]
  /\ attempts \in [Incidents -> 0..MaxAttempts]

LifecycleInit ==
  /\ stage = [i \in Incidents |-> "absent"]
  /\ attempts = [i \in Incidents |-> 0]

Become(i, s, n) ==
  /\ stage' = [stage EXCEPT ![i] = s]
  /\ attempts' = [attempts EXCEPT ![i] = n]

Report(i) == stage[i] = "absent" /\ Become(i, "queued", 0)

\* A first attempt, or another one after an interruption.
Begin(i) ==
  /\ stage[i] \in {"queued", "investigating"}
  /\ attempts[i] < MaxAttempts
  /\ Become(i, "investigating", attempts[i] + 1)

Complete(i) == stage[i] = "investigating" /\ Become(i, "review", attempts[i])
Abandon(i)  == stage[i] = "investigating" /\ Become(i, "failed", attempts[i])
Retry(i)    == stage[i] = "failed" /\ Become(i, "queued", 0)
Delete(i)   == stage[i] # "absent" /\ Become(i, "absent", 0)

\* The reaper gives up several interrupted incidents in one statement.
AbandonAll ==
  \E S \in SUBSET {i \in Incidents : stage[i] = "investigating"} :
    /\ S # {}
    /\ stage' = [i \in Incidents |-> IF i \in S THEN "failed" ELSE stage[i]]
    /\ UNCHANGED attempts

LifecycleNext ==
  \/ \E i \in Incidents :
       Report(i) \/ Begin(i) \/ Complete(i) \/ Abandon(i) \/ Retry(i) \/ Delete(i)
  \/ AbandonAll

LifecycleVars == <<stage, attempts>>

LifecycleSpec == LifecycleInit /\ [][LifecycleNext]_LifecycleVars

=============================================================================
