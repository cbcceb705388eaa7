---------------------------- MODULE MCAgentTools ----------------------------
(* Small instances of AgentTools, and of the lookups its agent may call,   *)
(* which change nothing: what they promise is about the files alone.       *)
EXTENDS Lookups

CONSTANTS h1, h2, h3

ThreeIds == {h1, h2, h3}
BothKinds == {"incident", "attack"}
TwoMinutes == 1..2

\* The findings of a recording, shortened; it shares an id with the live run.
ATape ==
  <<[type |-> "hypothesis", id |-> h1],
    [type |-> "evidence", id |-> h1, supports |-> FALSE],
    [type |-> "root_cause", id |-> h1], [type |-> "patch"],
    [type |-> "test", outcome |-> "green"]>>
=============================================================================
