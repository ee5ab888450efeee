--------------------------- MODULE MCTaskBilling ---------------------------
(* Instances of TaskBilling for TLC; the .cfg files give the constants. *)
EXTENDS TaskBilling

\* Two master nodes over a task settled by its actual cost; and one of them
\* with two queries of a user, over a task billed per call.
Races ==
    {[workers |-> {"p1", "p2"}, conditions |-> {"timeout", "flaky", "earlyFull"}, actual |-> 3],
     [workers |-> {"p1", "f1", "f2"}, conditions |-> {}, actual |-> 0]}

OneScenario(conditions, actual) ==
    {[workers |-> Workers, conditions |-> conditions, actual |-> actual]}

SlowUpstream == OneScenario({"timeout", "flaky", "refusal"}, 2)
EarlyFull == OneScenario({"timeout", "earlyFull"}, 0)
PerCall == OneScenario({}, 0)
ByActualCost == OneScenario({}, 3)
=============================================================================
