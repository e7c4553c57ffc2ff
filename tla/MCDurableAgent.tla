--------------------------- MODULE MCDurableAgent ---------------------------
(* A read and two calls of the hang's recovery, which may be asked for in   *)
(* one answer; the policy of a dependency's outage allows no mutation.      *)
EXTENDS DurableAgent, TLC

CONSTANTS Look, Restart, RestartAgain

MCScenarios == {"transient_hang", "dependency_outage"}

MCRecoveryCalls == [transient_hang |-> {Restart, RestartAgain},
                    dependency_outage |-> {}]

Use(batch) == [stop |-> "tool_use", calls |-> batch, tokens |-> 0]

MCResponses ==
    {Use(<<Look, Restart>>), Use(<<Restart, RestartAgain>>),
     [stop |-> "end_turn", calls |-> <<>>, tokens |-> 0]}

\* Investigators are interchangeable, and so are operators.
ProcessSymmetry == Permutations(Investigators) \cup Permutations(Operators)
=============================================================================
