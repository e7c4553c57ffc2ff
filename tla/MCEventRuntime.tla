--------------------------- MODULE MCEventRuntime ---------------------------
(* Instances of EventRuntime for TLC.                                       *)
EXTENDS EventRuntime

CONSTANTS MaxBatch,   \* bound: tool calls in one response
          Costs       \* token usages a response may report

Batches ==
    {s \in UNION {[1 .. n -> CallIds] : n \in 1 .. MaxBatch} :
        \A i, j \in DOMAIN s : s[i] = s[j] => i = j}

MCResponses ==
    [stop : {"end_turn", "max_tokens"}, calls : {<<>>}, tokens : Costs]
        \cup [stop : {"tool_use"}, calls : Batches, tokens : Costs]

=============================================================================
