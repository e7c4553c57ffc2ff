--------------------------- MODULE MCToolPipeline ---------------------------
(* An instance of ToolPipeline for TLC: two services, each with its lane,   *)
(* and one of them with two mutations.                                      *)
EXTENDS ToolPipeline, TLC

CONSTANTS query, lost, restart, rollback, isolate, checkout, payment, b1, b2

MCLaneOf == restart :> checkout @@ rollback :> checkout @@ isolate :> payment

MCInputs ==
    b1 :> {<<query, query>>, <<restart>>, <<query, restart>>, <<restart, isolate>>}
    @@ b2 :> {<<rollback, query>>, <<rollback, restart>>, <<lost, query>>}
=============================================================================
