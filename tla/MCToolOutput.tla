---- MODULE MCToolOutput ----
(***************************************************************************)
(* ToolOutput with two runs: one mutates, the other reads, so that both may *)
(* store the same content at once.                                         *)
(***************************************************************************)
EXTENDS ToolOutput, TLC

CONSTANTS d1, d2

MCPlan == d1 :> <<"mutate">> @@ d2 :> <<"read">>
====
