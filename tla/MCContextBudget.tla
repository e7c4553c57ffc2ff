-------------------------- MODULE MCContextBudget ---------------------------
(* Contexts for TLC: up to MaxSegments pieces of a stream, each one event or *)
(* one step of the model with the results of its calls.                      *)
EXTENDS ContextBudget, SequencesExt

CONSTANT MaxSegments   \* bound: pieces of one context

Note(kind, cost) ==
    [kind |-> kind, cost |-> cost, calls |-> {}, id |-> "", content |-> ""]

Calls(ids) == [Note("assistant", 1) EXCEPT !.calls = ids]

Result(id, content, cost) ==
    [Note("tool", cost) EXCEPT !.id = id, !.content = content]

Segments ==
    {<<Note(kind, 1)>> : kind \in {"operator", "inbox", "alert", "goal", "evidence"}}
        \cup {<<Note("injected", 2)>>, <<Note("assistant", 1)>>}
        \cup {<<Calls({"a"}), Result("a", content, cost)>> :
                  content \in {"up", "down"}, cost \in {1, 2}}
        \cup {<<Calls({"a", "b"}), Result("b", "up", 1), Result("a", "up", 1)>>,
              <<Calls({"a", "b"}), Result("a", "up", 1)>>,
              <<Calls({"a"}), Note("evidence", 1), Result("a", "up", 1)>>}

MCSnapshots ==
    {FlattenSeq(s) : s \in UNION {[1 .. n -> Segments] : n \in 1 .. MaxSegments}}
=============================================================================
