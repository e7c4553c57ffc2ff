---------------------------- MODULE MCEventStore ----------------------------
(* An instance of EventStore for TLC: two threads share a store, a third    *)
(* has its own.                                                             *)
EXTENDS EventStore, TLC

CONSTANTS s1, s2, t1, t2, t3, e1, e2, e3

MCStoreOf == t1 :> s1 @@ t2 :> s1 @@ t3 :> s2

MCBatches == {<<e1, e2>>, <<e2>>, <<e3>>}
=============================================================================
