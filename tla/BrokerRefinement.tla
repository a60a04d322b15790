-------------------------- MODULE BrokerRefinement --------------------------
(***************************************************************************)
(* Inside one process, the broker implements AtomicStore: every operation  *)
(* takes effect at one instant, whatever the other threads do.             *)
(***************************************************************************)
EXTENDS SharedState

RootThreads == {t \in Threads : Home[t] = Root}

(* The 0 that increment inserts before it adds to it is never observed. *)
Placeholder(k) == \E t \in RootThreads :
                    In(t, "incr") /\ op[t].key = k /\ op[t].fresh

A == INSTANCE AtomicStore WITH
       Threads <- RootThreads,
       store <- [k \in Keys |-> IF Placeholder(k) THEN Absent ELSE kv[Root][k]],
       reply <- [t \in RootThreads |-> reply[t]]

(* set, get, incr and remove of the threads of a process are atomic.       *)
ImplementsAtomicStore == A!Spec
============================================================================
