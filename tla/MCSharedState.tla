--------------------------- MODULE MCSharedState ---------------------------
(***************************************************************************)
(* Small instances of SharedState for TLC.                                 *)
(***************************************************************************)
EXTENDS BrokerRefinement, TLC

CONSTANTS p1, p2, t1, t2, t3, k1, k2, k3, bad

(* Every key has a shard of its own; a raw key that is no UTF-8 is k1,     *)
(* which stands for the empty key.                                         *)
OneKey      == [r \in {k1, bad} |-> k1]
ThreeKeys   == [r \in {k1, k2, k3} |-> r]
OneShard    == (k1 :> 1)
ThreeShards == OneShard @@ (k2 :> 2) @@ (k3 :> 3)

OneProcess == [t \in Threads |-> p1]
Forked     == [t \in Threads |-> IF t = t3 THEN p2 ELSE p1]

PlusMinus  == {1, -1}
Minus      == {-1}

(* The threads of one process differ in nothing but their names. *)
ThreadSymmetry == Permutations({t1, t2})
============================================================================
