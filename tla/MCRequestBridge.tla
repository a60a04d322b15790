-------------------------- MODULE MCRequestBridge --------------------------
(***************************************************************************)
(* Small instances of RequestBridge for TLC.                               *)
(***************************************************************************)
EXTENDS BridgeRefinement, TLC

CONSTANTS r1, r2, r3, h1

(* What match_route finds: a route that always needs PHP, one with a DTO,  *)
(* one that is served natively once it is preloaded, and none at all.      *)
PhpRoute  == [match |-> "ok", handler |-> h1, params |-> TRUE,  dto |-> FALSE]
DtoRoute  == [match |-> "ok", handler |-> h1, params |-> FALSE, dto |-> TRUE]
BareRoute == [match |-> "ok", handler |-> h1, params |-> FALSE, dto |-> FALSE]
NoRoute   == [BareRoute EXCEPT !.match = "not_found"]

AllPhp == [r \in Requests |-> PhpRoute]
Mixed  == [r \in Requests |-> CASE r = r1 -> DtoRoute
                                [] r = r2 -> BareRoute
                                [] OTHER  -> PhpRoute]

(* With AllPhp the requests differ in nothing but their name. *)
Symmetry == Permutations(Requests)
============================================================================
