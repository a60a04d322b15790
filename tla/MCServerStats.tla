--------------------------- MODULE MCServerStats ---------------------------
(***************************************************************************)
(* A small instance of ServerStats for TLC.                                *)
(***************************************************************************)
EXTENDS ServerStats, TLC

(* The requests differ in nothing but their names. *)
Symmetry == Permutations(Requests)
============================================================================
