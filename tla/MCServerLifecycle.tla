------------------------- MODULE MCServerLifecycle -------------------------
(***************************************************************************)
(* Small instances of ServerLifecycle for TLC.                             *)
(***************************************************************************)
EXTENDS ServerLifecycle, TLC

(* Servers, sockets and connections differ in nothing but their names. *)
Symmetry == Permutations(Servers) \cup Permutations(Sockets)
              \cup Permutations(Clients)
============================================================================
