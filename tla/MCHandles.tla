----------------------------- MODULE MCHandles ------------------------------
(***************************************************************************)
(* A small instance of Handles for TLC.                                    *)
(***************************************************************************)
EXTENDS Handles, TLC

CONSTANTS get, post, users, me, other, h1, h2, h3

Route(method, pattern, handler, dto) ==
  [method |-> method, pattern |-> pattern, handler_id |-> handler, dto |-> dto]

(* A static route beside a parameter, another method with a path of its    *)
(* own; and routes that conflict.                                          *)
Resource ==
  <<Route(get, <<users, Wild>>, h1, FALSE), Route(get, <<users, me>>, h2, FALSE),
    Route(post, <<users>>, h3, TRUE), Route(post, <<Wild>>, h1, FALSE)>>
Conflicting ==
  <<Route(get, <<users>>, h1, FALSE), Route(get, <<users>>, h2, FALSE),
    Route(get, <<Wild, me>>, h3, FALSE), Route(get, <<users, Wild>>, h1, TRUE)>>

AllManifests == {Resource, Conflicting}
AllPaths == {<<users>>, <<users, me>>, <<users, other>>, <<other, me>>}

Symmetry == Permutations(Routers) \cup Permutations(Servers)
============================================================================
