------------------------------- MODULE Router -------------------------------
(***************************************************************************)
(* The routing table (router.rs, manifest.rs): one matchit tree per HTTP   *)
(* method, built once from the manifest and never changed.                 *)
(*                                                                         *)
(* A pattern is a sequence of segments, Wild for a parameter whatever its  *)
(* name.  matchit is modelled from how router.rs uses it: it refuses a     *)
(* pattern it already has, and finds the most specific one.                *)
(***************************************************************************)
EXTENDS Naturals, Sequences, SequencesExt

CONSTANTS
  Methods,    \* HTTP methods
  Segments,   \* segments of paths
  Wild,       \* a parameter in a pattern
  Handlers    \* handler ids

ASSUME WildAssumption == Wild \notin Segments

Patterns == Seq(Segments \cup {Wild})

RouteEntry == [method : Methods, pattern : Patterns, handler_id : Handlers,
               dto : BOOLEAN]

Covers(pattern, path) ==
  /\ Len(pattern) = Len(path)
  /\ \A i \in DOMAIN path : pattern[i] \in {path[i], Wild}

(* A static segment wins over a parameter, from left to right. *)
Beats(p, q) ==
  \E i \in DOMAIN p \cap DOMAIN q :
    /\ p[i] # Wild /\ q[i] = Wild
    /\ \A j \in 1 .. i - 1 : p[j] = q[j]

(* A tree maps its patterns to the metadata of their routes. *)
Metadata(e) == [handler_id |-> e.handler_id, dto |-> e.dto]

EmptyTree == [p \in {} |-> p]

(* Mutant: a later route takes the place of an earlier one. *)
InsertOrReplace(tree, e) ==
  [p \in DOMAIN tree \cup {e.pattern} |->
     IF p = e.pattern THEN Metadata(e) ELSE tree[p]]

(* insert's error is ignored: a pattern that is already there stays. *)
Insert(tree, e) ==
  [p \in DOMAIN tree \cup {e.pattern} |->
     IF p \in DOMAIN tree THEN tree[p] ELSE Metadata(e)]

(* QuillRouter::new: the entries are inserted in the order of the manifest. *)
AddRoute(routers, e) ==
  [m \in DOMAIN routers \cup {e.method} |->
     IF m # e.method THEN routers[m]
     ELSE Insert(IF m \in DOMAIN routers THEN routers[m] ELSE EmptyTree, e)]

NewRouter(manifest) == FoldLeft(AddRoute, EmptyTree, manifest)

Hits(tree, path) == {p \in DOMAIN tree : Covers(p, path)}

At(tree, path) ==
  CHOOSE p \in Hits(tree, path) :
    \A q \in Hits(tree, path) : q = p \/ Beats(p, q)

MatchRoute(routers, method, path) ==
  IF method \in DOMAIN routers /\ Hits(routers[method], path) # {}
  THEN [is |-> "ok", value |-> routers[method][At(routers[method], path)]]
  ELSE [is |-> IF \E m \in DOMAIN routers \ {method} : Hits(routers[m], path) # {}
               THEN "not_allowed" ELSE "not_found"]

(* What the manifest asks for: among the routes of the method that cover   *)
(* the path, the one whose pattern beats the others, and of the routes     *)
(* with that pattern the first; 405 if only other methods have the path.   *)
IsAnswer(manifest, method, path, x) ==
  LET covering(m) == {i \in DOMAIN manifest :
                        manifest[i].method = m /\ Covers(manifest[i].pattern, path)}
  IN  CASE x.is = "ok" ->
             \E i \in covering(method) :
               /\ x.value = Metadata(manifest[i])
               /\ \A j \in covering(method) :
                    IF manifest[j].pattern = manifest[i].pattern THEN i <= j
                    ELSE Beats(manifest[i].pattern, manifest[j].pattern)
        [] x.is = "not_allowed" ->
             /\ covering(method) = {}
             /\ \E m \in Methods : covering(m) # {}
        [] x.is = "not_found" -> \A m \in Methods : covering(m) = {}
============================================================================
