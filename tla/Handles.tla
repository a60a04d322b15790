------------------------------ MODULE Handles -------------------------------
(***************************************************************************)
(* The handles PHP holds: routers and validator registries, which are      *)
(* reference counted, since the servers PHP starts share them.             *)
(*                                                                         *)
(* The FFI gives PHP a raw pointer that owns one reference, and free takes *)
(* it back.  listen gives a reference of its own to the state of the new   *)
(* server; that state is reference counted in turn, by the server's thread *)
(* and by every connection task of its runtime, and its last owner drops   *)
(* the references.  The other calls only borrow.                        *)
(*                                                                         *)
(* PHP's side of the contract is assumed: it frees a pointer once and does *)
(* not use it after that.  It need not ever free it.                       *)
(***************************************************************************)
EXTENDS Router, FfiBuffers, FiniteSets

CONSTANTS
  Routers,     \* the routers that are ever built
  Registries,  \* the registries that are ever made
  Servers,     \* the calls of quill_server_listen
  Tasks,       \* the connection tasks of their runtimes
  Manifests,   \* what routers are built from
  Paths,       \* the paths that are matched
  Cap,         \* size of the buffer PHP reads replies from
  Sizes,       \* the lengths of replies
  None

Objects == Routers \cup Registries

(* What the text of a reply says: the outcome of match_route, or of the     *)
(* validation of the body.                                                 *)
Kinds == {"ok", "not_allowed", "not_found", "valid", "errors"}

ASSUME ObjectAssumption   == /\ None \notin Objects \cup Servers \cup Tasks
                             /\ Routers \cap Registries = {}
ASSUME FiniteAssumption   == IsFiniteSet(Servers) /\ IsFiniteSet(Tasks)
ASSUME ManifestAssumption == Manifests \subseteq Seq(RouteEntry)
ASSUME PathAssumption     == Paths \subseteq Seq(Segments)
ASSUME BufferAssumption   == /\ Cap \in Nat \ {0} /\ Sizes \subseteq Nat \ {0}
                             /\ Kinds \subseteq Bytes \ {Nul}

VARIABLES
  made,      \* objects that were allocated
  held,      \* those whose pointer PHP has and has not freed
  count,     \* strong count of each Arc, 0 for memory that was released
  manifest,  \* what each router was built from (history)
  table,     \* the trees of each router
  thread,    \* the thread of each server
  uses,      \* the objects the state of each server refers to
  refs,      \* strong count of the state of each server
  task,      \* the server whose state a connection task owns, or None
  out,       \* the buffer PHP passes to the calls that reply
  said       \* the text of the last call, if it gave one (history)

vars == <<made, held, count, manifest, table, thread, uses, refs, task, out, said>>
objectVars == <<made, held, manifest, table>>
serverVars == <<thread, uses, refs, task>>
replyVars  == <<out, said>>

Init ==
  /\ made = {} /\ held = {}
  /\ count    = [o \in Objects |-> 0]
  /\ manifest = [o \in Routers |-> <<>>]
  /\ table    = [o \in Routers |-> EmptyTree]
  /\ thread   = [s \in Servers |-> "none"]
  /\ uses     = [s \in Servers |-> {}]
  /\ refs     = [s \in Servers |-> 0]
  /\ task     = [k \in Tasks |-> None]
  /\ out = [i \in 0 .. Cap - 1 |-> Nul]
  /\ said = None
-----------------------------------------------------------------------------
(* The calls of the PHP thread. *)

(* Arc::into_raw of a new Arc; a manifest that does not parse gives null. *)
Build(o, m) ==
  /\ o \notin made
  /\ made'     = made \cup {o}
  /\ held'     = held \cup {o}
  /\ count'    = [count EXCEPT ![o] = 1]
  /\ manifest' = [manifest EXCEPT ![o] = m]
  /\ table'    = [table EXCEPT ![o] = NewRouter(m)]
  /\ UNCHANGED <<serverVars, replyVars>>

New(o) ==
  /\ o \notin made
  /\ made'  = made \cup {o}
  /\ held'  = held \cup {o}
  /\ count' = [count EXCEPT ![o] = 1]
  /\ UNCHANGED <<manifest, table, serverVars, replyVars>>

Free(o) ==
  /\ o \in held
  /\ held'  = held \ {o}
  /\ count' = [count EXCEPT ![o] = @ - 1]
  /\ UNCHANGED <<made, manifest, table, serverVars, replyVars>>

(* Mutant: match takes the Arc out of the pointer and puts a clone back. *)
MatchCloning(o, method, path, size) ==
  /\ o \in held
  /\ count' = [count EXCEPT ![o] = @ + 1]
  /\ UNCHANGED <<objectVars, serverVars, replyVars>>

Reply(kind, size) ==
  LET text == [i \in 1 .. size |-> kind]
  IN  out' = CopyOut(out, text, Cap) /\ said' = text

(* match borrows the router, and writes the parameters it found. *)
Match(o, method, path, size) ==
  /\ o \in held
  /\ IF MatchRoute(table[o], method, path).is = "ok" THEN Reply("ok", size)
     ELSE UNCHANGED out /\ said' = None
  /\ UNCHANGED <<objectVars, count, serverVars>>

(* dispatch borrows the registry too, if it gets one, for a route with a   *)
(* DTO; it always writes a text.                                           *)
Dispatch(o, v, method, path, verdict, size) ==
  /\ o \in held /\ v \in held \cup {None}
  /\ LET x == MatchRoute(table[o], method, path)
     IN  Reply(IF x.is = "ok" /\ v # None /\ x.value.dto THEN verdict ELSE x.is, size)
  /\ UNCHANGED <<objectVars, count, serverVars>>

(* The data, with 0, or the errors, with 1. *)
Validate(v, verdict, size) ==
  /\ v \in held
  /\ Reply(verdict, size)
  /\ UNCHANGED <<objectVars, count, serverVars>>

(* Mutant: the Arc made from the pointer is not turned back. *)
ListenConsuming(s, os) ==
  /\ thread[s] = "none"
  /\ os \subseteq held
  /\ Cardinality(os \cap Routers) = 1 /\ Cardinality(os \cap Registries) <= 1
  /\ uses'   = [uses EXCEPT ![s] = os]
  /\ refs'   = [refs EXCEPT ![s] = 1]
  /\ thread' = [thread EXCEPT ![s] = "running"]
  /\ UNCHANGED <<objectVars, count, task, replyVars>>

(* from_raw, clone, into_raw: one reference more for each; the state is    *)
(* moved to the new thread.                                                *)
Listen(s, os) ==
  /\ thread[s] = "none"
  /\ os \subseteq held
  /\ Cardinality(os \cap Routers) = 1 /\ Cardinality(os \cap Registries) <= 1
  /\ count'  = [o \in Objects |-> count[o] + (IF o \in os THEN 1 ELSE 0)]
  /\ uses'   = [uses EXCEPT ![s] = os]
  /\ refs'   = [refs EXCEPT ![s] = 1]
  /\ thread' = [thread EXCEPT ![s] = "running"]
  /\ UNCHANGED <<objectVars, task, replyVars>>
-----------------------------------------------------------------------------
(* The servers. *)

(* A connection task, and the future of a request in it, own the state. *)
Accept(s, k) ==
  /\ thread[s] = "running" /\ task[k] = None
  /\ task' = [task EXCEPT ![k] = s]
  /\ refs' = [refs EXCEPT ![s] = @ + 1]
  /\ UNCHANGED <<objectVars, count, thread, uses, replyVars>>

(* Mutant: the thread drops what the state refers to, not the state. *)
DropStateAtOnce(s) ==
  /\ refs'  = [refs EXCEPT ![s] = @ - 1]
  /\ count' = [o \in Objects |-> count[o] - (IF o \in uses[s] THEN 1 ELSE 0)]

(* The last owner of a state drops its references to the objects. *)
DropState(s) ==
  /\ refs'  = [refs EXCEPT ![s] = @ - 1]
  /\ count' = [o \in Objects |->
                 count[o] - (IF refs[s] = 1 /\ o \in uses[s] THEN 1 ELSE 0)]

EndTask(k) ==
  /\ task[k] # None
  /\ DropState(task[k])
  /\ task' = [task EXCEPT ![k] = None]
  /\ UNCHANGED <<objectVars, thread, uses, replyVars>>

(* start_server returned, after a failure or a shutdown; tasks that are    *)
(* left are dropped by the runtime in steps of their own.                  *)
EndServer(s) ==
  /\ thread[s] = "running"
  /\ DropState(s)
  /\ thread' = [thread EXCEPT ![s] = "ended"]
  /\ UNCHANGED <<objectVars, uses, task, replyVars>>
-----------------------------------------------------------------------------
Php == \/ \E o \in Routers, m \in Manifests : Build(o, m)
       \/ \E o \in Registries : New(o)
       \/ \E o \in Objects : Free(o)
       \/ \E o \in Routers, method \in Methods, path \in Paths, size \in Sizes :
            \/ Match(o, method, path, size)
            \/ \E v \in Registries \cup {None}, verdict \in {"valid", "errors"} :
                 Dispatch(o, v, method, path, verdict, size)
       \/ \E v \in Registries, verdict \in {"valid", "errors"}, size \in Sizes :
            Validate(v, verdict, size)
       \/ \E s \in Servers, os \in SUBSET Objects : Listen(s, os)

Next == \/ Php
        \/ \E s \in Servers : EndServer(s) \/ \E k \in Tasks : Accept(s, k)
        \/ \E k \in Tasks : EndTask(k)

Spec == Init /\ [][Next]_vars
-----------------------------------------------------------------------------
(* Properties. *)

(* The types of the variables. *)
TypeOK ==
  /\ made   \in SUBSET Objects
  /\ held   \in SUBSET made
  /\ count  \in [Objects -> Nat]
  /\ thread \in [Servers -> {"none", "running", "ended"}]
  /\ uses   \in [Servers -> SUBSET Objects]
  /\ refs   \in [Servers -> Nat]
  /\ task   \in [Tasks -> Servers \cup {None}]
  /\ out    \in Buffers(Cap)
  /\ said   \in {None} \cup Texts

One(b) == IF b THEN 1 ELSE 0

(* Those who own a reference beside PHP, and beside the thread.            *)
Users(o)      == {s \in Servers : refs[s] > 0 /\ o \in uses[s]}
OwnerTasks(s) == {k \in Tasks : task[k] = s}

(* Every count is the number of its owners, so an object is released when  *)
(* its last owner is gone and not before: no call leaks a reference.       *)
CountsAreExact ==
  /\ \A o \in Objects : count[o] = One(o \in held) + Cardinality(Users(o))
  /\ \A s \in Servers :
       refs[s] = One(thread[s] = "running") + Cardinality(OwnerTasks(s))

(* What anyone may still touch is there: PHP's pointers, and the router    *)
(* and the registry of every server that runs or has tasks left, whatever  *)
(* PHP freed in the meantime.                                              *)
NothingUsedAfterFree ==
  /\ \A o \in held : count[o] > 0
  /\ \A s \in Servers :
       thread[s] = "running" \/ OwnerTasks(s) # {}
         => \A o \in uses[s] : count[o] > 0

(* A router answers every method and path as its manifest asks, conflicts  *)
(* and routes under other methods included.                                *)
RoutesMatchManifest ==
  \A o \in made \cap Routers, method \in Methods, path \in Paths :
    IsAnswer(manifest[o], method, path, MatchRoute(table[o], method, path))

(* The text PHP reads after a call that returned 0 is the whole reply, or  *)
(* a piece of it that fills the buffer; no byte of an older reply is read. *)
(* So a text that does not fill the buffer is whole.  One that fills it    *)
(* may be cut: a reply of just Cap - 1 bytes looks the same.               *)
TextIsWholeOrFull ==
  said # None => WholeOrFull(out, said, Cap)
============================================================================
