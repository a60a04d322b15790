-------------------------- MODULE BridgeRefinement --------------------------
(***************************************************************************)
(* The request bridge implements Gateway as long as the id counter makes   *)
(* no full turn.                                                           *)
(***************************************************************************)
EXTENDS RequestBridge

PhaseOf(r) == CASE stage[r] = "new"                -> "idle"
                [] stage[r] \in {"done", "dropped"} -> "over"
                [] OTHER                            -> "open"

(* A request parked in front of the channel counts as submitted. *)
Submitted == {r \in Requests :
                ticket[r] # 0 /\ stage[r] \notin {"reading", "sending"}}

(* "empty" and a foreign result are no answers of Gateway. *)
ReplyOf(r) == CASE answer[r] = "none"   -> "none"
                [] answer[r] = "php"    -> "handler"
                [] answer[r] = "native" -> "published"
                [] answer[r] = "empty"  -> "empty"
                [] OTHER                -> "server"

BareRequests == {r \in Requests : /\ Route[r].match = "ok"
                                  /\ ~Route[r].params
                                  /\ ~Route[r].dto}

G == INSTANCE Gateway WITH
       HandlerOf <- [r \in Requests |-> Route[r].handler],
       Bare      <- BareRequests,
       published <- native,
       phase     <- [r \in Requests |-> PhaseOf(r)],
       submitted <- Submitted,
       run       <- job,
       settled   <- {r \in Requests : slot[r] = r},
       reply     <- [r \in Requests |-> ReplyOf(r)]

(* Clients get the result of their own request's run or an answer of the   *)
(* server, never another client's result and never the empty response;     *)
(* PHP runs only submitted requests, each at most once; a preloaded        *)
(* response answers every request of its handler that has neither          *)
(* parameters nor a DTO, and no other.                                     *)
ImplementsGateway == G!Spec
============================================================================
