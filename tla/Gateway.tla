------------------------------ MODULE Gateway ------------------------------
(***************************************************************************)
(* What the request bridge promises, without ids, channels, threads or     *)
(* oneshots: every request is refused by the server itself or submitted to *)
(* the PHP handlers, a submitted request is run at most once, and its      *)
(* client gets the result of its own run, the server's answer in its       *)
(* place, or nothing because it went away.  A response published for a     *)
(* handler answers its bare requests, those that carry nothing the handler *)
(* would have to see, from then on and no other request ever.              *)
(***************************************************************************)
CONSTANTS Requests, Handlers,
          HandlerOf,  \* the handler each request is for
          Bare        \* requests without parameters and without a DTO

VARIABLES
  published,  \* handlers with a response of their own
  phase,      \* "idle", "open" while the client is owed an answer, "over"
  submitted,  \* requests PHP will see, or has seen
  run,        \* what became of the handler run of each request
  settled,    \* requests whose own result waits for their client
  reply       \* who answered the client

vars == <<published, phase, submitted, run, settled, reply>>

Init ==
  /\ published = {}
  /\ phase     = [r \in Requests |-> "idle"]
  /\ submitted = {}
  /\ run       = [r \in Requests |-> "none"]
  /\ settled   = {}
  /\ reply     = [r \in Requests |-> "none"]

Publish(h) ==
  /\ published' = published \cup {h}
  /\ UNCHANGED <<phase, submitted, run, settled, reply>>

Published(r) == r \in Bare /\ HandlerOf[r] \in published

PublishedReplies(r) ==
  /\ phase[r] = "idle"
  /\ Published(r)
  /\ phase' = [phase EXCEPT ![r] = "over"]
  /\ reply' = [reply EXCEPT ![r] = "published"]
  /\ UNCHANGED <<published, submitted, run, settled>>

Open(r) ==
  /\ phase[r] = "idle"
  /\ ~Published(r)
  /\ phase' = [phase EXCEPT ![r] = "open"]
  /\ UNCHANGED <<published, submitted, run, settled, reply>>

Submit(r) ==
  /\ phase[r] = "open"
  /\ submitted' = submitted \cup {r}
  /\ UNCHANGED <<published, phase, run, settled, reply>>

(* The server answers by itself: it refuses a request PHP will never see,  *)
(* or gives up waiting for one it submitted.                               *)
ServerReplies(r) ==
  /\ phase[r] \in {"idle", "open"}
  /\ phase' = [phase EXCEPT ![r] = "over"]
  /\ reply' = [reply EXCEPT ![r] = "server"]
  /\ UNCHANGED <<published, submitted, run, settled>>

HandlerReplies(r) ==
  /\ phase[r] = "open"
  /\ r \in settled
  /\ phase' = [phase EXCEPT ![r] = "over"]
  /\ reply' = [reply EXCEPT ![r] = "handler"]
  /\ UNCHANGED <<published, submitted, run, settled>>

Leave(r) ==
  /\ phase[r] = "open"
  /\ phase' = [phase EXCEPT ![r] = "over"]
  /\ UNCHANGED <<published, submitted, run, settled, reply>>

Start(r) ==
  /\ r \in submitted
  /\ run[r] = "none"
  /\ run' = [run EXCEPT ![r] = "held"]
  /\ UNCHANGED <<published, phase, submitted, settled, reply>>

(* The run of r ends, or goes on after it has given its result. *)
Settle(r) ==
  /\ run[r] = "held"
  /\ phase[r] = "open"
  /\ settled' = settled \cup {r}
  /\ run' \in {run, [run EXCEPT ![r] = "answered"]}
  /\ UNCHANGED <<published, phase, submitted, reply>>

(* A result nobody waits for any more, or no result at all. *)
Stop(r) ==
  /\ run[r] = "held"
  /\ \E end \in {"answered", "abandoned"} : run' = [run EXCEPT ![r] = end]
  /\ UNCHANGED <<published, phase, submitted, settled, reply>>

Next ==
  \/ \E h \in Handlers : Publish(h)
  \/ \E r \in Requests :
       \/ PublishedReplies(r) \/ Open(r) \/ Submit(r) \/ ServerReplies(r)
       \/ HandlerReplies(r) \/ Leave(r) \/ Start(r) \/ Settle(r) \/ Stop(r)

Spec == Init /\ [][Next]_vars
============================================================================
