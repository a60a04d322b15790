---------------------------- MODULE ServerStats ----------------------------
(***************************************************************************)
(* The metrics of a worker process (lib.rs): three counters that the       *)
(* handler futures update, and quill_server_stats, which reads them and    *)
(* the depth of the request channel.                                       *)
(*                                                                         *)
(* Every access is an atomic operation of its own with Relaxed ordering:   *)
(* two of them on different counters may take effect in either order, so   *)
(* handle_request leaves a set of updates before the inner handler runs,   *)
(* and another after it, and quill_server_stats a set of loads.  The PHP   *)
(* thread is inside the call meanwhile, and polls no request.              *)
(*                                                                         *)
(* The inner handler is RequestBridge's; here it takes some time, and may  *)
(* send the request to PHP.                                                *)
(***************************************************************************)
EXTENDS Naturals, FiniteSets, FiniteSetsExt

CONSTANTS
  Requests,    \* the HTTP requests the process ever receives
  MaxLatency   \* the longest a request takes

ASSUME RequestsAssumption == IsFiniteSet(Requests)
ASSUME LatencyAssumption  == MaxLatency \in Nat

VARIABLES
  stage,    \* where the future of each request is
  left,     \* the updates of its stage that have not taken effect
  took,     \* how long it took, 0 before it is known
  queue,    \* requests in the channel
  total,    \* TOTAL_REQUESTS
  active,   \* ACTIVE_REQUESTS
  latency,  \* TOTAL_LATENCY_US
  calling,  \* PHP is inside a stats call
  loads,    \* the loads it has not made
  seen,     \* what it has loaded
  since     \* the futures and the channel when it began (history)

vars == <<stage, left, took, queue, total, active, latency, calling, loads, seen, since>>
futureVars  == <<stage, left, took, queue>>
counterVars == <<total, active, latency>>
statsVars   == <<calling, loads, seen, since>>

Counters == {"total", "active", "latency", "queue"}
Stages   == {"new", "arriving", "serving", "sent", "leaving", "done", "dropped"}

NothingSeen == [c \in Counters |-> 0]

NotBegun == [stage |-> [r \in Requests |-> "new"], left |-> [r \in Requests |-> {}],
             queue |-> {}]

Init ==
  /\ stage = [r \in Requests |-> "new"]
  /\ left  = [r \in Requests |-> {}]
  /\ took  = [r \in Requests |-> 0]
  /\ queue = {}
  /\ total = 0 /\ active = 0 /\ latency = 0
  /\ calling = FALSE /\ loads = {} /\ seen = NothingSeen /\ since = NotBegun
-----------------------------------------------------------------------------
(* handle_request. *)

Step(r, from, to, updates) ==
  /\ stage[r] = from /\ left[r] = {}
  /\ stage' = [stage EXCEPT ![r] = to]
  /\ left'  = [left EXCEPT ![r] = updates]

(* Mutants: the increment of ACTIVE_REQUESTS, of TOTAL_REQUESTS is missing. *)
ArriveInactive(r) == /\ Step(r, "new", "arriving", {"total"})
                     /\ UNCHANGED <<took, queue, counterVars, statsVars>>

ArriveUncounted(r) == /\ Step(r, "new", "arriving", {"active"})
                      /\ UNCHANGED <<took, queue, counterVars, statsVars>>

Arrive(r) == /\ Step(r, "new", "arriving", {"total", "active"})
             /\ UNCHANGED <<took, queue, counterVars, statsVars>>

Serve(r) == /\ Step(r, "arriving", "serving", {})
            /\ UNCHANGED <<took, queue, counterVars, statsVars>>

Send(r) == /\ Step(r, "serving", "sent", {})
           /\ queue' = queue \cup {r}
           /\ UNCHANGED <<took, counterVars, statsVars>>

(* Mutant: an answer that does not come from PHP is not timed. *)
LeaveUntimed(r, d) == /\ \/ Step(r, "serving", "leaving", {"active"})
                         \/ Step(r, "sent", "leaving", {"latency", "active"})
                      /\ took' = [took EXCEPT ![r] = d]
                      /\ UNCHANGED <<queue, counterVars, statsVars>>

Leave(r, d) == /\ \E from \in {"serving", "sent"} :
                    Step(r, from, "leaving", {"latency", "active"})
               /\ took' = [took EXCEPT ![r] = d]
               /\ UNCHANGED <<queue, counterVars, statsVars>>

End(r) == /\ Step(r, "leaving", "done", {})
          /\ UNCHANGED <<took, queue, counterVars, statsVars>>

(* The client went away while the inner handler awaited: what follows the  *)
(* await never happens.                                                    *)
Drop(r) == /\ \E from \in {"serving", "sent"} : Step(r, from, "dropped", {})
           /\ UNCHANGED <<took, queue, counterVars, statsVars>>

Update(r, c) ==
  /\ c \in left[r]
  /\ left' = [left EXCEPT ![r] = @ \ {c}]
  /\ CASE c = "total"   -> total' = total + 1 /\ UNCHANGED <<active, latency>>
       [] c = "latency" -> latency' = latency + took[r] /\ UNCHANGED <<total, active>>
       [] c = "active"  -> /\ active' = IF stage[r] = "arriving" THEN active + 1
                                                                 ELSE active - 1
                           /\ UNCHANGED <<total, latency>>
  /\ UNCHANGED <<stage, took, queue, statsVars>>
-----------------------------------------------------------------------------
(* The calls of the PHP thread. *)

Poll(r) == /\ ~calling /\ r \in queue
           /\ queue' = queue \ {r}
           /\ UNCHANGED <<stage, left, took, counterVars, statsVars>>

StatsBegin ==
  /\ ~calling
  /\ calling' = TRUE /\ loads' = Counters
  /\ since' = [stage |-> stage, left |-> left, queue |-> queue]
  /\ UNCHANGED <<futureVars, counterVars, seen>>

(* Mutant: every active request is taken to be in the queue. *)
LoadActiveAsQueue(c) ==
  /\ c \in loads
  /\ loads' = loads \ {c}
  /\ seen'  = [seen EXCEPT ![c] = CASE c = "total"   -> total
                                    [] c = "latency" -> latency
                                    [] c \in {"active", "queue"} -> active]
  /\ UNCHANGED <<futureVars, counterVars, calling, since>>

Load(c) ==
  /\ c \in loads
  /\ loads' = loads \ {c}
  /\ seen'  = [seen EXCEPT ![c] = CASE c = "total"   -> total
                                    [] c = "active"  -> active
                                    [] c = "latency" -> latency
                                    [] c = "queue"   -> Cardinality(queue)]
  /\ UNCHANGED <<futureVars, counterVars, calling, since>>

(* The call returns latency \div total as the average, 0 for no requests. *)
StatsEnd ==
  /\ calling /\ loads = {}
  /\ calling' = FALSE /\ seen' = NothingSeen /\ since' = NotBegun
  /\ UNCHANGED <<futureVars, counterVars, loads>>
-----------------------------------------------------------------------------
Next == \/ \E r \in Requests :
             \/ Arrive(r) \/ Serve(r) \/ Send(r) \/ End(r) \/ Drop(r) \/ Poll(r)
             \/ \E d \in 0 .. MaxLatency : Leave(r, d)
             \/ \E c \in Counters : Update(r, c)
        \/ StatsBegin \/ StatsEnd
        \/ \E c \in Counters : Load(c)

Spec == Init /\ [][Next]_vars
-----------------------------------------------------------------------------
(* Properties. *)

(* The types of the variables. *)
TypeOK ==
  /\ stage \in [Requests -> Stages]
  /\ left  \in [Requests -> SUBSET {"total", "active", "latency"}]
  /\ took  \in [Requests -> 0 .. MaxLatency]
  /\ queue \in SUBSET Requests
  /\ total \in Nat /\ active \in Nat /\ latency \in Nat
  /\ calling \in BOOLEAN
  /\ loads \in SUBSET Counters
  /\ seen  \in [Counters -> Nat]

(* The requests each counter counts, in the futures f.                     *)
Entered(f) == {r \in Requests : f.stage[r] # "new"}
Arrived(f) == {r \in Requests : f.stage[r] # "new" /\ "total" \notin f.left[r]}
Counted(f) == {r \in Requests :
                 \/ f.stage[r] = "arriving" /\ "active" \notin f.left[r]
                 \/ f.stage[r] \in {"serving", "sent", "dropped"}
                 \/ f.stage[r] = "leaving" /\ "active" \in f.left[r]}
Timed(f)   == {r \in Requests :
                 f.stage[r] \in {"leaving", "done"} /\ "latency" \notin f.left[r]}

Futures == [stage |-> stage, left |-> left, queue |-> queue]
TimeOf(rs) == MapThenSumSet(LAMBDA r : took[r], rs)

Reported == calling /\ loads = {}

(* Each figure of a report was right at some moment of the call, though    *)
(* the moments differ: it lies between what was settled before the call    *)
(* and what it had become at its end.  Every client that went away stays   *)
(* active for ever, in every report.                                       *)
EachFigureIsOfTheCall ==
  Reported =>
    /\ Cardinality(Arrived(since)) <= seen.total
    /\ seen.total <= Cardinality(Arrived(Futures))
    /\ Cardinality(Counted(since) \cap Counted(Futures)) <= seen.active
    /\ seen.active <= Cardinality({r \in Entered(Futures) : since.stage[r] # "done"})
    /\ TimeOf(Timed(since)) <= seen.latency
    /\ seen.latency <= TimeOf(Timed(Futures))
    /\ Cardinality(since.queue) <= seen.queue
    /\ seen.queue <= Cardinality(queue)

(* Divided sums of different moments: the average exceeds the longest      *)
(* latency by no more than the requests that were counted during the call  *)
(* bring, so not at all if none was.                                       *)
AverageIsBounded ==
  Reported => seen.latency
                <= MaxLatency * (seen.total + Cardinality(Arrived(Futures) \ Arrived(since)))

(* No report says that more requests are active than have arrived, except  *)
(* for those that were arriving during the call.                           *)
ActiveWithinTotal ==
  Reported => seen.active
                <= seen.total + Cardinality(Entered(Futures) \ Arrived(since))

(* If no request moved during the call, the report is exact.               *)
QuietReportIsExact ==
  Reported /\ since = Futures =>
    /\ seen.total   = Cardinality(Arrived(Futures))
    /\ seen.active  = Cardinality(Counted(Futures))
    /\ seen.latency = TimeOf(Timed(Futures))
    /\ seen.queue   = Cardinality(queue)
============================================================================
