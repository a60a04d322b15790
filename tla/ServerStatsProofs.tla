------------------------- MODULE ServerStatsProofs --------------------------
(***************************************************************************)
(* Proofs about ServerStats for any number of requests and any longest     *)
(* latency.  The total latency is a sum over a set: FoldLemmas.            *)
(***************************************************************************)
EXTENDS ServerStats, FoldLemmas

(* The updates a stage can leave. *)
LeftInv ==
  \A r \in Requests :
    /\ stage[r] = "arriving" => left[r] \subseteq {"total", "active"}
    /\ stage[r] = "leaving"  => left[r] \subseteq {"latency", "active"}
    /\ stage[r] \notin {"arriving", "leaving"} => left[r] = {}

(* The requests that have entered, arrived and count as active now, those  *)
(* that had arrived when the call began, and those whose time is counted.  *)
EnteredNow  == {r \in Requests : stage[r] # "new"}
ArrivedNow  == {r \in Requests : stage[r] # "new" /\ "total" \notin left[r]}
CountedNow  == {r \in Requests :
                  \/ stage[r] = "arriving" /\ "active" \notin left[r]
                  \/ stage[r] \in {"serving", "sent", "dropped"}
                  \/ stage[r] = "leaving" /\ "active" \in left[r]}
ArrivedThen == Arrived(since)
TimedNow    == {r \in Requests : stage[r] \in {"leaving", "done"} /\ "latency" \notin left[r]}

(* A request is not counted as active yet, then it is, then no longer.     *)
Before(f) == {r \in Requests :
                \/ f.stage[r] = "new"
                \/ f.stage[r] = "arriving" /\ "active" \in f.left[r]}
Beyond(f) == {r \in Requests :
                \/ f.stage[r] = "leaving" /\ "active" \notin f.left[r]
                \/ f.stage[r] = "done"}

CountersInv == /\ total   = Cardinality(ArrivedNow)
               /\ active  = Cardinality(CountedNow)
               /\ latency = SumOver(took, TimedNow)

(* No future goes back from f to g, and no request leaves the channel.     *)
Progress(f, g) ==
  /\ Entered(f) \subseteq Entered(g) /\ Arrived(f) \subseteq Arrived(g)
  /\ Timed(f) \subseteq Timed(g) /\ f.queue \subseteq g.queue
  /\ Before(g) \subseteq Before(f) /\ Beyond(f) \subseteq Beyond(g)

(* Active throughout the call, and at some moment of it.                   *)
ActiveAllAlong == Counted(since) \cap CountedNow
ActiveAtSome   == Counted(since) \cup (Before(since) \ Before(Futures))

(* What a call has loaded: each figure lies between what it was when the   *)
(* call began and what it has become.                                      *)
SeenInv ==
  /\ "total" \notin loads => /\ Cardinality(ArrivedThen) <= seen["total"]
                             /\ seen["total"] <= Cardinality(ArrivedNow)
  /\ "active" \notin loads => /\ Cardinality(ActiveAllAlong) <= seen["active"]
                              /\ seen["active"] <= Cardinality(ActiveAtSome)
  /\ "latency" \notin loads => /\ SumOver(took, Timed(since)) <= seen["latency"]
                               /\ seen["latency"] <= SumOver(took, TimedNow)
  /\ "queue" \notin loads => /\ Cardinality(since.queue) <= seen["queue"]
                             /\ seen["queue"] <= Cardinality(queue)

CallInv ==
  /\ since.stage \in [Requests -> Stages]
  /\ Progress(since, Futures)
  /\ calling = FALSE => since = NotBegun
  /\ calling = TRUE => SeenInv

IInv == TypeOK /\ LeftInv /\ CountersInv /\ CallInv

LEMMA Sizes ==
  \A s \in SUBSET Requests :
    /\ IsFiniteSet(s) /\ Cardinality(s) \in Nat
    /\ \A t \in SUBSET s : Cardinality(t) <= Cardinality(s)
BY RequestsAssumption, FS_Subset, FS_CardinalityType

LEMMA Times ==
  ASSUME NEW times \in [Requests -> 0 .. MaxLatency]
  PROVE  \A rs \in SUBSET Requests :
           /\ SumOver(times, rs) \in Nat
           /\ SumOver(times, rs) <= MaxLatency * Cardinality(rs)
           /\ \A ss \in SUBSET rs : SumOver(times, ss) <= SumOver(times, rs)
           /\ \A t : (\A r \in rs : t[r] = times[r]) => SumOver(t, rs) = SumOver(times, rs)
<1> SUFFICES ASSUME NEW rs \in SUBSET Requests
             PROVE  /\ SumOver(times, rs) \in Nat
                    /\ SumOver(times, rs) <= MaxLatency * Cardinality(rs)
                    /\ \A ss \in SUBSET rs : SumOver(times, ss) <= SumOver(times, rs)
                    /\ \A t : (\A r \in rs : t[r] = times[r]) =>
                                SumOver(t, rs) = SumOver(times, rs)
  OBVIOUS
<1>1. IsFiniteSet(rs) /\ \A r \in rs : times[r] \in 0 .. MaxLatency /\ times[r] \in Nat
  BY Sizes, LatencyAssumption
<1> QED BY <1>1, LatencyAssumption, SumType, SumBound, SumSubset, SumSame

LEMMA SetsOfRequests ==
  /\ EnteredNow \subseteq Requests /\ ArrivedNow \subseteq Requests
  /\ CountedNow \subseteq Requests /\ TimedNow \subseteq Requests
  /\ ArrivedThen \subseteq Requests /\ Timed(since) \subseteq Requests
  /\ ActiveAllAlong \subseteq Requests /\ ActiveAtSome \subseteq Requests
BY DEF EnteredNow, ArrivedNow, CountedNow, TimedNow, ArrivedThen, Arrived, Timed, Counted,
       ActiveAllAlong, ActiveAtSome, Before

(* The sets of the properties are those of now. *)
LEMMA NowSets ==
  /\ Entered(Futures) = EnteredNow /\ Arrived(Futures) = ArrivedNow
  /\ Counted(Futures) = CountedNow /\ Timed(Futures) = TimedNow /\ Futures.queue = queue
BY DEF Entered, Arrived, Counted, Timed, Futures, EnteredNow, ArrivedNow, CountedNow, TimedNow

(* Every request is in one of the three phases. *)
LEMMA Phases ==
  ASSUME NEW f, f.stage \in [Requests -> Stages]
  PROVE  /\ Counted(f) = Requests \ (Before(f) \cup Beyond(f))
         /\ Before(f) \cap Beyond(f) = {}
<1>1. ASSUME NEW r \in Requests
      PROVE  /\ r \in Counted(f) <=> r \notin Before(f) /\ r \notin Beyond(f)
             /\ r \notin Before(f) \/ r \notin Beyond(f)
  <2>1. f.stage[r] \in Stages
    OBVIOUS
  <2> QED BY <2>1 DEF Stages, Counted, Before, Beyond
<1>2. Counted(f) \subseteq Requests /\ Before(f) \subseteq Requests
  BY DEF Counted, Before
<1> QED BY <1>1, <1>2

LEMMA ProgressOn ==
  ASSUME NEW f, NEW g, NEW h, Progress(f, g), Progress(g, h)
  PROVE  Progress(f, h)
BY DEF Progress

LEMMA NothingBegun == ASSUME NEW f PROVE Progress(NotBegun, f)
<1>1. /\ \A r \in Requests : NotBegun.stage[r] = "new"
      /\ NotBegun.queue = {}
  BY DEF NotBegun
<1>2. /\ Entered(NotBegun) = {} /\ Arrived(NotBegun) = {} /\ Timed(NotBegun) = {}
      /\ Before(NotBegun) = Requests /\ Beyond(NotBegun) = {}
  BY <1>1 DEF Entered, Arrived, Timed, Before, Beyond
<1>3. Before(f) \subseteq Requests
  BY DEF Before
<1> QED BY <1>1, <1>2, <1>3 DEF Progress

LEMMA InitIInv == Init => IInv
<1> SUFFICES ASSUME Init PROVE IInv
  OBVIOUS
<1>1. ArrivedNow = {} /\ CountedNow = {} /\ TimedNow = {}
  BY DEF Init, ArrivedNow, CountedNow, TimedNow
<1>2. TypeOK
  <2>1. /\ stage \in [Requests -> Stages]
        /\ left  \in [Requests -> SUBSET {"total", "active", "latency"}]
    BY DEF Init, Stages
  <2>2. took \in [Requests -> 0 .. MaxLatency]
    BY LatencyAssumption DEF Init
  <2>3. calling \in BOOLEAN /\ loads \in SUBSET Counters /\ seen \in [Counters -> Nat]
    BY DEF Init, NothingSeen
  <2>4. queue \in SUBSET Requests /\ total \in Nat /\ active \in Nat /\ latency \in Nat
    BY DEF Init
  <2> QED BY <2>1, <2>2, <2>3, <2>4 DEF TypeOK
<1>3. LeftInv
  BY DEF Init, LeftInv
<1>4. CountersInv
  <2>1. SumOver(took, {}) = 0
    BY SumEmpty
  <2> QED BY <1>1, <2>1, FS_EmptySet DEF Init, CountersInv
<1>5. CallInv
  <2>1. Progress(NotBegun, Futures)
    BY NothingBegun
  <2>2. NotBegun.stage \in [Requests -> Stages]
    BY DEF NotBegun, Stages
  <2> QED BY <2>1, <2>2 DEF Init, CallInv
<1> QED BY <1>2, <1>3, <1>4, <1>5 DEF IInv
-----------------------------------------------------------------------------
(* What a call has loaded stays within what it was and what it becomes, as *)
(* long as the futures only go on.                                         *)
LEMMA SeenStays ==
  ASSUME TypeOK, TypeOK', SeenInv, UNCHANGED statsVars, Progress(Futures, Futures'),
         Progress(since, Futures), \A r \in TimedNow : took'[r] = took[r]
  PROVE  SeenInv'
<1>1. UNCHANGED <<loads, seen, since>>
  BY DEF statsVars
<1>2. seen \in [Counters -> Nat] /\ seen["total"] \in Nat /\ seen["active"] \in Nat
        /\ seen["latency"] \in Nat /\ seen["queue"] \in Nat
  BY DEF TypeOK, Counters
<1>3. /\ ArrivedNow \in SUBSET ArrivedNow' /\ ArrivedNow' \in SUBSET Requests
      /\ TimedNow \in SUBSET TimedNow' /\ TimedNow' \in SUBSET Requests
      /\ queue \in SUBSET queue' /\ queue' \in SUBSET Requests
  <2>1. /\ Arrived(Futures') = ArrivedNow' /\ Timed(Futures') = TimedNow'
        /\ Futures'.queue = queue'
    BY DEF Arrived, Timed, Futures, ArrivedNow, TimedNow
  <2>2. ArrivedNow' \subseteq Requests /\ TimedNow' \subseteq Requests
    BY DEF ArrivedNow, TimedNow
  <2> QED BY <2>1, <2>2, NowSets DEF Progress, TypeOK
<1>4. /\ ActiveAtSome \in SUBSET ActiveAtSome' /\ ActiveAtSome' \in SUBSET Requests
      /\ ActiveAllAlong' \in SUBSET ActiveAllAlong /\ ActiveAllAlong \in SUBSET Requests
  <2>1. /\ ActiveAtSome' = Counted(since) \cup (Before(since) \ Before(Futures'))
        /\ ActiveAllAlong' = Counted(since) \cap Counted(Futures')
    BY <1>1 DEF ActiveAtSome, ActiveAllAlong, Counted, CountedNow, Before, Futures
  <2>2. Counted(since) \subseteq Requests \ Before(since)
    BY DEF Counted, Before
  <2>3. /\ Counted(Futures) = Requests \ (Before(Futures) \cup Beyond(Futures))
        /\ Counted(Futures') = Requests \ (Before(Futures') \cup Beyond(Futures'))
    <3>1. Futures.stage \in [Requests -> Stages] /\ Futures'.stage \in [Requests -> Stages]
      BY DEF Futures, TypeOK
    <3> QED BY <3>1, Phases
  <2>4. ActiveAtSome' \subseteq Requests
    BY <2>1 DEF Counted, Before
  <2> QED BY <2>1, <2>2, <2>3, <2>4, NowSets DEF Progress, ActiveAtSome, ActiveAllAlong
<1>5. "total" \notin loads' => /\ Cardinality(ArrivedThen') <= seen'["total"]
                               /\ seen'["total"] <= Cardinality(ArrivedNow')
  <2>1. ArrivedThen' = ArrivedThen
    BY <1>1 DEF ArrivedThen, Arrived
  <2>2. Cardinality(ArrivedNow) <= Cardinality(ArrivedNow')
          /\ Cardinality(ArrivedNow) \in Nat /\ Cardinality(ArrivedNow') \in Nat
    BY <1>3, Sizes
  <2> QED BY <1>1, <1>2, <2>1, <2>2 DEF SeenInv
<1>6. "active" \notin loads' => /\ Cardinality(ActiveAllAlong') <= seen'["active"]
                                /\ seen'["active"] <= Cardinality(ActiveAtSome')
  <2>1. /\ Cardinality(ActiveAllAlong') <= Cardinality(ActiveAllAlong)
        /\ Cardinality(ActiveAtSome) <= Cardinality(ActiveAtSome')
        /\ Cardinality(ActiveAllAlong') \in Nat /\ Cardinality(ActiveAllAlong) \in Nat
        /\ Cardinality(ActiveAtSome') \in Nat /\ Cardinality(ActiveAtSome) \in Nat
    BY <1>4, Sizes
  <2> QED BY <1>1, <1>2, <2>1 DEF SeenInv
<1>7. "latency" \notin loads' => /\ SumOver(took', Timed(since')) <= seen'["latency"]
                                 /\ seen'["latency"] <= SumOver(took', TimedNow')
  <2>1. took \in [Requests -> 0 .. MaxLatency] /\ took' \in [Requests -> 0 .. MaxLatency]
    BY DEF TypeOK
  <2>2. Timed(since) \subseteq TimedNow
    BY NowSets DEF Progress
  <2>3. SumOver(took', Timed(since)) = SumOver(took, Timed(since))
    BY <1>3, <2>1, <2>2, Times
  <2>4. SumOver(took', TimedNow) = SumOver(took, TimedNow)
    BY <1>3, <2>1, Times
  <2>5. SumOver(took', TimedNow) <= SumOver(took', TimedNow')
    BY <1>3, <2>1, Times
  <2>6. SumOver(took, TimedNow) \in Nat /\ SumOver(took', TimedNow') \in Nat
    BY <1>3, <2>1, Times
  <2> QED BY <1>1, <1>2, <2>3, <2>4, <2>5, <2>6 DEF SeenInv
<1>8. "queue" \notin loads' => /\ Cardinality(since'.queue) <= seen'["queue"]
                               /\ seen'["queue"] <= Cardinality(queue')
  <2>1. Cardinality(queue) <= Cardinality(queue')
          /\ Cardinality(queue) \in Nat /\ Cardinality(queue') \in Nat
    BY <1>3, Sizes
  <2> QED BY <1>1, <1>2, <2>1 DEF SeenInv
<1> QED BY <1>5, <1>6, <1>7, <1>8 DEF SeenInv

LEMMA CallStays ==
  ASSUME IInv, TypeOK', UNCHANGED statsVars,
         calling = TRUE => Progress(Futures, Futures'), \A r \in TimedNow : took'[r] = took[r]
  PROVE  CallInv'
<1>1. UNCHANGED <<calling, since>>
  BY DEF statsVars
<1>2. TypeOK /\ CallInv /\ calling \in BOOLEAN
  BY DEF IInv, TypeOK
<1>3. CASE calling = TRUE
  <2>1. Progress(since, Futures')
    BY <1>2, <1>3, ProgressOn DEF CallInv
  <2>2. SeenInv'
    BY <1>2, <1>3, SeenStays DEF CallInv
  <2> QED BY <1>1, <1>2, <1>3, <2>1, <2>2 DEF CallInv
<1>4. CASE calling = FALSE
  <2>1. since' = NotBegun /\ calling' = FALSE
    BY <1>1, <1>2, <1>4 DEF CallInv
  <2>2. Progress(NotBegun, Futures')
    BY NothingBegun
  <2>3. NotBegun.stage \in [Requests -> Stages]
    BY DEF NotBegun, Stages
  <2> QED BY <2>1, <2>2, <2>3 DEF CallInv
<1> QED BY <1>2, <1>3, <1>4
-----------------------------------------------------------------------------
(* The futures. *)

LEMMA Moving ==
  ASSUME IInv, NEW r \in Requests, NEW from, NEW to, NEW updates,
         Step(r, from, to, updates),
         \/ from = "new" /\ to = "arriving" /\ updates = {"total", "active"}
         \/ from = "arriving" /\ to = "serving" /\ updates = {}
         \/ from \in {"serving", "sent"} /\ to \in {"sent", "dropped"} /\ updates = {}
         \/ from \in {"serving", "sent"} /\ to = "leaving" /\ updates = {"latency", "active"}
         \/ from = "leaving" /\ to = "done" /\ updates = {},
         took' \in [Requests -> 0 .. MaxLatency],
         \A q \in Requests : (q = r /\ to = "leaving") \/ took'[q] = took[q],
         queue' \in SUBSET Requests, queue \subseteq queue',
         UNCHANGED <<counterVars, statsVars>>
  PROVE  IInv'
<1>1. /\ stage \in [Requests -> Stages]
      /\ left \in [Requests -> SUBSET {"total", "active", "latency"}]
      /\ took \in [Requests -> 0 .. MaxLatency]
  BY DEF IInv, TypeOK
<1>2. /\ stage[r] = from /\ left[r] = {}
      /\ stage' = [stage EXCEPT ![r] = to] /\ left' = [left EXCEPT ![r] = updates]
  BY DEF Step
<1>3. /\ stage'[r] = to /\ left'[r] = updates
      /\ \A q \in Requests \ {r} : stage'[q] = stage[q] /\ left'[q] = left[q]
  BY <1>1, <1>2
<1>4. TypeOK'
  <2>1. to \in Stages /\ updates \in SUBSET {"total", "active", "latency"}
    BY DEF Stages
  <2>2. UNCHANGED <<total, active, latency, calling, loads, seen>>
    BY DEF counterVars, statsVars
  <2> QED BY <1>1, <1>2, <2>1, <2>2 DEF IInv, TypeOK
<1>5. LeftInv'
  <2>1. ASSUME NEW q \in Requests
        PROVE  /\ stage'[q] = "arriving" => left'[q] \subseteq {"total", "active"}
               /\ stage'[q] = "leaving"  => left'[q] \subseteq {"latency", "active"}
               /\ stage'[q] \notin {"arriving", "leaving"} => left'[q] = {}
    <3>1. CASE q = r
      BY <1>3, <3>1
    <3>2. CASE q # r
      BY <1>3, <3>2 DEF IInv, LeftInv
    <3> QED BY <3>1, <3>2
  <2> QED BY <2>1 DEF LeftInv
<1>6. ASSUME NEW q \in Requests
      PROVE  /\ q \in Arrived(Futures') <=> q \in Arrived(Futures)
             /\ q \in Counted(Futures') <=> q \in Counted(Futures)
             /\ q \in Timed(Futures') <=> q \in Timed(Futures)
             /\ q \in Before(Futures') <=> q \in Before(Futures)
             /\ q \in Beyond(Futures') <=> q \in Beyond(Futures)
             /\ q \in Entered(Futures) => q \in Entered(Futures')
             /\ q \in TimedNow => took'[q] = took[q]
  <2>1. CASE q = r
    BY <1>2, <1>3, <2>1 DEF Arrived, Counted, Timed, Before, Beyond, Entered, TimedNow, Futures
  <2>2. CASE q # r
    BY <1>3, <2>2 DEF Arrived, Counted, Timed, Before, Beyond, Entered, TimedNow, Futures
  <2> QED BY <2>1, <2>2
<1>7. Progress(Futures, Futures')
  <2>1. Futures.queue \subseteq Futures'.queue
    BY DEF Futures
  <2> QED BY <1>6, <2>1 DEF Progress, Arrived, Entered, Timed, Before, Beyond
<1>8. CountersInv'
  <2>1. ArrivedNow' = ArrivedNow /\ CountedNow' = CountedNow /\ TimedNow' = TimedNow
    BY <1>6 DEF Arrived, Counted, Timed, Futures, ArrivedNow, CountedNow, TimedNow
  <2>2. SumOver(took', TimedNow) = SumOver(took, TimedNow)
    BY <1>1, <1>6, SetsOfRequests, Times
  <2> QED BY <2>1, <2>2 DEF IInv, CountersInv, counterVars
<1>9. CallInv'
  <2>1. UNCHANGED statsVars /\ \A q \in TimedNow : took'[q] = took[q]
    BY <1>6, SetsOfRequests
  <2> QED BY <1>4, <1>7, <2>1, CallStays
<1> QED BY <1>4, <1>5, <1>8, <1>9 DEF IInv

LEMMA FutureStep ==
  ASSUME IInv, NEW r \in Requests,
         \/ Arrive(r) \/ Serve(r) \/ Send(r) \/ End(r) \/ Drop(r)
         \/ \E d \in 0 .. MaxLatency : Leave(r, d)
  PROVE  IInv'
<1>1. took \in [Requests -> 0 .. MaxLatency] /\ queue \in SUBSET Requests
  BY DEF IInv, TypeOK
<1>2. CASE Arrive(r)
  BY <1>1, <1>2, Moving DEF Arrive
<1>3. CASE Serve(r)
  BY <1>1, <1>3, Moving DEF Serve
<1>4. CASE Send(r)
  <2>1. queue' \in SUBSET Requests /\ queue \subseteq queue' /\ UNCHANGED took
    BY <1>1, <1>4 DEF Send
  <2> QED BY <1>1, <1>4, <2>1, Moving DEF Send
<1>5. CASE End(r)
  BY <1>1, <1>5, Moving DEF End
<1>6. CASE Drop(r)
  BY <1>1, <1>6, Moving DEF Drop
<1>7. ASSUME NEW d \in 0 .. MaxLatency, Leave(r, d)
      PROVE  IInv'
  <2>1. /\ took' \in [Requests -> 0 .. MaxLatency] /\ UNCHANGED queue
        /\ \A q \in Requests : q = r \/ took'[q] = took[q]
    BY <1>1, <1>7 DEF Leave
  <2> QED BY <1>1, <1>7, <2>1, Moving DEF Leave
<1> QED BY <1>2, <1>3, <1>4, <1>5, <1>6, <1>7

LEMMA UpdateStep ==
  ASSUME IInv, NEW r \in Requests, NEW c \in Counters, Update(r, c)
  PROVE  IInv'
<1>1. /\ stage \in [Requests -> Stages]
      /\ left \in [Requests -> SUBSET {"total", "active", "latency"}]
      /\ took \in [Requests -> 0 .. MaxLatency] /\ took[r] \in Nat
      /\ total \in Nat /\ active \in Nat /\ latency \in Nat
  BY LatencyAssumption DEF IInv, TypeOK
<1>2. /\ c \in left[r] /\ left' = [left EXCEPT ![r] = left[r] \ {c}]
      /\ UNCHANGED <<stage, took, queue, calling, loads, seen, since>>
  BY DEF Update, statsVars
<1>3. /\ left'[r] = left[r] \ {c}
      /\ left' \in [Requests -> SUBSET {"total", "active", "latency"}]
      /\ \A q \in Requests \ {r} : left'[q] = left[q]
  BY <1>1, <1>2
<1>4. LeftInv'
  BY <1>2, <1>3 DEF IInv, LeftInv
<1>5. stage[r] \in {"arriving", "leaving"}
  BY <1>2 DEF IInv, LeftInv
<1>6. Progress(Futures, Futures')
  <2>1. ASSUME NEW q \in Requests
        PROVE  /\ left'[q] \subseteq left[q]
               /\ "active" \in left[q] \ left'[q] => stage[q] \in {"arriving", "leaving"}
    BY <1>2, <1>3, <1>5
  <2>2. Futures'.stage = Futures.stage /\ Futures'.queue = Futures.queue
        /\ Futures.left = left /\ Futures'.left = left'
    BY <1>2 DEF Futures
  <2> QED BY <2>1, <2>2 DEF Progress, Entered, Arrived, Timed, Before, Beyond
<1>7. TypeOK' => CallInv'
  <2>1. UNCHANGED statsVars /\ \A q \in TimedNow : took'[q] = took[q]
    BY <1>2 DEF statsVars
  <2> QED BY <1>6, <2>1, CallStays
<1>8. CASE c = "total"
  <2>1. total' = total + 1 /\ UNCHANGED <<active, latency>>
    BY <1>8 DEF Update
  <2>2. stage[r] = "arriving"
    BY <1>2, <1>5, <1>8 DEF IInv, LeftInv
  <2>3. ArrivedNow' = ArrivedNow \cup {r} /\ r \notin ArrivedNow
    BY <1>2, <1>3, <1>8, <2>2 DEF ArrivedNow
  <2>4. CountedNow' = CountedNow /\ TimedNow' = TimedNow
    <3>1. \A q \in Requests : /\ "active" \in left'[q] <=> "active" \in left[q]
                              /\ "latency" \in left'[q] <=> "latency" \in left[q]
      BY <1>3, <1>8
    <3> QED BY <1>2, <3>1 DEF CountedNow, TimedNow
  <2>5. Cardinality(ArrivedNow') = Cardinality(ArrivedNow) + 1
    BY <2>3, SetsOfRequests, Sizes, FS_AddElement
  <2>6. TypeOK'
    BY <1>1, <1>2, <1>3, <2>1 DEF IInv, TypeOK
  <2>7. CountersInv'
    BY <1>2, <2>1, <2>4, <2>5 DEF IInv, CountersInv
  <2> QED BY <1>4, <1>7, <2>6, <2>7 DEF IInv
<1>9. CASE c = "latency"
  <2>1. latency' = latency + took[r] /\ UNCHANGED <<total, active>>
    BY <1>9 DEF Update
  <2>2. /\ \A q \in Requests : "active" \in left'[q] <=> "active" \in left[q]
        /\ \A q \in Requests : "total" \in left'[q] <=> "total" \in left[q]
    BY <1>3, <1>9
  <2>3. ArrivedNow' = ArrivedNow /\ CountedNow' = CountedNow
    BY <1>2, <2>2 DEF ArrivedNow, CountedNow
  <2>4. stage[r] = "leaving"
    BY <1>2, <1>5, <1>9 DEF IInv, LeftInv
  <2>5. TimedNow' = TimedNow \cup {r} /\ r \notin TimedNow
    BY <1>2, <1>3, <1>9, <2>4 DEF TimedNow
  <2>6. latency' = SumOver(took', TimedNow')
    <3>1. TimedNow' \subseteq Requests /\ r \in TimedNow' /\ TimedNow' \ {r} = TimedNow
      BY <2>5, SetsOfRequests
    <3>2. IsFiniteSet(TimedNow') /\ \A q \in TimedNow' : took[q] \in Nat
      BY <1>1, <3>1, Sizes, LatencyAssumption
    <3>3. SumOver(took, TimedNow') = took[r] + SumOver(took, TimedNow)
      BY <3>1, <3>2, SumRemove
    <3> QED BY <1>1, <1>2, <2>1, <3>3 DEF IInv, CountersInv
  <2>7. TypeOK'
    <3>1. latency' \in Nat
      BY <1>1, <2>1
    <3> QED BY <1>1, <1>2, <1>3, <2>1, <3>1 DEF IInv, TypeOK
  <2>8. CountersInv'
    BY <1>2, <2>1, <2>3, <2>6 DEF IInv, CountersInv
  <2> QED BY <1>4, <1>7, <2>7, <2>8 DEF IInv
<1>10. CASE c = "active"
  <2>1. \A q \in Requests : /\ "total" \in left'[q] <=> "total" \in left[q]
                            /\ "latency" \in left'[q] <=> "latency" \in left[q]
    BY <1>3, <1>10
  <2>2. ArrivedNow' = ArrivedNow /\ TimedNow' = TimedNow
    BY <1>2, <2>1 DEF ArrivedNow, TimedNow
  <2>3. UNCHANGED <<total, latency>>
    BY <1>10 DEF Update
  <2>4. active' = Cardinality(CountedNow') /\ active' \in Nat
    <3>1. CASE stage[r] = "arriving"
      <4>1. CountedNow' = CountedNow \cup {r} /\ r \notin CountedNow
        BY <1>2, <1>3, <1>10, <3>1 DEF CountedNow
      <4>2. Cardinality(CountedNow') = Cardinality(CountedNow) + 1
        BY <4>1, SetsOfRequests, Sizes, FS_AddElement
      <4>3. active' = active + 1
        BY <1>10, <3>1 DEF Update
      <4> QED BY <1>1, <4>2, <4>3 DEF IInv, CountersInv
    <3>2. CASE stage[r] = "leaving"
      <4>1. CountedNow' = CountedNow \ {r} /\ r \in CountedNow
        BY <1>2, <1>3, <1>10, <3>2 DEF CountedNow
      <4>2. Cardinality(CountedNow') = Cardinality(CountedNow) - 1
              /\ Cardinality(CountedNow') \in Nat
        BY <4>1, SetsOfRequests, Sizes, FS_RemoveElement, FS_CardinalityType
      <4>3. active' = active - 1
        BY <1>10, <3>2 DEF Update
      <4> QED BY <4>2, <4>3 DEF IInv, CountersInv
    <3> QED BY <1>5, <3>1, <3>2
  <2>5. TypeOK'
    BY <1>1, <1>2, <1>3, <2>3, <2>4 DEF IInv, TypeOK
  <2>6. CountersInv'
    BY <1>2, <2>2, <2>3, <2>4 DEF IInv, CountersInv
  <2> QED BY <1>4, <1>7, <2>5, <2>6 DEF IInv
<1> QED BY <1>1, <1>2, <1>8, <1>9, <1>10
-----------------------------------------------------------------------------
(* The calls of the PHP thread. *)

LEMMA PollStep ==
  ASSUME IInv, NEW r \in Requests, Poll(r)
  PROVE  IInv'
<1>1. /\ UNCHANGED <<stage, left, took, counterVars, statsVars>> /\ queue' \in SUBSET Requests
      /\ calling # TRUE
  BY DEF Poll, IInv, TypeOK
<1>2. TypeOK' /\ LeftInv'
  BY <1>1 DEF IInv, TypeOK, LeftInv, counterVars, statsVars
<1>3. ArrivedNow' = ArrivedNow /\ CountedNow' = CountedNow /\ TimedNow' = TimedNow
  BY <1>1 DEF ArrivedNow, CountedNow, TimedNow
<1>4. CountersInv'
  BY <1>1, <1>3 DEF IInv, CountersInv, counterVars
<1>5. CallInv'
  BY <1>1, <1>2, CallStays
<1> QED BY <1>2, <1>4, <1>5 DEF IInv

LEMMA FuturesKept ==
  ASSUME IInv, UNCHANGED <<futureVars, counterVars>>
  PROVE  /\ LeftInv' /\ CountersInv'
         /\ ArrivedNow' = ArrivedNow /\ CountedNow' = CountedNow /\ TimedNow' = TimedNow
         /\ Futures' = Futures
         /\ stage' \in [Requests -> Stages]
         /\ left'  \in [Requests -> SUBSET {"total", "active", "latency"}]
         /\ took'  \in [Requests -> 0 .. MaxLatency]
         /\ queue' \in SUBSET Requests
         /\ total' \in Nat /\ active' \in Nat /\ latency' \in Nat
<1>1. UNCHANGED <<stage, left, took, queue, total, active, latency>>
  BY DEF futureVars, counterVars
<1>2. ArrivedNow' = ArrivedNow /\ CountedNow' = CountedNow /\ TimedNow' = TimedNow
  BY <1>1 DEF ArrivedNow, CountedNow, TimedNow
<1> QED BY <1>1, <1>2 DEF IInv, LeftInv, CountersInv, TypeOK, Futures

LEMMA BeginStep ==
  ASSUME IInv, StatsBegin
  PROVE  IInv'
<1>1. /\ UNCHANGED <<futureVars, counterVars>> /\ UNCHANGED seen
      /\ calling' = TRUE /\ loads' = Counters
      /\ since' = Futures
  BY DEF StatsBegin, Futures
<1>2. TypeOK'
  BY <1>1, FuturesKept DEF IInv, TypeOK
<1>3. SeenInv'
  BY <1>1 DEF SeenInv, Counters
<1>4. Progress(since', Futures') /\ since'.stage \in [Requests -> Stages]
  BY <1>1, FuturesKept DEF Progress, Futures, IInv, TypeOK
<1>5. CallInv'
  BY <1>1, <1>3, <1>4 DEF CallInv
<1> QED BY <1>2, <1>5, <1>1, FuturesKept DEF IInv

LEMMA LoadStep ==
  ASSUME IInv, NEW c \in Counters, Load(c)
  PROVE  IInv'
<1>1. /\ UNCHANGED <<futureVars, counterVars>> /\ UNCHANGED <<took, queue, calling, since>>
      /\ loads' = loads \ {c}
      /\ seen' = [seen EXCEPT ![c] = CASE c = "total"   -> total
                                       [] c = "active"  -> active
                                       [] c = "latency" -> latency
                                       [] c = "queue"   -> Cardinality(queue)]
  BY DEF Load, futureVars
<1>2. /\ seen \in [Counters -> Nat] /\ queue \in SUBSET Requests /\ loads \in SUBSET Counters
      /\ total \in Nat /\ active \in Nat /\ latency \in Nat
      /\ took \in [Requests -> 0 .. MaxLatency] /\ stage \in [Requests -> Stages]
  BY DEF IInv, TypeOK
<1>3. Cardinality(queue) \in Nat
  BY <1>2, Sizes
<1>4. /\ seen' \in [Counters -> Nat]
      /\ \A d \in Counters : d # c => seen'[d] = seen[d]
      /\ c = "total" => seen'["total"] = total
      /\ c = "active" => seen'["active"] = active
      /\ c = "latency" => seen'["latency"] = latency
      /\ c = "queue" => seen'["queue"] = Cardinality(queue)
  BY <1>1, <1>2, <1>3 DEF Counters
<1>5. TypeOK'
  BY <1>1, <1>2, <1>4, FuturesKept DEF IInv, TypeOK
<1>6. /\ ArrivedThen \subseteq ArrivedNow /\ Timed(since) \subseteq TimedNow
      /\ since.queue \subseteq queue
      /\ ActiveAllAlong \subseteq CountedNow /\ CountedNow \subseteq ActiveAtSome
  <2>1. Progress(since, Futures)
    BY DEF IInv, CallInv
  <2>2. Counted(Futures) = Requests \ (Before(Futures) \cup Beyond(Futures))
          /\ Futures.stage \in [Requests -> Stages]
    <3>1. Futures.stage \in [Requests -> Stages]
      BY <1>2 DEF Futures
    <3> QED BY <3>1, Phases
  <2>3. Requests \ (Before(since) \cup Beyond(since)) \subseteq Counted(since)
    BY Phases DEF IInv, CallInv
  <2> QED BY <2>1, <2>2, <2>3, NowSets DEF Progress, ArrivedThen, ActiveAllAlong, ActiveAtSome
<1>7. /\ Cardinality(ArrivedThen) <= total /\ total <= Cardinality(ArrivedNow)
      /\ Cardinality(ActiveAllAlong) <= active /\ active <= Cardinality(ActiveAtSome)
      /\ SumOver(took, Timed(since)) <= latency /\ latency <= SumOver(took, TimedNow)
      /\ Cardinality(since.queue) <= Cardinality(queue)
  <2>1. /\ total = Cardinality(ArrivedNow) /\ active = Cardinality(CountedNow)
        /\ latency = SumOver(took, TimedNow)
    BY DEF IInv, CountersInv
  <2> QED BY <1>2, <1>6, <2>1, SetsOfRequests, Sizes, Times
<1>8. SeenInv' <=> /\ "total" \notin loads' =>
                        /\ Cardinality(ArrivedThen) <= seen'["total"]
                        /\ seen'["total"] <= Cardinality(ArrivedNow)
                   /\ "active" \notin loads' =>
                        /\ Cardinality(ActiveAllAlong) <= seen'["active"]
                        /\ seen'["active"] <= Cardinality(ActiveAtSome)
                   /\ "latency" \notin loads' =>
                        /\ SumOver(took, Timed(since)) <= seen'["latency"]
                        /\ seen'["latency"] <= SumOver(took, TimedNow)
                   /\ "queue" \notin loads' =>
                        /\ Cardinality(since.queue) <= seen'["queue"]
                        /\ seen'["queue"] <= Cardinality(queue)
  <2>1. /\ ArrivedThen' = ArrivedThen /\ ArrivedNow' = ArrivedNow /\ TimedNow' = TimedNow
        /\ CountedNow' = CountedNow /\ Futures' = Futures
    BY <1>1, FuturesKept DEF ArrivedThen
  <2>2. ActiveAllAlong' = ActiveAllAlong /\ ActiveAtSome' = ActiveAtSome
    BY <1>1, <2>1 DEF ActiveAllAlong, ActiveAtSome
  <2> QED BY <1>1, <2>1, <2>2 DEF SeenInv
<1>9. calling = TRUE => SeenInv'
  <2>1. calling = TRUE => SeenInv
    BY DEF IInv, CallInv
  <2> QED BY <1>1, <1>4, <1>7, <1>8, <2>1 DEF SeenInv, Counters
<1>10. CallInv'
  BY <1>1, <1>9, FuturesKept DEF IInv, CallInv
<1> QED BY <1>1, <1>5, <1>10, FuturesKept DEF IInv

LEMMA EndStep ==
  ASSUME IInv, StatsEnd
  PROVE  IInv'
<1>1. /\ UNCHANGED <<futureVars, counterVars>> /\ UNCHANGED loads
      /\ calling' = FALSE /\ seen' = NothingSeen /\ since' = NotBegun
  BY DEF StatsEnd
<1>2. TypeOK'
  <2>1. seen' \in [Counters -> Nat]
    BY <1>1 DEF NothingSeen
  <2> QED BY <1>1, <2>1, FuturesKept DEF IInv, TypeOK
<1>3. CallInv'
  <2>1. Progress(NotBegun, Futures')
    BY NothingBegun
  <2>2. NotBegun.stage \in [Requests -> Stages]
    BY DEF NotBegun, Stages
  <2> QED BY <1>1, <2>1, <2>2 DEF CallInv
<1> QED BY <1>1, <1>2, <1>3, FuturesKept DEF IInv

LEMMA NextIInv == IInv /\ [Next]_vars => IInv'
<1> SUFFICES ASSUME IInv, [Next]_vars PROVE IInv'
  OBVIOUS
<1>1. CASE UNCHANGED vars
  <2>1. /\ UNCHANGED <<futureVars, counterVars>> /\ UNCHANGED <<took, calling, loads, seen>>
        /\ UNCHANGED statsVars
    BY <1>1 DEF vars, futureVars, counterVars, statsVars
  <2>2. TypeOK'
    BY <2>1, FuturesKept DEF IInv, TypeOK
  <2>3. Progress(Futures, Futures')
    BY <2>1, FuturesKept DEF Progress
  <2>4. CallInv'
    BY <2>1, <2>2, <2>3, CallStays
  <2> QED BY <2>1, <2>2, <2>4, FuturesKept DEF IInv
<1>2. CASE Next
  BY <1>2, FutureStep, UpdateStep, PollStep, BeginStep, LoadStep, EndStep DEF Next
<1> QED BY <1>1, <1>2

LEMMA Invariant == Spec => []IInv
BY InitIInv, NextIInv, PTL DEF Spec
-----------------------------------------------------------------------------
(* The types of the variables: in particular no counter is decremented     *)
(* below zero, in whatever order the updates take effect.                  *)
THEOREM TypeCorrect == Spec => []TypeOK
<1>1. IInv => TypeOK
  BY DEF IInv
<1> QED BY <1>1, Invariant, PTL

(* The three counters count what they should, the clients that went away   *)
(* included.                                                               *)
THEOREM CountersExact ==
  Spec => [](/\ total   = Cardinality(Arrived(Futures))
             /\ active  = Cardinality(Counted(Futures))
             /\ latency = TimeOf(Timed(Futures)))
<1>1. IInv => /\ total   = Cardinality(Arrived(Futures))
              /\ active  = Cardinality(Counted(Futures))
              /\ latency = TimeOf(Timed(Futures))
  BY NowSets DEF IInv, CountersInv, TimeOf, SumOver
<1> QED BY <1>1, Invariant, PTL

LEMMA ReportBounds ==
  ASSUME IInv, Reported
  PROVE  /\ Cardinality(ArrivedThen) <= seen["total"]
         /\ seen["total"] <= Cardinality(ArrivedNow)
         /\ Cardinality(ActiveAllAlong) <= seen["active"]
         /\ seen["active"] <= Cardinality(ActiveAtSome)
         /\ SumOver(took, Timed(since)) <= seen["latency"]
         /\ seen["latency"] <= SumOver(took, TimedNow)
         /\ Cardinality(since.queue) <= seen["queue"]
         /\ seen["queue"] <= Cardinality(queue)
         /\ TypeOK /\ Progress(since, Futures)
         /\ seen["total"] \in Nat /\ seen["active"] \in Nat
         /\ seen["latency"] \in Nat /\ seen["queue"] \in Nat
<1>1. SeenInv /\ loads = {} /\ Progress(since, Futures) /\ TypeOK
  BY DEF IInv, CallInv, Reported, TypeOK
<1>2. seen \in [Counters -> Nat]
  BY <1>1 DEF TypeOK
<1> QED BY <1>1, <1>2 DEF SeenInv, Counters

(* Each figure of a report was right at some moment of its call, in        *)
(* whatever order the loads are made and the updates take effect.          *)
THEOREM FiguresOfTheCall == Spec => []EachFigureIsOfTheCall
<1>1. ASSUME IInv, Reported
      PROVE  /\ Cardinality(Arrived(since)) <= seen["total"]
             /\ seen["total"] <= Cardinality(Arrived(Futures))
             /\ Cardinality(Counted(since) \cap Counted(Futures)) <= seen["active"]
             /\ seen["active"] <=
                  Cardinality({r \in Entered(Futures) : since.stage[r] # "done"})
             /\ TimeOf(Timed(since)) <= seen["latency"]
             /\ seen["latency"] <= TimeOf(Timed(Futures))
             /\ Cardinality(since.queue) <= seen["queue"]
             /\ seen["queue"] <= Cardinality(queue)
  <2> DEFINE around == {r \in Entered(Futures) : since.stage[r] # "done"}
  <2>1. ActiveAtSome \subseteq around
    <3>1. Progress(since, Futures)
      BY <1>1, ReportBounds
    <3>2. Counted(since) \subseteq {r \in Entered(since) : since.stage[r] # "done"}
      BY DEF Counted, Entered
    <3>3. Before(since) \ Before(Futures) \subseteq around
      BY DEF Before, Entered
    <3> QED BY <3>1, <3>2, <3>3 DEF ActiveAtSome, Progress
  <2>2. around \in SUBSET Requests
    BY DEF Entered
  <2>3. Cardinality(ActiveAtSome) <= Cardinality(around)
          /\ Cardinality(ActiveAtSome) \in Nat /\ Cardinality(around) \in Nat
    BY <2>1, <2>2, SetsOfRequests, Sizes
  <2> HIDE DEF around
  <2>4. seen["active"] <= Cardinality(around)
    BY <1>1, <2>3, ReportBounds
  <2> QED BY <1>1, <2>4, ReportBounds, NowSets
          DEF around, ArrivedThen, ActiveAllAlong, TimeOf, SumOver
<1>2. IInv => EachFigureIsOfTheCall
  BY <1>1 DEF EachFigureIsOfTheCall
<1> QED BY <1>2, Invariant, PTL

(* What a set of requests and those that come to it count together. *)
LEMMA CardinalityGrows ==
  ASSUME NEW s \in SUBSET Requests, NEW t \in SUBSET s
  PROVE  /\ Cardinality(s) = Cardinality(t) + Cardinality(s \ t)
         /\ Cardinality(s) \in Nat /\ Cardinality(t) \in Nat /\ Cardinality(s \ t) \in Nat
<1> DEFINE late == s \ t
<1>1. /\ IsFiniteSet(late) /\ Cardinality(late) \in Nat /\ IsFiniteSet(t)
      /\ Cardinality(t) \in Nat /\ Cardinality(s) \in Nat
  BY Sizes
<1>2. late \cup t = s /\ late \cap t = {}
  OBVIOUS
<1> HIDE DEF late
<1>3. Cardinality(late \cup t) = Cardinality(late) + Cardinality(t) - Cardinality(late \cap t)
  BY <1>1, FS_Union
<1>4. Cardinality(late \cap t) = 0
  BY <1>2, FS_EmptySet
<1> QED BY <1>1, <1>2, <1>3, <1>4 DEF late

LEMMA Scaled ==
  ASSUME NEW k \in Nat, NEW m \in Nat, NEW n \in Nat, m <= n
  PROVE  k * m \in Nat /\ k * n \in Nat /\ k * m <= k * n
<1>1. PICK d \in Nat : n = m + d
  <2>1. n - m \in Nat /\ n = m + (n - m)
    OBVIOUS
  <2> QED BY <2>1
<1>2. k * m \in Nat /\ k * d \in Nat /\ k * (m + d) = k * m + k * d
  OBVIOUS
<1> QED BY <1>1, <1>2

(* The average of a report: what the reordering of its two loads can add   *)
(* to the longest latency.                                                 *)
THEOREM AverageBounded == Spec => []AverageIsBounded
<1>1. ASSUME IInv, Reported
      PROVE  seen["latency"] <= MaxLatency * (seen["total"]
                                  + Cardinality(Arrived(Futures) \ Arrived(since)))
  <2> DEFINE late == Cardinality(ArrivedNow \ ArrivedThen)
  <2>1. ArrivedThen \in SUBSET ArrivedNow /\ ArrivedNow \in SUBSET Requests
    BY <1>1, ReportBounds, NowSets, SetsOfRequests DEF Progress, ArrivedThen
  <2>2. TimedNow \in SUBSET ArrivedNow
    BY <1>1 DEF IInv, LeftInv, TimedNow, ArrivedNow
  <2>3. /\ Cardinality(ArrivedNow) = Cardinality(ArrivedThen) + late
        /\ late \in Nat /\ Cardinality(ArrivedThen) \in Nat /\ Cardinality(ArrivedNow) \in Nat
    BY <2>1, CardinalityGrows
  <2>4. took \in [Requests -> 0 .. MaxLatency]
    BY <1>1 DEF IInv, TypeOK
  <2>5. /\ seen["latency"] \in Nat /\ SumOver(took, ArrivedNow) \in Nat
        /\ seen["latency"] <= SumOver(took, ArrivedNow)
        /\ SumOver(took, ArrivedNow) <= MaxLatency * Cardinality(ArrivedNow)
    <3>1. SumOver(took, TimedNow) <= SumOver(took, ArrivedNow)
            /\ SumOver(took, TimedNow) \in Nat /\ SumOver(took, ArrivedNow) \in Nat
            /\ SumOver(took, ArrivedNow) <= MaxLatency * Cardinality(ArrivedNow)
      BY <2>1, <2>2, <2>4, Times
    <3> QED BY <1>1, <3>1, ReportBounds
  <2>6. Cardinality(ArrivedNow) <= seen["total"] + late /\ seen["total"] + late \in Nat
    <3> HIDE DEF late
    <3> QED BY <1>1, <2>3, ReportBounds
  <2>7. Arrived(Futures) \ Arrived(since) = ArrivedNow \ ArrivedThen
    BY NowSets DEF ArrivedThen
  <2> HIDE DEF late
  <2>8. /\ MaxLatency * Cardinality(ArrivedNow) <= MaxLatency * (seen["total"] + late)
        /\ MaxLatency * Cardinality(ArrivedNow) \in Nat
        /\ MaxLatency * (seen["total"] + late) \in Nat
    BY <2>3, <2>6, Scaled, LatencyAssumption
  <2>9. seen["latency"] <= MaxLatency * (seen["total"] + late)
    BY <2>5, <2>8
  <2> QED BY <2>7, <2>9 DEF late
<1>2. IInv => AverageIsBounded
  BY <1>1 DEF AverageIsBounded
<1> QED BY <1>2, Invariant, PTL

(* However the loads and the updates are reordered, a report exceeds the   *)
(* requests that had arrived by those that arrived during its call only.   *)
THEOREM ActiveBounded == Spec => []ActiveWithinTotal
<1>1. ASSUME IInv, Reported
      PROVE  seen["active"] <=
               seen["total"] + Cardinality(Entered(Futures) \ Arrived(since))
  <2>1. ArrivedThen \in SUBSET EnteredNow /\ EnteredNow \in SUBSET Requests
    BY <1>1, ReportBounds, NowSets, SetsOfRequests
       DEF Progress, ArrivedThen, ArrivedNow, EnteredNow
  <2>2. ActiveAtSome \in SUBSET EnteredNow
    <3>1. Counted(since) \subseteq Entered(since)
      BY DEF Counted, Entered
    <3>2. Before(since) \ Before(Futures) \subseteq Entered(Futures)
      BY DEF Before, Entered
    <3> QED BY <1>1, <3>1, <3>2, ReportBounds, NowSets DEF ActiveAtSome, Progress
  <2>3. /\ Cardinality(EnteredNow) =
             Cardinality(ArrivedThen) + Cardinality(EnteredNow \ ArrivedThen)
        /\ Cardinality(ArrivedThen) \in Nat /\ Cardinality(EnteredNow \ ArrivedThen) \in Nat
    BY <2>1, CardinalityGrows
  <2>4. Cardinality(ActiveAtSome) <= Cardinality(EnteredNow)
          /\ Cardinality(ActiveAtSome) \in Nat /\ Cardinality(EnteredNow) \in Nat
    BY <2>1, <2>2, Sizes
  <2>5. Entered(Futures) \ Arrived(since) = EnteredNow \ ArrivedThen
    BY NowSets DEF ArrivedThen
  <2>6. /\ seen["active"] <= Cardinality(ActiveAtSome)
        /\ Cardinality(ArrivedThen) <= seen["total"]
        /\ seen["active"] \in Nat /\ seen["total"] \in Nat
    BY <1>1, ReportBounds
  <2> QED BY <2>3, <2>4, <2>5, <2>6
<1>2. IInv => ActiveWithinTotal
  BY <1>1 DEF ActiveWithinTotal
<1> QED BY <1>2, Invariant, PTL

(* A report is exact if the futures and the channel are the same at its    *)
(* end as they were at its beginning.                                      *)
THEOREM QuietReports == Spec => []QuietReportIsExact
<1>1. ASSUME IInv, Reported, since = Futures
      PROVE  /\ seen["total"]   = Cardinality(Arrived(Futures))
             /\ seen["active"]  = Cardinality(Counted(Futures))
             /\ seen["latency"] = TimeOf(Timed(Futures))
             /\ seen["queue"]   = Cardinality(queue)
  <2>1. /\ ArrivedThen = ArrivedNow /\ ActiveAllAlong = CountedNow
        /\ ActiveAtSome = CountedNow /\ Timed(since) = TimedNow /\ since.queue = queue
    BY <1>1, NowSets DEF ArrivedThen, ActiveAllAlong, ActiveAtSome
  <2>2. /\ Cardinality(ArrivedNow) \in Nat /\ Cardinality(CountedNow) \in Nat
        /\ Cardinality(queue) \in Nat /\ SumOver(took, TimedNow) \in Nat
    <3>1. took \in [Requests -> 0 .. MaxLatency] /\ queue \in SUBSET Requests
      BY <1>1 DEF IInv, TypeOK
    <3> QED BY <3>1, SetsOfRequests, Sizes, Times
  <2>3. TimeOf(Timed(Futures)) = SumOver(took, TimedNow)
    BY NowSets DEF TimeOf, SumOver
  <2> QED BY <1>1, <2>1, <2>2, <2>3, ReportBounds, NowSets
<1>2. IInv => QuietReportIsExact
  BY <1>1 DEF QuietReportIsExact
<1> QED BY <1>2, Invariant, PTL
============================================================================
