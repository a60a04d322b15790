------------------------ MODULE RequestBridgeProofs ------------------------
(***************************************************************************)
(* Proofs about RequestBridge, for every number of requests, worker        *)
(* threads and ids and every queue depth.                                  *)
(*                                                                         *)
(* The safety properties follow one request through the table and the      *)
(* channel, so none of them is inductive alone.  IInv states where a       *)
(* request can be: it is in the channel exactly until PHP polls it, an     *)
(* entry of the table belongs to a polled job whose oneshot is untouched,  *)
(* and a resolved oneshot was resolved through a job of the same id.       *)
(***************************************************************************)
EXTENDS RequestBridge, FiniteSetTheorems, SequenceTheorems, TLAPS

(* Every request that left "reading" has a ticket of its own. *)
TicketInv ==
  /\ \A r \in Requests : ticket[r] < nextId
  /\ \A r \in Requests :
       stage[r] \in {"sending", "blocked", "waiting", "expiring"} =>
         ticket[r] # 0
  /\ \A r \in Requests : stage[r] \in {"new", "reading"} => ticket[r] = 0
  /\ \A r, q \in Requests : ticket[r] = ticket[q] /\ ticket[r] # 0 => r = q

(* PHP has seen only requests that went through the channel. *)
JobInv ==
  \A r \in Requests :
    IF job[r] = "none"
    THEN slot[r] = None
    ELSE ticket[r] # 0 /\ stage[r] \in {"waiting", "expiring", "done", "dropped"}

(* The channel holds requests PHP has not seen, each once. *)
QueueInv ==
  /\ \A i \in 1 .. Len(queue) :
       /\ ticket[queue[i]] # 0
       /\ job[queue[i]] = "none"
       /\ stage[queue[i]] \in {"waiting", "expiring", "done", "dropped"}
  /\ \A i, j \in 1 .. Len(queue) : queue[i] = queue[j] => i = j

BlockedInv ==
  /\ \A i \in 1 .. Len(blocked) : stage[blocked[i]] = "blocked"
  /\ \A i, j \in 1 .. Len(blocked) : blocked[i] = blocked[j] => i = j
  /\ \A r \in Requests :
       stage[r] = "blocked" => \E i \in 1 .. Len(blocked) : blocked[i] = r

FullInv ==
  /\ MaxQueueDepth > 0 => Len(queue) <= MaxQueueDepth
  /\ blocked # <<>> => MaxQueueDepth > 0 /\ Len(queue) = MaxQueueDepth

(* An entry belongs to a job under its id, with an untouched oneshot. *)
PendingInv ==
  \A i \in Ids : pending[i] # None =>
    /\ IdOf(pending[i]) = i
    /\ job[pending[i]] \in {"held", "abandoned"}
    /\ slot[pending[i]] = None

(* A oneshot was resolved through a polled job of the same id. *)
SlotInv ==
  \A r \in Requests :
    /\ slot[r] \in Requests =>
         IdOf(slot[r]) = IdOf(r) /\ job[slot[r]] # "none"
    /\ slot[r] = Closed =>
         \E q \in Requests : q # r /\ job[q] # "none" /\ IdOf(q) = IdOf(r)

(* A waiting client's sender is in the channel or in the table. *)
WaiterInv ==
  \A r \in Requests :
    ReceiverAlive(r) /\ slot[r] = None =>
      \/ \E i \in 1 .. Len(queue) : queue[i] = r
      \/ pending[IdOf(r)] = r

IInv == /\ TypeOK
        /\ ActiveAccounting
        /\ TicketInv
        /\ JobInv
        /\ QueueInv
        /\ BlockedInv
        /\ FullInv
        /\ PendingInv
        /\ SlotInv
        /\ WaiterInv

-----------------------------------------------------------------------------
(* Arithmetic of the id counter. *)

LEMMA ModDistance ==
  ASSUME NEW a \in Nat, NEW b \in Nat, NEW n \in Nat \ {0},
         a % n = b % n, a < b
  PROVE  b >= a + n
<1> DEFINE x == a \div n
           y == b \div n
<1>1. x \in Int /\ y \in Int
  OBVIOUS
<1>2. a = n * x + (a % n) /\ b = n * y + (b % n)
  OBVIOUS
<1>3. b - a = n * (y - x)
  <2>1. b - a = n * y - n * x
    BY <1>1, <1>2
  <2>2. n * (y - x) = n * y - n * x
    BY <1>1
  <2> QED BY <2>1, <2>2
<1>4. y - x >= 1
  <2>1. SUFFICES ASSUME y - x <= 0 PROVE FALSE
    BY <1>1
  <2>2. n * (x - y) >= 0
    BY <1>1, <2>1
  <2>3. n * (y - x) = -(n * (x - y))
    BY <1>1
  <2> QED BY <1>1, <1>3, <2>2, <2>3
<1>5. n * (y - x) >= n
  <2>1. n * (y - x - 1) >= 0
    BY <1>1, <1>4
  <2>2. n * (y - x) = n * (y - x - 1) + n
    BY <1>1
  <2> QED BY <1>1, <2>1, <2>2
<1> QED BY <1>3, <1>5

(* Two requests that share an id took it a full turn apart. *)
LEMMA SameIdWrapped ==
  ASSUME TypeOK, TicketInv, NEW r \in Requests, NEW q \in Requests,
         q # r, ticket[r] # 0, IdOf(q) = IdOf(r)
  PROVE  WrappedApart(q, r)
<1>1. ticket[r] \in Nat /\ ticket[q] \in Nat /\ ticket[r] # ticket[q]
  BY DEF TypeOK, TicketInv
<1>2. CASE ticket[r] < ticket[q]
  BY <1>1, <1>2, ModDistance, IdAssumption DEF IdOf, WrappedApart
<1>3. CASE ticket[q] < ticket[r]
  BY <1>1, <1>3, ModDistance, IdAssumption DEF IdOf, WrappedApart
<1> QED BY <1>1, <1>2, <1>3

LEMMA IdOfInIds ==
  ASSUME TypeOK, NEW r \in Requests
  PROVE  IdOf(r) \in Ids
BY IdAssumption DEF TypeOK, IdOf, Ids

-----------------------------------------------------------------------------
(* ACTIVE_REQUESTS: the requests it counts. *)

Counted == InFlight \cup Dropped

LEMMA CountedFinite == IsFiniteSet(Counted)
  BY RequestsAssumption, FS_Subset DEF Counted, InFlight, Dropped

(* A step that leaves the counted requests alone, as most do. *)
LEMMA CountUnchanged ==
  ASSUME ActiveAccounting, UNCHANGED active, Counted' = Counted
  PROVE  ActiveAccounting'
BY DEF ActiveAccounting, Counted

(* A future that returns had been counted. *)
LEMMA CountFinish ==
  ASSUME TypeOK, ActiveAccounting, NEW r \in Requests, NEW a,
         r \in InFlight, Finish(r, a)
  PROVE  active' \in Nat /\ ActiveAccounting'
<1>1. r \in Counted
  BY DEF Counted
<1>2. Counted' = Counted \ {r}
  BY DEF TypeOK, Finish, Counted, InFlight, Dropped
<1>3. Cardinality(Counted') = Cardinality(Counted) - 1
  BY <1>1, <1>2, CountedFinite, FS_RemoveElement
<1>4. Cardinality(Counted') \in Nat
  BY <1>2, CountedFinite, FS_RemoveElement, FS_CardinalityType
<1> QED BY <1>3, <1>4 DEF TypeOK, ActiveAccounting, Counted, Finish

-----------------------------------------------------------------------------
(* The initial states, and one lemma per action. *)

LEMMA InitInv == Init => IInv
<1> SUFFICES ASSUME Init PROVE IInv
  OBVIOUS
<1>1. TypeOK
  BY IdAssumption DEF Init, TypeOK, Stages, Jobs, Answers, Ids
<1>2. ActiveAccounting
  <2>1. InFlight \cup Dropped = {}
    BY DEF Init, InFlight, Dropped
  <2> QED BY <2>1, FS_EmptySet DEF Init, ActiveAccounting
<1>3. TicketInv /\ JobInv /\ SlotInv
  BY ValueAssumption DEF Init, TicketInv, JobInv, SlotInv
<1>4. QueueInv /\ BlockedInv /\ FullInv /\ WaiterInv
  BY DepthAssumption
  DEF Init, QueueInv, BlockedInv, FullInv, WaiterInv, ReceiverAlive
<1>5. PendingInv
  BY DEF Init, PendingInv
<1> QED BY <1>1, <1>2, <1>3, <1>4, <1>5 DEF IInv

LEMMA ArriveStep ==
  ASSUME IInv, NEW r \in Requests, Arrive(r)
  PROVE  IInv'
<1>1. /\ stage[r] = "new" /\ total' = total + 1
      /\ UNCHANGED <<ticket, nextId, queue, blocked, pending, slot, job, native>>
  BY DEF Arrive
<1>2. stage' \in [Requests -> Stages] /\ stage'[r] \in {"done", "reading"}
  BY DEF IInv, TypeOK, Arrive, Stages
<1>3. \A q \in Requests \ {r} : stage'[q] = stage[q]
  BY DEF IInv, TypeOK, Arrive
<1>4. ticket[r] = 0 /\ job[r] = "none"
  BY <1>1 DEF IInv, TicketInv, JobInv, TypeOK, Jobs
<1>5. \A i \in 1 .. Len(queue) : queue[i] \in Requests \ {r}
  BY <1>4 DEF IInv, TypeOK, QueueInv
<1>6. \A i \in 1 .. Len(blocked) : blocked[i] \in Requests \ {r}
  BY <1>1 DEF IInv, TypeOK, BlockedInv
<1>7. ActiveAccounting' /\ active' \in Nat /\ answer' \in [Requests -> Answers]
  <2>1. ImmediateAnswer(r) \in Answers
    BY RouteAssumption DEF ImmediateAnswer, Answers, RouteResult
  <2>2. CASE ImmediateAnswer(r) # "none"
    <3>1. /\ stage'[r] = "done" /\ UNCHANGED active
          /\ answer' = [answer EXCEPT ![r] = ImmediateAnswer(r)]
      BY <2>2 DEF IInv, TypeOK, Arrive
    <3>2. Counted' = Counted
      BY <3>1, <1>1, <1>3 DEF Counted, InFlight, Dropped
    <3> QED BY <2>1, <3>1, <3>2, CountUnchanged DEF IInv, TypeOK
  <2>3. CASE ImmediateAnswer(r) = "none"
    <3>1. /\ stage'[r] = "reading" /\ active' = active + 1
          /\ UNCHANGED answer
      BY <2>3 DEF IInv, TypeOK, Arrive
    <3>2. r \notin Counted /\ Counted' = Counted \cup {r}
      BY <3>1, <1>1, <1>3 DEF Counted, InFlight, Dropped
    <3>3. Cardinality(Counted') = Cardinality(Counted) + 1
      BY <3>2, CountedFinite, FS_AddElement
    <3> QED BY <3>1, <3>3 DEF IInv, TypeOK, ActiveAccounting, Counted
  <2> QED BY <2>2, <2>3
<1>8. TypeOK'
  BY <1>1, <1>2, <1>7 DEF IInv, TypeOK
<1>9. TicketInv' /\ JobInv'
  BY <1>1, <1>2, <1>3, <1>4 DEF IInv, TicketInv, JobInv
<1>10. QueueInv'
  BY <1>1, <1>3, <1>5 DEF IInv, QueueInv
<1>11. BlockedInv' /\ FullInv'
  <2>1. BlockedInv'
    BY <1>1, <1>2, <1>3, <1>6 DEF IInv, BlockedInv
  <2> QED BY <2>1, <1>1 DEF IInv, FullInv
<1>12. PendingInv' /\ SlotInv'
  BY <1>1 DEF IInv, PendingInv, SlotInv, IdOf
<1>13. WaiterInv'
  BY <1>1, <1>2, <1>3 DEF IInv, WaiterInv, ReceiverAlive, IdOf
<1> QED BY <1>7, <1>8, <1>9, <1>10, <1>11, <1>12, <1>13 DEF IInv

(* RejectBody, RejectDto, Resume and Expire differ in the answer only. *)
LEMMA FinishStep ==
  ASSUME IInv, NEW r \in Requests, NEW a \in Answers,
         stage[r] \in {"reading", "waiting", "expiring"},
         Finish(r, a),
         UNCHANGED <<ticket, nextId, queue, blocked, pending, slot, job,
                     native, total>>
  PROVE  IInv'
<1>1. r \in InFlight
  BY DEF InFlight
<1>2. ActiveAccounting' /\ active' \in Nat
  BY <1>1, CountFinish DEF IInv
<1>3. TypeOK'
  BY <1>2 DEF IInv, TypeOK, Finish, Stages
<1>4. TicketInv' /\ JobInv'
  BY DEF IInv, TypeOK, TicketInv, JobInv, Finish
<1>5. QueueInv' /\ BlockedInv' /\ FullInv'
  BY DEF IInv, TypeOK, QueueInv, BlockedInv, FullInv, TicketInv, Finish
<1>6. PendingInv' /\ SlotInv'
  BY DEF IInv, PendingInv, SlotInv, IdOf
<1>7. WaiterInv'
  BY DEF IInv, TypeOK, WaiterInv, ReceiverAlive, IdOf, Finish
<1> QED BY <1>2, <1>3, <1>4, <1>5, <1>6, <1>7 DEF IInv

LEMMA TakeIdStep ==
  ASSUME IInv, NEW r \in Requests, TakeId(r)
  PROVE  IInv'
<1>1. /\ stage[r] = "reading" /\ ticket[r] = 0
      /\ stage'  = [stage EXCEPT ![r] = "sending"]
      /\ ticket' = [ticket EXCEPT ![r] = nextId]
      /\ nextId' = nextId + 1
      /\ UNCHANGED <<queue, blocked, pending, slot, job, answer, native, total, active>>
  BY DEF IInv, TicketInv, TakeId
<1>2. job[r] = "none" /\ slot[r] = None
  BY <1>1 DEF IInv, JobInv
<1>3. TypeOK'
  BY <1>1 DEF IInv, TypeOK, Stages
<1>4. ActiveAccounting'
  <2>1. Counted' = Counted
    BY <1>1 DEF IInv, TypeOK, Counted, InFlight, Dropped
  <2> QED BY <2>1, <1>1, CountUnchanged DEF IInv
<1>5. TicketInv' /\ JobInv'
  BY <1>1 DEF IInv, TypeOK, TicketInv, JobInv
<1>6. QueueInv' /\ BlockedInv' /\ FullInv'
  BY <1>1 DEF IInv, TypeOK, QueueInv, BlockedInv, FullInv
<1>7. \A q \in Requests : q # r => IdOf(q)' = IdOf(q)
  BY <1>1 DEF IInv, TypeOK, IdOf
<1>8. PendingInv'
  BY <1>1, <1>2, <1>7 DEF IInv, TypeOK, PendingInv
<1>9. SlotInv'
  BY <1>1, <1>2, <1>7, ValueAssumption DEF IInv, SlotInv, JobInv
<1>10. WaiterInv'
  BY <1>1, <1>7 DEF IInv, TypeOK, WaiterInv, ReceiverAlive
<1> QED BY <1>3, <1>4, <1>5, <1>6, <1>8, <1>9, <1>10 DEF IInv

LEMMA SendStep ==
  ASSUME IInv, NEW r \in Requests, Send(r)
  PROVE  IInv'
<1>1. /\ stage[r] = "sending"
      /\ UNCHANGED <<ticket, nextId, pending, slot, job, answer, native, total, active>>
  BY DEF Send
<1>2. /\ stage' \in [Requests -> Stages] /\ stage'[r] \in {"waiting", "blocked"}
      /\ \A q \in Requests \ {r} : stage'[q] = stage[q]
  <2>1. PICK s \in {"waiting", "blocked"} : stage' = [stage EXCEPT ![r] = s]
    BY DEF Send
  <2> QED BY <2>1 DEF IInv, TypeOK, Stages
<1>3. \A q \in Requests \ {r} : stage'[q] = stage[q]
  BY <1>2
<1>4. ticket[r] # 0 /\ job[r] = "none"
  BY <1>1 DEF IInv, TicketInv, JobInv
<1>5. \A i \in 1 .. Len(queue) : queue[i] \in Requests \ {r}
  <2>1. \A i \in 1 .. Len(queue) : queue[i] \in Requests
    BY DEF IInv, TypeOK
  <2> QED BY <1>1, <2>1 DEF IInv, QueueInv
<1>6. \A i \in 1 .. Len(blocked) : blocked[i] \in Requests \ {r}
  BY <1>1 DEF IInv, TypeOK, BlockedInv
<1>7. ActiveAccounting'
  <2>1. Counted' = Counted
    BY <1>1, <1>2, <1>3 DEF Counted, InFlight, Dropped
  <2> QED BY <2>1, <1>1, CountUnchanged DEF IInv
<1>8. TicketInv' /\ JobInv'
  BY <1>1, <1>2, <1>3, <1>4 DEF IInv, TicketInv, JobInv
<1>9. PendingInv' /\ SlotInv'
  BY <1>1 DEF IInv, PendingInv, SlotInv, IdOf
<1>10. CASE HasRoom
  <2>1. stage'[r] = "waiting" /\ queue' = Append(queue, r) /\ UNCHANGED blocked
    BY <1>10 DEF IInv, TypeOK, Send
  <2>2. /\ queue' \in Seq(Requests)
        /\ Len(queue') = Len(queue) + 1
        /\ queue'[Len(queue) + 1] = r
        /\ \A i \in 1 .. Len(queue) : queue'[i] = queue[i]
        /\ Len(queue) \in Nat
    BY <2>1 DEF IInv, TypeOK
  <2>3. TypeOK'
    BY <1>1, <1>2, <2>1, <2>2 DEF IInv, TypeOK
  <2>4. QueueInv'
    BY <1>1, <1>3, <1>4, <1>5, <2>1, <2>2 DEF IInv, QueueInv
  <2>5. BlockedInv' /\ FullInv'
    <3>1. BlockedInv'
      BY <1>2, <1>3, <1>6, <2>1 DEF IInv, BlockedInv
    <3>2. FullInv'
      BY <1>10, <2>1, <2>2, DepthAssumption DEF IInv, FullInv, HasRoom
    <3> QED BY <3>1, <3>2
  <2>6. WaiterInv'
    BY <1>1, <1>3, <2>2 DEF IInv, WaiterInv, ReceiverAlive, IdOf
  <2> QED BY <1>7, <1>8, <1>9, <2>3, <2>4, <2>5, <2>6 DEF IInv
<1>11. CASE ~HasRoom
  <2>1. stage'[r] = "blocked" /\ blocked' = Append(blocked, r) /\ UNCHANGED queue
    BY <1>11 DEF IInv, TypeOK, Send
  <2>2. /\ blocked' \in Seq(Requests)
        /\ Len(blocked') = Len(blocked) + 1
        /\ blocked'[Len(blocked) + 1] = r
        /\ \A i \in 1 .. Len(blocked) : blocked'[i] = blocked[i]
        /\ Len(blocked) \in Nat
    BY <2>1 DEF IInv, TypeOK
  <2>3. TypeOK'
    BY <1>1, <1>2, <2>1, <2>2 DEF IInv, TypeOK
  <2>4. QueueInv'
    BY <1>1, <1>3, <1>5, <2>1 DEF IInv, QueueInv
  <2>5. BlockedInv' /\ FullInv'
    <3>1. BlockedInv'
      BY <1>2, <1>3, <1>6, <2>1, <2>2 DEF IInv, BlockedInv
    <3>2. FullInv'
      BY <1>11, <2>1, DepthAssumption DEF IInv, TypeOK, FullInv, HasRoom
    <3> QED BY <3>1, <3>2
  <2>6. WaiterInv'
    BY <1>1, <1>3, <2>1 DEF IInv, WaiterInv, ReceiverAlive, IdOf
  <2> QED BY <1>7, <1>8, <1>9, <2>3, <2>4, <2>5, <2>6 DEF IInv
<1> QED BY <1>10, <1>11

LEMMA CheckDeadlineStep ==
  ASSUME IInv, NEW r \in Requests, CheckDeadline(r)
  PROVE  IInv'
<1>1. /\ stage[r] = "waiting" /\ stage' = [stage EXCEPT ![r] = "expiring"]
      /\ UNCHANGED <<ticket, nextId, queue, blocked, pending, slot, job, answer,
                     native, total, active>>
  BY DEF CheckDeadline
<1>2. TypeOK'
  BY <1>1 DEF IInv, TypeOK, Stages
<1>3. ActiveAccounting'
  <2>1. Counted' = Counted
    BY <1>1 DEF IInv, TypeOK, Counted, InFlight, Dropped
  <2> QED BY <2>1, <1>1, CountUnchanged DEF IInv
<1>4. TicketInv' /\ JobInv' /\ FullInv'
  BY <1>1 DEF IInv, TypeOK, TicketInv, JobInv, FullInv
<1>5. QueueInv' /\ BlockedInv'
  BY <1>1 DEF IInv, TypeOK, QueueInv, BlockedInv
<1>6. PendingInv' /\ SlotInv'
  BY <1>1 DEF IInv, PendingInv, SlotInv, IdOf
<1>7. WaiterInv'
  BY <1>1 DEF IInv, TypeOK, WaiterInv, ReceiverAlive, IdOf
<1> QED BY <1>2, <1>3, <1>4, <1>5, <1>6, <1>7 DEF IInv

LEMMA DisconnectStep ==
  ASSUME IInv, NEW r \in Requests, Disconnect(r)
  PROVE  IInv'
<1>1. /\ stage[r] \in {"reading", "waiting"}
      /\ stage' = [stage EXCEPT ![r] = "dropped"]
      /\ UNCHANGED <<ticket, nextId, queue, blocked, pending, slot, job, answer,
                     native, total, active>>
  BY DEF Disconnect
<1>2. TypeOK'
  BY <1>1 DEF IInv, TypeOK, Stages
<1>3. ActiveAccounting'
  <2>1. Counted' = Counted
    BY <1>1 DEF IInv, TypeOK, Counted, InFlight, Dropped
  <2> QED BY <2>1, <1>1, CountUnchanged DEF IInv
<1>4. TicketInv' /\ JobInv' /\ FullInv'
  BY <1>1 DEF IInv, TypeOK, TicketInv, JobInv, FullInv
<1>5. QueueInv' /\ BlockedInv'
  BY <1>1 DEF IInv, TypeOK, QueueInv, BlockedInv
<1>6. PendingInv' /\ SlotInv'
  BY <1>1 DEF IInv, PendingInv, SlotInv, IdOf
<1>7. WaiterInv'
  BY <1>1 DEF IInv, TypeOK, WaiterInv, ReceiverAlive, IdOf
<1> QED BY <1>2, <1>3, <1>4, <1>5, <1>6, <1>7 DEF IInv

LEMMA AbandonStep ==
  ASSUME IInv, NEW r \in Requests, Abandon(r)
  PROVE  IInv'
<1>1. /\ job[r] = "held" /\ job' = [job EXCEPT ![r] = "abandoned"]
      /\ UNCHANGED <<stage, ticket, nextId, queue, blocked, pending, slot,
                     answer, native, total, active>>
  BY DEF Abandon
<1>2. TypeOK'
  BY <1>1 DEF IInv, TypeOK, Jobs
<1>3. ActiveAccounting' /\ TicketInv' /\ BlockedInv' /\ FullInv' /\ WaiterInv'
  BY <1>1 DEF IInv, ActiveAccounting, InFlight, Dropped, TicketInv, BlockedInv,
       FullInv, WaiterInv, ReceiverAlive, IdOf
<1>4. JobInv' /\ QueueInv'
  BY <1>1 DEF IInv, TypeOK, JobInv, QueueInv
<1>5. PendingInv' /\ SlotInv'
  BY <1>1 DEF IInv, TypeOK, PendingInv, SlotInv, IdOf
<1> QED BY <1>2, <1>3, <1>4, <1>5 DEF IInv

LEMMA PreloadStep ==
  ASSUME IInv, NEW h \in Handlers, Preload(h)
  PROVE  IInv'
<1>1. /\ native' \in SUBSET Handlers
      /\ UNCHANGED <<stage, ticket, nextId, queue, blocked, pending, slot, job,
                     answer, total, active>>
  BY DEF IInv, TypeOK, Preload
<1>2. TypeOK'
  BY <1>1 DEF IInv, TypeOK
<1>3. ActiveAccounting' /\ TicketInv' /\ JobInv' /\ QueueInv' /\ BlockedInv'
  BY <1>1 DEF IInv, ActiveAccounting, InFlight, Dropped, TicketInv, JobInv,
       QueueInv, BlockedInv
<1>4. FullInv' /\ PendingInv' /\ SlotInv' /\ WaiterInv'
  BY <1>1 DEF IInv, FullInv, PendingInv, SlotInv, WaiterInv, ReceiverAlive, IdOf
<1> QED BY <1>2, <1>3, <1>4 DEF IInv

(* A job PHP holds is not in the channel: its sender, while nothing has    *)
(* resolved its oneshot and its client waits, is in the table.             *)
LEMMA HeldIsPending ==
  ASSUME IInv, NEW r \in Requests, job[r] = "held", ReceiverAlive(r),
         slot[r] = None
  PROVE  pending[IdOf(r)] = r
<1>1. \A i \in 1 .. Len(queue) : queue[i] # r
  BY DEF IInv, QueueInv
<1> QED BY <1>1 DEF IInv, WaiterInv

LEMMA RespondStep ==
  ASSUME IInv, NEW r \in Requests, Respond(r)
  PROVE  IInv'
<1> DEFINE q == pending[IdOf(r)]
<1>1. /\ job[r] = "held"
      /\ pending' = [pending EXCEPT ![IdOf(r)] = None]
      /\ slot' = IF q = None THEN slot ELSE Deliver(q, r)
      /\ job' \in {job, [job EXCEPT ![r] = "answered"]}
      /\ UNCHANGED <<stage, ticket, nextId, queue, blocked, answer, native, total, active>>
  BY DEF Respond
<1>2. IdOf(r) \in Ids /\ q \in Requests \cup {None}
  BY IdOfInIds DEF IInv, TypeOK
<1>3. /\ job' \in [Requests -> Jobs]
      /\ job'[r] \in {"held", "answered"}
      /\ \A x \in Requests \ {r} : job'[x] = job[x]
  BY <1>1 DEF IInv, TypeOK, Jobs
<1>4. q # None => IdOf(q) = IdOf(r) /\ job[q] # "none" /\ slot[q] = None
  BY <1>2 DEF IInv, PendingInv
<1>5. /\ slot' \in [Requests -> Requests \cup {None, Closed}]
      /\ \A x \in Requests : x # q => slot'[x] = slot[x]
      /\ q # None => slot'[q] = IF ReceiverAlive(q) THEN r ELSE None
  BY <1>1, <1>2, <1>4, ValueAssumption DEF IInv, TypeOK, Deliver
<1>6. TypeOK'
  BY <1>1, <1>2, <1>3, <1>5 DEF IInv, TypeOK
<1>7. ActiveAccounting' /\ TicketInv' /\ BlockedInv' /\ FullInv'
  BY <1>1 DEF IInv, ActiveAccounting, InFlight, Dropped, TicketInv, BlockedInv,
       FullInv
<1>8. JobInv'
  BY <1>1, <1>2, <1>3, <1>4, <1>5 DEF IInv, JobInv
<1>9. QueueInv'
  <2>1. \A i \in 1 .. Len(queue) : queue[i] \in Requests \ {r}
    BY <1>1 DEF IInv, TypeOK, QueueInv
  <2> QED BY <1>1, <1>3, <2>1 DEF IInv, QueueInv
<1>10. PendingInv'
  BY <1>1, <1>2, <1>3, <1>4, <1>5 DEF IInv, TypeOK, PendingInv, IdOf
<1>11. SlotInv'
  BY <1>1, <1>2, <1>3, <1>4, <1>5, ValueAssumption DEF IInv, SlotInv, IdOf
<1>12. WaiterInv'
  BY <1>1, <1>2, <1>4, <1>5, ValueAssumption
  DEF IInv, TypeOK, WaiterInv, ReceiverAlive, IdOf
<1> QED BY <1>6, <1>7, <1>8, <1>9, <1>10, <1>11, <1>12 DEF IInv

(* What a poll does to the channel: everything moves up by one, and the    *)
(* oldest parked request, if there is one, joins at the end.               *)
LEMMA PollChannel ==
  ASSUME IInv, Poll
  PROVE  /\ queue' \in Seq(Requests) /\ blocked' \in Seq(Requests)
         /\ stage' \in [Requests -> Stages]
         /\ \A i \in 1 .. Len(queue') :
              \/ i + 1 \in 1 .. Len(queue) /\ queue'[i] = queue[i + 1]
              \/ /\ i = Len(queue) /\ i = Len(queue')
                 /\ blocked # <<>> /\ queue'[i] = blocked[1]
         /\ \A i \in 2 .. Len(queue) :
              i - 1 \in 1 .. Len(queue') /\ queue'[i - 1] = queue[i]
         /\ \A i \in 1 .. Len(blocked') :
              i + 1 \in 1 .. Len(blocked) /\ blocked'[i] = blocked[i + 1]
         /\ \A i \in 2 .. Len(blocked) :
              i - 1 \in 1 .. Len(blocked') /\ blocked'[i - 1] = blocked[i]
         /\ \A x \in Requests :
              IF blocked # <<>> /\ x = blocked[1]
              THEN /\ stage[x] = "blocked" /\ stage'[x] = "waiting"
                   /\ Len(queue') \in 1 .. Len(queue') /\ queue'[Len(queue')] = x
              ELSE stage'[x] = stage[x]
         /\ FullInv'
<1>1. queue \in Seq(Requests) /\ blocked \in Seq(Requests) /\ queue # <<>>
  BY DEF IInv, TypeOK, Poll
<1>2. CASE blocked = <<>>
  <2>1. queue' = Tail(queue) /\ UNCHANGED <<blocked, stage>>
    BY <1>2 DEF Poll
  <2> QED BY <1>1, <1>2, <2>1, DepthAssumption DEF IInv, TypeOK, FullInv
<1>3. CASE blocked # <<>>
  <2>1. /\ queue' = Append(Tail(queue), Head(blocked))
        /\ blocked' = Tail(blocked)
        /\ stage' = [stage EXCEPT ![Head(blocked)] = "waiting"]
    BY <1>3 DEF Poll
  <2>2. Head(blocked) = blocked[1] /\ blocked[1] \in Requests
    BY <1>1, <1>3
  <2>3. stage[blocked[1]] = "blocked"
    BY <1>1, <1>3 DEF IInv, BlockedInv
  <2>4. /\ queue' \in Seq(Requests) /\ Len(queue') = Len(queue)
        /\ Len(queue) \in Nat \ {0}
        /\ \A i \in 1 .. Len(queue) - 1 : queue'[i] = queue[i + 1]
        /\ queue'[Len(queue)] = blocked[1]
    BY <1>1, <2>1, <2>2
  <2>5. /\ blocked' \in Seq(Requests) /\ Len(blocked') = Len(blocked) - 1
        /\ Len(blocked) \in Nat \ {0}
        /\ \A i \in 1 .. Len(blocked) - 1 : blocked'[i] = blocked[i + 1]
    BY <1>1, <1>3, <2>1
  <2>6. stage' \in [Requests -> Stages]
    BY <2>1 DEF IInv, TypeOK, Stages
  <2>7. FullInv'
    BY <1>3, <2>4 DEF IInv, FullInv
  <2>8. \A x \in Requests :
          IF x = blocked[1]
          THEN stage[x] = "blocked" /\ stage'[x] = "waiting"
          ELSE stage'[x] = stage[x]
    BY <2>1, <2>2, <2>3 DEF IInv, TypeOK
  <2> QED BY <1>3, <2>4, <2>5, <2>6, <2>7, <2>8
<1> QED BY <1>2, <1>3

LEMMA PollStep ==
  ASSUME IInv, Poll
  PROVE  IInv'
<1> DEFINE r   == queue[1]
           old == pending[IdOf(r)]
<1>1. 1 \in 1 .. Len(queue) /\ r \in Requests /\ Head(queue) = r
  BY DEF IInv, TypeOK, Poll
<1>2. /\ pending' = [pending EXCEPT ![IdOf(r)] = r]
      /\ slot' = IF old = None THEN slot ELSE Deliver(old, Closed)
      /\ job' = [job EXCEPT ![r] = "held"]
      /\ UNCHANGED <<ticket, nextId, answer, native, total, active>>
  BY <1>1 DEF Poll
<1>3. /\ ticket[r] # 0 /\ job[r] = "none" /\ slot[r] = None
      /\ stage[r] \in {"waiting", "expiring", "done", "dropped"}
      /\ \A i \in 2 .. Len(queue) : queue[i] # r
  BY <1>1 DEF IInv, QueueInv, JobInv
<1>4. IdOf(r) \in Ids /\ old \in Requests \cup {None}
  BY <1>1, IdOfInIds DEF IInv, TypeOK
<1>5. old # None => /\ old # r /\ IdOf(old) = IdOf(r)
                    /\ job[old] # "none" /\ slot[old] = None
  BY <1>3, <1>4 DEF IInv, PendingInv
<1>6. /\ slot' \in [Requests -> Requests \cup {None, Closed}]
      /\ \A x \in Requests : x # old => slot'[x] = slot[x]
      /\ old # None => slot'[old] = IF ReceiverAlive(old) THEN Closed ELSE None
  BY <1>2, <1>4, <1>5, ValueAssumption DEF IInv, TypeOK, Deliver
<1>7. /\ job' \in [Requests -> Jobs] /\ job'[r] = "held"
      /\ \A x \in Requests \ {r} : job'[x] = job[x]
  BY <1>1, <1>2 DEF IInv, TypeOK, Jobs
<1>8. /\ \A i \in 1 .. Len(queue) : queue[i] \in Requests
      /\ \A i \in 1 .. Len(blocked) : blocked[i] \in Requests
  BY DEF IInv, TypeOK
<1>9. blocked # <<>> =>
        /\ 1 \in 1 .. Len(blocked)
        /\ stage[blocked[1]] = "blocked" /\ job[blocked[1]] = "none"
        /\ ticket[blocked[1]] # 0
  <2> SUFFICES ASSUME blocked # <<>> PROVE /\ 1 \in 1 .. Len(blocked)
                                          /\ stage[blocked[1]] = "blocked"
                                          /\ job[blocked[1]] = "none"
                                          /\ ticket[blocked[1]] # 0
    OBVIOUS
  <2>1. 1 \in 1 .. Len(blocked)
    BY DEF IInv, TypeOK
  <2>2. stage[blocked[1]] = "blocked"
    BY <2>1 DEF IInv, BlockedInv
  <2> QED BY <1>8, <2>1, <2>2 DEF IInv, JobInv, TicketInv
<1>10. TypeOK'
  BY <1>1, <1>2, <1>4, <1>6, <1>7, PollChannel DEF IInv, TypeOK
<1>11. ActiveAccounting'
  <2>1. Counted' = Counted
    BY PollChannel DEF Counted, InFlight, Dropped
  <2> QED BY <2>1, <1>2, CountUnchanged DEF IInv
<1>12. TicketInv'
  BY <1>2, <1>9, PollChannel DEF IInv, TicketInv
<1>13. JobInv'
  BY <1>2, <1>3, <1>5, <1>6, <1>7, <1>9, PollChannel DEF IInv, JobInv
<1>14. QueueInv'
  <2>1. \A k \in 2 .. Len(queue) :
          /\ job'[queue[k]] = "none" /\ ticket'[queue[k]] # 0
          /\ stage'[queue[k]] \in {"waiting", "expiring", "done", "dropped"}
    <3> SUFFICES ASSUME NEW k \in 2 .. Len(queue)
                 PROVE  /\ job'[queue[k]] = "none" /\ ticket'[queue[k]] # 0
                        /\ stage'[queue[k]] \in {"waiting", "expiring", "done", "dropped"}
      OBVIOUS
    <3>1. k \in 1 .. Len(queue) /\ queue[k] \in Requests \ {r}
      BY <1>3, <1>8
    <3> QED BY <1>2, <1>7, <3>1, PollChannel DEF IInv, QueueInv
  <2>2. blocked # <<>> =>
          /\ job'[blocked[1]] = "none" /\ ticket'[blocked[1]] # 0
          /\ stage'[blocked[1]] = "waiting"
          /\ \A k \in 1 .. Len(queue) : queue[k] # blocked[1]
    <3>1. blocked # <<>> => blocked[1] \in Requests \ {r}
      BY <1>3, <1>8, <1>9
    <3>2. blocked # <<>> => stage'[blocked[1]] = "waiting"
      BY <3>1, PollChannel
    <3> QED BY <1>2, <1>7, <1>9, <3>1, <3>2 DEF IInv, QueueInv
  <2>3. \A i \in 1 .. Len(queue') :
          \/ i + 1 \in 2 .. Len(queue) /\ queue'[i] = queue[i + 1]
          \/ /\ i = Len(queue') /\ i = Len(queue)
             /\ blocked # <<>> /\ queue'[i] = blocked[1]
    BY PollChannel
  <2>4. ASSUME NEW i \in 1 .. Len(queue')
        PROVE  /\ ticket'[queue'[i]] # 0 /\ job'[queue'[i]] = "none"
               /\ stage'[queue'[i]] \in {"waiting", "expiring", "done", "dropped"}
    <3>1. CASE i + 1 \in 2 .. Len(queue) /\ queue'[i] = queue[i + 1]
      <4>1. PICK k \in 2 .. Len(queue) : queue'[i] = queue[k]
        BY <3>1
      <4> QED BY <2>1, <4>1
    <3>2. CASE blocked # <<>> /\ queue'[i] = blocked[1]
      BY <2>2, <3>2
    <3> QED BY <2>3, <3>1, <3>2
  <2>5. ASSUME NEW i \in 1 .. Len(queue'), NEW j \in 1 .. Len(queue'),
               queue'[i] = queue'[j]
        PROVE  i = j
    <3>1. CASE i + 1 \in 2 .. Len(queue) /\ queue'[i] = queue[i + 1]
      <4>1. ~(blocked # <<>> /\ queue'[j] = blocked[1])
        BY <2>2, <2>5, <3>1
      <4>2. j + 1 \in 2 .. Len(queue) /\ queue'[j] = queue[j + 1]
        BY <2>3, <4>1
      <4>3. i + 1 \in 1 .. Len(queue) /\ j + 1 \in 1 .. Len(queue)
        BY <3>1, <4>2
      <4>4. queue[i + 1] = queue[j + 1]
        BY <2>5, <3>1, <4>2
      <4>5. i + 1 = j + 1
        BY <4>3, <4>4 DEF IInv, QueueInv
      <4> QED BY <4>5
    <3>2. CASE i = Len(queue') /\ blocked # <<>> /\ queue'[i] = blocked[1]
      BY <2>2, <2>3, <2>5, <3>2
    <3> QED BY <2>3, <3>1, <3>2
  <2> QED BY <2>4, <2>5 DEF QueueInv
<1>15. BlockedInv'
  <2>1. \A i \in 1 .. Len(blocked') :
          i + 1 \in 2 .. Len(blocked) /\ blocked'[i] = blocked[i + 1]
    BY PollChannel
  <2>2. \A k \in 2 .. Len(blocked) : blocked[k] # blocked[1]
    BY <1>9 DEF IInv, BlockedInv
  <2>3. ASSUME NEW i \in 1 .. Len(blocked')
        PROVE  stage'[blocked'[i]] = "blocked"
    <3>1. blocked'[i] \in Requests /\ blocked'[i] # blocked[1]
      BY <1>8, <2>1, <2>2
    <3>2. stage[blocked'[i]] = "blocked"
      BY <2>1 DEF IInv, BlockedInv
    <3> QED BY <3>1, <3>2, PollChannel
  <2>4. ASSUME NEW i \in 1 .. Len(blocked'), NEW j \in 1 .. Len(blocked'),
               blocked'[i] = blocked'[j]
        PROVE  i = j
    <3>1. i + 1 = j + 1
      BY <2>1, <2>4 DEF IInv, BlockedInv
    <3> QED BY <3>1
  <2>5. ASSUME NEW x \in Requests, stage'[x] = "blocked"
        PROVE  \E i \in 1 .. Len(blocked') : blocked'[i] = x
    <3>1. stage[x] = "blocked" /\ (blocked # <<>> => x # blocked[1])
      BY <2>5, PollChannel
    <3>2. PICK k \in 1 .. Len(blocked) : blocked[k] = x
      BY <3>1 DEF IInv, BlockedInv
    <3>3. k \in 2 .. Len(blocked)
      BY <3>1, <3>2 DEF IInv, TypeOK
    <3>4. k - 1 \in 1 .. Len(blocked') /\ blocked'[k - 1] = blocked[k]
      BY <3>3, PollChannel
    <3> QED BY <3>2, <3>4
  <2> QED BY <2>3, <2>4, <2>5 DEF BlockedInv
<1>16. PendingInv'
  BY <1>1, <1>2, <1>3, <1>4, <1>5, <1>6, <1>7 DEF IInv, TypeOK, PendingInv, IdOf
<1>17. SlotInv'
  BY <1>1, <1>2, <1>3, <1>4, <1>5, <1>6, <1>7, ValueAssumption
  DEF IInv, SlotInv, IdOf
<1>18. WaiterInv'
  <2> SUFFICES ASSUME NEW x \in Requests, ReceiverAlive(x)', slot'[x] = None
               PROVE  \/ \E i \in 1 .. Len(queue') : queue'[i] = x
                      \/ pending'[IdOf(x)'] = x
    BY DEF WaiterInv
  <2>1. IdOf(x)' = IdOf(x) /\ IdOf(x) \in Ids
    BY <1>2, IdOfInIds DEF IInv, IdOf
  <2>2. CASE blocked # <<>> /\ x = blocked[1]
    BY <2>2, PollChannel
  <2>3. CASE ~(blocked # <<>> /\ x = blocked[1])
    <3>1. stage'[x] = stage[x] /\ ReceiverAlive(x)
      BY <2>3, PollChannel DEF ReceiverAlive
    <3>2. x # old /\ slot[x] = None
      BY <1>5, <1>6, <3>1, ValueAssumption
    <3>3. CASE x = r
      BY <1>2, <1>4, <2>1, <3>3 DEF IInv, TypeOK
    <3>4. CASE \E i \in 2 .. Len(queue) : queue[i] = x
      BY <3>4, PollChannel
    <3>5. CASE pending[IdOf(x)] = x
      <4>1. CASE IdOf(x) = IdOf(r)
        BY <3>2, <3>5, <4>1
      <4>2. CASE IdOf(x) # IdOf(r)
        BY <1>2, <2>1, <3>5, <4>2 DEF IInv, TypeOK
      <4> QED BY <4>1, <4>2
    <3>6. (\E i \in 1 .. Len(queue) : queue[i] = x) \/ pending[IdOf(x)] = x
      BY <3>1, <3>2 DEF IInv, WaiterInv
    <3> QED BY <3>3, <3>4, <3>5, <3>6
  <2> QED BY <2>2, <2>3
<1> QED BY <1>10, <1>11, <1>12, <1>13, <1>14, <1>15, <1>16, <1>17, <1>18,
           PollChannel DEF IInv

LEMMA NextInv == IInv /\ [Next]_vars => IInv'
<1> SUFFICES ASSUME IInv, [Next]_vars PROVE IInv'
  OBVIOUS
<1>1. ASSUME NEW r \in Requests, Client(r) PROVE IInv'
  <2>1. CASE Arrive(r)
    BY <2>1, ArriveStep
  <2>2. CASE RejectBody(r)
    BY <2>2, FinishStep DEF RejectBody, Answers
  <2>3. CASE RejectDto(r)
    BY <2>3, FinishStep DEF RejectDto, Answers
  <2>4. CASE TakeId(r)
    BY <2>4, TakeIdStep
  <2>5. CASE Disconnect(r)
    BY <2>5, DisconnectStep
  <2> QED BY <1>1, <2>1, <2>2, <2>3, <2>4, <2>5 DEF Client
<1>2. ASSUME NEW r \in Requests, Server(r) PROVE IInv'
  <2>1. CASE Send(r)
    BY <2>1, SendStep
  <2>2. CASE Resume(r)
    <3>1. PICK a \in {"empty", "php"} : Finish(r, a)
      BY <2>2 DEF Resume
    <3> QED BY <2>2, <3>1, FinishStep DEF Resume, Answers
  <2>3. CASE CheckDeadline(r)
    BY <2>3, CheckDeadlineStep
  <2>4. CASE Expire(r)
    BY <2>4, FinishStep DEF Expire, Answers
  <2> QED BY <1>2, <2>1, <2>2, <2>3, <2>4 DEF Server
<1>3. ASSUME NEW r \in Requests, Php(r) PROVE IInv'
  BY <1>3, RespondStep, AbandonStep DEF Php
<1>4. CASE Poll
  BY <1>4, PollStep
<1>5. ASSUME NEW h \in Handlers, Preload(h) PROVE IInv'
  BY <1>5, PreloadStep
<1>6. CASE UNCHANGED vars
  BY <1>6 DEF vars, IInv, TypeOK, ActiveAccounting, InFlight, Dropped, TicketInv,
       JobInv, QueueInv, BlockedInv, FullInv, PendingInv, SlotInv, WaiterInv,
       ReceiverAlive, IdOf
<1> QED BY <1>1, <1>2, <1>3, <1>4, <1>5, <1>6 DEF Next

-----------------------------------------------------------------------------
(* The theorems. *)

(* The invariant of every behaviour: where a request and its sender can be *)
(* in every interleaving of the futures, the client and the PHP loop.      *)
THEOREM Invariance == Spec => []IInv
  BY InitInv, NextInv, PTL DEF Spec

(* The variables keep their types; ACTIVE_REQUESTS never underflows.       *)
THEOREM TypeCorrect == Spec => []TypeOK
<1>1. IInv => TypeOK
  BY DEF IInv
<1> QED BY <1>1, Invariance, PTL

(* A client gets a foreign result only after a full turn of the id counter *)
(* between the two requests (REQUEST_ID and PENDING_RESPONSES).            *)
THEOREM NoForeignResult == Spec => []ForeignResultNeedsWrap
<1>1. ASSUME IInv, NEW r \in Requests, slot[r] \notin {None, Closed, r}
      PROVE  WrappedApart(slot[r], r)
  <2>1. slot[r] \in Requests /\ slot[r] # r /\ IdOf(slot[r]) = IdOf(r)
    BY <1>1 DEF IInv, TypeOK, SlotInv
  <2>2. ticket[r] # 0
    BY <1>1 DEF IInv, JobInv
  <2> QED BY <1>1, <2>1, <2>2, SameIdWrapped DEF IInv
<1>2. IInv => ForeignResultNeedsWrap
  BY <1>1 DEF ForeignResultNeedsWrap
<1> QED BY <1>2, Invariance, PTL

(* A sender is dropped unused, and the empty response sent, only after a   *)
(* full turn of the id counter.                                            *)
THEOREM NoEmptyResult == Spec => []EmptyResultNeedsWrap
<1>1. ASSUME IInv, NEW r \in Requests, slot[r] = Closed
      PROVE  \E q \in Requests : job[q] # "none" /\ WrappedApart(q, r)
  <2>1. PICK q \in Requests : q # r /\ job[q] # "none" /\ IdOf(q) = IdOf(r)
    BY <1>1 DEF IInv, SlotInv
  <2>2. ticket[r] # 0
    BY <1>1, ValueAssumption DEF IInv, JobInv
  <2>3. WrappedApart(q, r)
    BY <1>1, <2>1, <2>2, SameIdWrapped DEF IInv
  <2> QED BY <2>1, <2>3
<1>2. IInv => EmptyResultNeedsWrap
  BY <1>1 DEF EmptyResultNeedsWrap
<1> QED BY <1>2, Invariance, PTL

(* No waiting client is forgotten by the channel and the table.            *)
THEOREM WaitersReachable == Spec => []WaiterIsReachable
<1>1. IInv => WaiterIsReachable
  <2> SUFFICES ASSUME IInv, NEW r \in Requests, ReceiverAlive(r), slot[r] = None
               PROVE  r \in Range(queue) \/ pending[IdOf(r)] = r
    BY DEF WaiterIsReachable
  <2>1. DOMAIN queue = 1 .. Len(queue)
    BY DEF IInv, TypeOK
  <2> QED BY <2>1 DEF IInv, WaiterInv, Range
<1> QED BY <1>1, Invariance, PTL

(* Timeouts and disconnects leak no entry of PENDING_RESPONSES.            *)
THEOREM LeaksAreAbandoned == Spec => []LeakOnlyByAbandonment
<1>1. IInv => LeakOnlyByAbandonment
  BY DEF IInv, PendingInv, LeakOnlyByAbandonment
<1> QED BY <1>1, Invariance, PTL

(* A worker thread is parked in the channel send only while the channel is *)
(* exactly full.                                                           *)
THEOREM ParkingIsFullness == Spec => []ParkedOnlyWhenFull
<1>1. IInv => ParkedOnlyWhenFull
  <2> SUFFICES ASSUME IInv PROVE ParkedOnlyWhenFull
    OBVIOUS
  <2>1. DOMAIN blocked = 1 .. Len(blocked)
    BY DEF IInv, TypeOK
  <2>2. \A i \in 1 .. Len(blocked) : blocked[i] \in Requests
    BY DEF IInv, TypeOK
  <2>3. Range(blocked) = {r \in Requests : stage[r] = "blocked"}
    BY <2>1, <2>2 DEF IInv, BlockedInv, Range
  <2> QED BY <2>3 DEF IInv, FullInv, ParkedOnlyWhenFull
<1> QED BY <1>1, Invariance, PTL

(* ACTIVE_REQUESTS counts the requests in flight and the abandoned ones.   *)
THEOREM ActiveCounted == Spec => []ActiveAccounting
<1>1. IInv => ActiveAccounting
  BY DEF IInv
<1> QED BY <1>1, Invariance, PTL

(* Nothing overwrites a response: only the oneshot of a sender that is     *)
(* still in the table is resolved, and such a oneshot is untouched.        *)
LEMMA ResponseStays ==
  ASSUME IInv, [Next]_vars, NEW r \in Requests, slot[r] = r
  PROVE  slot'[r] = r
<1>1. ASSUME NEW i \in Ids, pending[i] # None, NEW v, slot' = Deliver(pending[i], v)
      PROVE  slot'[r] = r
  <2>1. pending[i] \in Requests /\ pending[i] # r
    BY <1>1, ValueAssumption DEF IInv, TypeOK, PendingInv
  <2> QED BY <1>1, <2>1 DEF Deliver, IInv, TypeOK
<1>2. ASSUME NEW q \in Requests, Respond(q) PROVE slot'[r] = r
  <2>1. IdOf(q) \in Ids
    BY <1>2, IdOfInIds DEF Respond, IInv, JobInv
  <2> QED BY <1>1, <1>2, <2>1 DEF Respond
<1>3. CASE Poll
  <2>1. queue \in Seq(Requests) /\ queue # <<>>
    BY <1>3 DEF Poll, IInv, TypeOK
  <2>2. IdOf(Head(queue)) \in Ids
    BY <2>1, IdOfInIds DEF IInv, QueueInv
  <2> QED BY <1>1, <1>3, <2>2 DEF Poll
<1>4. CASE UNCHANGED slot
  BY <1>4
<1> QED BY <1>2, <1>3, <1>4 DEF Next, Client, Server, Php, Arrive, RejectBody,
     RejectDto, TakeId, Disconnect, Send, Resume, CheckDeadline, Expire, Abandon,
     Preload, vars

(* A future whose oneshot holds its response does not look at the deadline. *)
LEMMA ResponseIsTheAnswer ==
  ASSUME IInv, [Next]_vars, NEW r \in Requests, stage[r] = "waiting", slot[r] = r
  PROVE  \/ stage'[r] = "waiting"
         \/ stage'[r] = "done" /\ answer'[r] = "php"
         \/ stage'[r] = "dropped"
<1> USE DEF IInv, TypeOK
<1>1. CASE Resume(r)
  BY <1>1, ValueAssumption DEF Resume, Finish
<1>2. CASE CheckDeadline(r)
  BY <1>2, ValueAssumption DEF CheckDeadline
<1>3. CASE Disconnect(r)
  BY <1>3 DEF Disconnect
<1>4. ASSUME Arrive(r) \/ RejectBody(r) \/ RejectDto(r) \/ TakeId(r) \/ Send(r)
               \/ Expire(r)
      PROVE  FALSE
  BY <1>4 DEF Arrive, RejectBody, RejectDto, TakeId, Send, Expire
<1>5. ASSUME NEW q \in Requests, q # r, Client(q) \/ Server(q)
      PROVE  stage'[r] = "waiting"
  BY <1>5 DEF Client, Server, Arrive, RejectBody, RejectDto, TakeId, Disconnect,
     Send, Resume, CheckDeadline, Expire, Finish
<1>6. CASE Poll
  BY <1>6, PollChannel
<1>7. CASE UNCHANGED stage
  BY <1>7
<1> QED BY <1>1, <1>2, <1>3, <1>4, <1>5, <1>6, <1>7 DEF Next, Client, Server, Php,
     Respond, Abandon, Preload, vars

(* PHP's response to a job reaches the client that waits for it, and is    *)
(* what that client is answered with unless it leaves: no other response,  *)
(* no displaced id and no deadline comes between.  A client that has found *)
(* its oneshot empty and looks at its deadline no longer waits.            *)
THEOREM ResponseArrives == Spec => RespondReachesItsClient
<1> DEFINE Reaches ==
      \A r \in Requests : stage[r] = "waiting" =>
        /\ Respond(r) /\ slot[r] = None => slot'[r] = r
        /\ slot[r] = r => \/ stage'[r] = "waiting" /\ slot'[r] = r
                          \/ stage'[r] = "done"    /\ answer'[r] = "php"
                          \/ stage'[r] = "dropped"
<1>1. IInv /\ [Next]_vars => [Reaches]_vars
  <2> SUFFICES ASSUME IInv, [Next]_vars, NEW r \in Requests, stage[r] = "waiting"
               PROVE  /\ Respond(r) /\ slot[r] = None => slot'[r] = r
                      /\ slot[r] = r => \/ stage'[r] = "waiting" /\ slot'[r] = r
                                        \/ stage'[r] = "done" /\ answer'[r] = "php"
                                        \/ stage'[r] = "dropped"
    OBVIOUS
  <2>1. ASSUME Respond(r), slot[r] = None PROVE slot'[r] = r
    <3>1. pending[IdOf(r)] = r
      BY <2>1, HeldIsPending DEF Respond, ReceiverAlive
    <3>2. slot' = [slot EXCEPT ![r] = r]
      BY <2>1, <3>1, ValueAssumption DEF Respond, Deliver, ReceiverAlive
    <3> QED BY <3>2 DEF IInv, TypeOK
  <2>2. ASSUME slot[r] = r
        PROVE  \/ stage'[r] = "waiting" /\ slot'[r] = r
               \/ stage'[r] = "done" /\ answer'[r] = "php"
               \/ stage'[r] = "dropped"
    BY <2>2, ResponseStays, ResponseIsTheAnswer
  <2> QED BY <2>1, <2>2
<1>2. [][Reaches]_vars <=> RespondReachesItsClient
  BY PTL DEF RespondReachesItsClient
<1> QED BY <1>1, <1>2, Invariance, PTL DEF Spec
-----------------------------------------------------------------------------
(* The order of the requests on their way to PHP. *)

(* A send that finds room joins an empty crowd; one that finds none joins  *)
(* the end of it.  Either way it is the last in line.                      *)
LEMMA SendJoinsLast ==
  ASSUME IInv, NEW r \in Requests, Send(r)
  PROVE  Line' = Append(Line, r)
<1>1. queue \in Seq(Requests) /\ blocked \in Seq(Requests)
  BY DEF IInv, TypeOK
<1>2. CASE HasRoom
  <2>1. queue' = Append(queue, r) /\ blocked' = blocked
    BY <1>2 DEF Send
  <2>2. blocked = <<>>
    BY <1>1, <1>2, DepthAssumption DEF IInv, FullInv, HasRoom
  <2>3. Append(queue, r) \in Seq(Requests)
    BY <1>1
  <2> QED BY <1>1, <2>1, <2>2, <2>3, ConcatEmptySeq DEF Line
<1>3. CASE ~HasRoom
  <2>1. queue' = queue /\ blocked' = Append(blocked, r)
    BY <1>3 DEF Send
  <2>2. queue \o Append(blocked, r) = Append(queue \o blocked, r)
    <3>1. Append(blocked, r) = blocked \o <<r>>
      BY <1>1, AppendIsConcat
    <3>2. Append(queue \o blocked, r) = (queue \o blocked) \o <<r>>
      <4>1. queue \o blocked \in Seq(Requests)
        BY <1>1, ConcatProperties
      <4> QED BY <4>1, AppendIsConcat
    <3>3. <<r>> \in Seq(Requests)
      OBVIOUS
    <3> QED BY <1>1, <3>1, <3>2, <3>3, ConcatAssociative
  <2> QED BY <2>1, <2>2 DEF Line
<1> QED BY <1>2, <1>3

(* A poll takes the first in line; the parked send it lets in moves from   *)
(* one part of the line to the other and keeps its place.                  *)
LEMMA PollTakesFirst ==
  ASSUME IInv, Poll
  PROVE  Line # <<>> /\ Line' = Tail(Line)
<1>1. queue \in Seq(Requests) /\ blocked \in Seq(Requests) /\ queue # <<>>
  BY DEF IInv, TypeOK, Poll
<1>2. Line # <<>> /\ Tail(Line) = Tail(queue) \o blocked
  <2>1. /\ Line \in Seq(Requests) /\ Len(Line) = Len(queue) + Len(blocked)
        /\ \A i \in 1 .. Len(queue) + Len(blocked) :
             Line[i] = IF i <= Len(queue) THEN queue[i] ELSE blocked[i - Len(queue)]
    BY <1>1, ConcatProperties DEF Line
  <2>2. Len(queue) \in Nat \ {0} /\ Len(blocked) \in Nat
    BY <1>1, EmptySeq, LenProperties
  <2>3. Line # <<>>
    BY <2>1, <2>2
  <2>4. /\ Tail(queue) \in Seq(Requests) /\ Len(Tail(queue)) = Len(queue) - 1
        /\ \A i \in 1 .. Len(queue) - 1 : Tail(queue)[i] = queue[i + 1]
    BY <1>1, HeadTailProperties
  <2>5. /\ Tail(Line) \in Seq(Requests) /\ Len(Tail(Line)) = Len(Line) - 1
        /\ \A i \in 1 .. Len(Line) - 1 : Tail(Line)[i] = Line[i + 1]
    BY <2>1, <2>3, HeadTailProperties
  <2> DEFINE rest == Tail(queue) \o blocked
  <2>6. /\ rest \in Seq(Requests) /\ Len(rest) = Len(queue) - 1 + Len(blocked)
        /\ \A i \in 1 .. Len(queue) - 1 + Len(blocked) :
             rest[i] = IF i <= Len(queue) - 1 THEN Tail(queue)[i]
                       ELSE blocked[i - (Len(queue) - 1)]
    BY <1>1, <2>4, ConcatProperties
  <2>7. \A i \in 1 .. Len(rest) : rest[i] = Tail(Line)[i]
    <3> SUFFICES ASSUME NEW i \in 1 .. Len(rest) PROVE rest[i] = Tail(Line)[i]
      OBVIOUS
    <3>1. /\ i \in Nat \ {0} /\ i + 1 \in 1 .. Len(queue) + Len(blocked)
          /\ Tail(Line)[i] = Line[i + 1]
      BY <2>1, <2>2, <2>5, <2>6
    <3>2. CASE i <= Len(queue) - 1
      BY <2>1, <2>2, <2>4, <2>6, <3>1, <3>2
    <3>3. CASE i > Len(queue) - 1
      <4>1. i + 1 - Len(queue) = i - (Len(queue) - 1)
        BY <2>2, <3>1
      <4> QED BY <2>1, <2>2, <2>6, <3>1, <3>3, <4>1
    <3>4. i <= Len(queue) - 1 \/ i > Len(queue) - 1
      BY <2>2, <3>1
    <3> QED BY <3>2, <3>3, <3>4
  <2>8. Len(rest) = Len(Tail(Line))
    BY <2>1, <2>2, <2>5, <2>6
  <2> HIDE DEF rest
  <2>9. rest = Tail(Line)
    BY <2>5, <2>6, <2>7, <2>8, SeqEqual
  <2> QED BY <2>3, <2>9 DEF rest
<1>3. CASE blocked = <<>>
  BY <1>2, <1>3 DEF Poll, Line
<1>4. CASE blocked # <<>>
  <2>1. queue' = Append(Tail(queue), Head(blocked)) /\ blocked' = Tail(blocked)
    BY <1>4 DEF Poll
  <2>2. /\ Tail(queue) \in Seq(Requests) /\ Tail(blocked) \in Seq(Requests)
        /\ Head(blocked) \in Requests
    BY <1>1, <1>4, HeadTailProperties
  <2>3. Append(Tail(queue), Head(blocked)) = Tail(queue) \o <<Head(blocked)>>
    BY <2>2, AppendIsConcat
  <2>4. <<Head(blocked)>> \in Seq(Requests)
    BY <2>2
  <2>5. <<Head(blocked)>> \o Tail(blocked) = blocked
    <3> DEFINE whole == <<Head(blocked)>> \o Tail(blocked)
    <3>1. /\ Len(Tail(blocked)) = Len(blocked) - 1 /\ Len(blocked) \in Nat \ {0}
          /\ \A i \in 1 .. Len(Tail(blocked)) : Tail(blocked)[i] = blocked[i + 1]
      BY <1>1, <1>4, HeadTailProperties, EmptySeq
    <3>2. Len(<<Head(blocked)>>) = 1 /\ <<Head(blocked)>>[1] = blocked[1]
      BY <1>1, <1>4
    <3>3. /\ whole \in Seq(Requests) /\ Len(whole) = 1 + Len(Tail(blocked))
          /\ \A i \in 1 .. 1 + Len(Tail(blocked)) :
               whole[i] = IF i <= 1 THEN <<Head(blocked)>>[i] ELSE Tail(blocked)[i - 1]
      BY <2>2, <2>4, <3>2, ConcatProperties
    <3>4. \A i \in 1 .. Len(whole) : whole[i] = blocked[i]
      BY <3>1, <3>2, <3>3
    <3>5. Len(whole) = Len(blocked)
      BY <3>1, <3>3
    <3> HIDE DEF whole
    <3>6. whole = blocked
      BY <1>1, <3>3, <3>4, <3>5, SeqEqual
    <3> QED BY <3>6 DEF whole
  <2>6. (Tail(queue) \o <<Head(blocked)>>) \o Tail(blocked) = Tail(queue) \o blocked
    BY <2>2, <2>4, <2>5, ConcatAssociative
  <2> QED BY <1>2, <2>1, <2>3, <2>6 DEF Line
<1> QED BY <1>3, <1>4

(* PHP polls the requests in the order in which they were sent, whichever  *)
(* of them were parked on the way.                                         *)
THEOREM PolledInOrder == Spec => LineIsFifo
<1> DEFINE Fifo == \/ Line' = Line
                   \/ \E r \in Requests : Line' = Append(Line, r)
                   \/ Line # <<>> /\ Line' = Tail(Line)
<1>1. IInv /\ [Next]_vars => [Fifo]_vars
  <2> SUFFICES ASSUME IInv, Next PROVE Fifo
    BY DEF vars
  <2>1. ASSUME NEW r \in Requests, Send(r) PROVE Fifo
    BY <2>1, SendJoinsLast
  <2>2. CASE Poll
    BY <2>2, PollTakesFirst
  <2>3. CASE UNCHANGED <<queue, blocked>>
    BY <2>3 DEF Line
  <2>4. ASSUME NEW r \in Requests, Client(r) \/ Php(r) \/ Resume(r)
                                     \/ CheckDeadline(r) \/ Expire(r)
        PROVE  UNCHANGED <<queue, blocked>>
    BY <2>4 DEF Client, Php, Arrive, RejectBody, RejectDto, TakeId, Disconnect,
       Resume, CheckDeadline, Expire, Respond, Abandon
  <2>5. ASSUME NEW h \in Handlers, Preload(h) PROVE UNCHANGED <<queue, blocked>>
    BY <2>5 DEF Preload
  <2> QED BY <2>1, <2>2, <2>3, <2>4, <2>5 DEF Next, Server
<1> QED BY <1>1, Invariance, PTL DEF Spec, LineIsFifo

-----------------------------------------------------------------------------
(* The worker threads. *)

(* No more futures occupy a worker thread than there are. *)
WorkerInv == Cardinality(Busy) <= NumWorkers

LEMMA BusyFinite == IsFiniteSet(Busy) /\ Cardinality(Busy) \in Nat
<1>1. IsFiniteSet(Busy)
  BY RequestsAssumption, FS_Subset DEF Busy
<1> QED BY <1>1, FS_CardinalityType

LEMMA PartOfBusy ==
  ASSUME NEW s, s \subseteq Busy
  PROVE  /\ Cardinality(s) \in Nat
         /\ Cardinality(s) <= Cardinality(Busy)
         /\ Cardinality(s) = Cardinality(Busy) => s = Busy
<1>1. s \in SUBSET Busy
  OBVIOUS
<1> QED BY <1>1, BusyFinite, FS_Subset, FS_CardinalityType

LEMMA InitWorkers == Init => WorkerInv
<1> SUFFICES ASSUME Init PROVE WorkerInv
  OBVIOUS
<1>1. Busy = {}
  BY DEF Init, Busy
<1> QED BY <1>1, FS_EmptySet, WorkersAssumption DEF WorkerInv

(* A future takes a thread only if one is free; the others leave theirs,   *)
(* or keep it.                                                             *)
LEMMA StepWorkers == TypeOK /\ WorkerInv /\ [Next]_vars => WorkerInv'
<1> SUFFICES ASSUME TypeOK, WorkerInv, [Next]_vars PROVE WorkerInv'
  OBVIOUS
<1>1. ASSUME Busy' \subseteq Busy PROVE WorkerInv'
  <2>1. Cardinality(Busy') \in Nat /\ Cardinality(Busy') <= Cardinality(Busy)
    BY <1>1, PartOfBusy
  <2> QED BY <2>1, BusyFinite, WorkersAssumption DEF WorkerInv
<1>2. ASSUME NEW r \in Requests, TakeId(r) \/ CheckDeadline(r) PROVE WorkerInv'
  <2>1. WorkerFree /\ r \notin Busy /\ Busy' = Busy \cup {r}
    BY <1>2 DEF TakeId, CheckDeadline, Busy, TypeOK
  <2>2. Cardinality(Busy') = Cardinality(Busy) + 1
    BY <2>1, BusyFinite, FS_AddElement
  <2> QED BY <2>1, <2>2, BusyFinite, WorkersAssumption DEF WorkerFree, WorkerInv
<1>3. ASSUME NEW r \in Requests, Arrive(r) PROVE Busy' \subseteq Busy
  BY <1>3 DEF Arrive, Busy, TypeOK
<1>4. ASSUME NEW r \in Requests, RejectBody(r) \/ RejectDto(r) \/ Resume(r)
                                   \/ Expire(r) \/ Disconnect(r)
      PROVE  Busy' \subseteq Busy
  BY <1>4 DEF RejectBody, RejectDto, Resume, Expire, Disconnect, Finish, Busy, TypeOK
<1>5. ASSUME NEW r \in Requests, Send(r) PROVE Busy' \subseteq Busy
  BY <1>5 DEF Send, Busy, TypeOK
<1>6. ASSUME Poll PROVE Busy' \subseteq Busy
  <2>1. \/ stage' = stage
        \/ \E x : stage' = [stage EXCEPT ![x] = "waiting"]
    BY <1>6 DEF Poll
  <2> QED BY <2>1 DEF Busy, TypeOK
<1>7. CASE UNCHANGED stage
  BY <1>1, <1>7 DEF Busy
<1>8. ASSUME NEW r \in Requests, Php(r) PROVE UNCHANGED stage
  BY <1>8 DEF Php, Respond, Abandon
<1>9. ASSUME NEW h \in Handlers, Preload(h) PROVE UNCHANGED stage
  BY <1>9 DEF Preload
<1> QED BY <1>1, <1>2, <1>3, <1>4, <1>5, <1>6, <1>7, <1>8, <1>9
        DEF Next, Client, Server, vars

(* When all threads are parked there is none between an id and its send,   *)
(* or between an empty oneshot and its deadline.                           *)
LEMMA ParkedAreBusy ==
  ASSUME WorkerInv, AllParked, NEW r \in Requests
  PROVE  ~WorkerFree /\ stage[r] \notin {"sending", "expiring"}
<1> DEFINE parked == {q \in Requests : stage[q] = "blocked"}
<1>1. parked \subseteq Busy
  BY DEF Busy
<1>2. Cardinality(parked) = NumWorkers
  BY DEF AllParked
<1>3. Cardinality(Busy) = NumWorkers
  <2>1. Cardinality(parked) <= Cardinality(Busy) /\ Cardinality(Busy) \in Nat
    <3> HIDE DEF parked
    <3> QED BY <1>1, PartOfBusy, BusyFinite
  <2> QED BY <1>2, <2>1, WorkersAssumption DEF WorkerInv
<1>4. parked = Busy
  <2> HIDE DEF parked
  <2> QED BY <1>1, <1>2, <1>3, PartOfBusy
<1>5. ~WorkerFree
  BY <1>3, WorkersAssumption DEF WorkerFree
<1> QED BY <1>4, <1>5 DEF Busy

(* A full channel stops the whole server once every worker thread has sent *)
(* into it: no timer, client or ready response moves anything, only PHP's  *)
(* next poll does.                                                         *)
THEOREM StallLasts == Spec => OnlyPollEndsAStall
<1> DEFINE Stall == AllParked /\ stage' # stage => Poll
<1>1. IInv /\ WorkerInv /\ [Next]_vars => [Stall]_vars
  <2> SUFFICES ASSUME WorkerInv, AllParked, stage' # stage, Next PROVE Poll
    BY DEF vars
  <2>1. \A r \in Requests : ~WorkerFree /\ stage[r] \notin {"sending", "expiring"}
    BY ParkedAreBusy
  <2>2. \A r \in Requests : ~Client(r) /\ ~Server(r)
    BY <2>1 DEF Client, Server, Arrive, RejectBody, RejectDto, TakeId, Disconnect,
       Send, Resume, CheckDeadline, Expire
  <2>3. \A r \in Requests : ~Php(r)
    BY DEF Php, Respond, Abandon
  <2>4. \A h \in Handlers : ~Preload(h)
    BY DEF Preload
  <2> QED BY <2>2, <2>3, <2>4 DEF Next
<1>2. IInv => TypeOK
  BY DEF IInv
<1>3. Spec => []WorkerInv
  <2>1. IInv /\ WorkerInv /\ [Next]_vars => WorkerInv'
    BY <1>2, StepWorkers
  <2> QED BY <2>1, Invariance, InitWorkers, PTL DEF Spec
<1> QED BY <1>1, <1>3, Invariance, PTL DEF Spec, OnlyPollEndsAStall
============================================================================
