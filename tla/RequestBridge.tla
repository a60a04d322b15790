--------------------------- MODULE RequestBridge ---------------------------
(***************************************************************************)
(* The request bridge of quill-core: how one worker process turns an HTTP  *)
(* request into an answer.  An axum handler future routes the request,     *)
(* reads its body, takes a request id and sends a PendingRequest through a *)
(* flume channel; the PHP loop polls it, runs the handler and responds     *)
(* with the id; PENDING_RESPONSES maps the id back to the oneshot sender   *)
(* the future waits on, for at most 30 seconds.                            *)
(*                                                                         *)
(* Grain of atomicity.  A tokio worker thread runs a future without        *)
(* interruption between two awaits, except that the channel send is the    *)
(* blocking flume call: a future whose send finds the channel full keeps   *)
(* its worker thread.  The id is taken and the request is sent in two      *)
(* steps, since another thread can run in between.  Each FFI call of the   *)
(* PHP thread is one step.  Time is abstract: a deadline may pass whenever *)
(* the future is waiting.                                                  *)
(*                                                                         *)
(* Code that is not in the repository (the client, hyper dropping the      *)
(* future of a connection that went away, the PHP loop) is modelled from   *)
(* how src/lib.rs uses it.                                                 *)
(***************************************************************************)
EXTENDS Naturals, Sequences, FiniteSets, Functions

CONSTANTS
  Requests,       \* the HTTP requests the process ever receives
  NumWorkers,     \* tokio worker threads
  MaxQueueDepth,  \* capacity of the channel, 0 for an unbounded one
  IdSpace,        \* number of request ids: 2^24 in the code
  Handlers,       \* handler ids of the routes
  Route,          \* what match_route returns for each request
  HasValidator,   \* a ValidatorRegistry was given to quill_server_listen
  None,           \* no request, nothing in a oneshot
  Closed          \* a oneshot whose sender was dropped unused

RouteResult == [match : {"ok", "not_found", "not_allowed"},
                handler : Handlers, params : BOOLEAN, dto : BOOLEAN]

ASSUME RequestsAssumption == IsFiniteSet(Requests)
ASSUME WorkersAssumption  == NumWorkers \in Nat \ {0}
ASSUME DepthAssumption    == MaxQueueDepth \in Nat
ASSUME IdAssumption       == IdSpace \in Nat \ {0}
ASSUME RouteAssumption    == Route \in [Requests -> RouteResult]
ASSUME FlagAssumption     == HasValidator \in BOOLEAN
ASSUME ValueAssumption    == /\ None \notin Requests
                             /\ Closed \notin Requests
                             /\ None # Closed

VARIABLES
  stage,    \* where each request's handler future is
  ticket,   \* value REQUEST_ID had for the request, 0 before it took one
  nextId,   \* REQUEST_ID
  queue,    \* requests in the channel, oldest first
  blocked,  \* requests whose send is parked because the channel is full
  pending,  \* PENDING_RESPONSES: id -> request whose oneshot sender it holds
  slot,     \* each request's oneshot: None, Closed, or whose result it holds
  job,      \* what PHP did with each request
  answer,   \* the kind of HTTP answer each request got
  native,   \* handlers with a preloaded response
  total,    \* TOTAL_REQUESTS
  active    \* ACTIVE_REQUESTS

vars == <<stage, ticket, nextId, queue, blocked, pending, slot, job, answer,
          native, total, active>>

Ids     == 0 .. IdSpace - 1
Stages  == {"new", "reading", "sending", "blocked", "waiting", "expiring",
            "done", "dropped"}
Jobs    == {"none", "held", "answered", "abandoned"}
Answers == {"none", "not_found", "not_allowed", "native", "too_large",
            "invalid", "timeout", "empty", "php"}

(* The id a request was sent to PHP with: the counter keeps its low bits.  *)
(* The process's pid bits are the same for every id of one table.          *)
IdOf(r) == ticket[r] % IdSpace

(* Requests whose handler future exists. *)
InFlight == {r \in Requests : stage[r] \in
               {"reading", "sending", "blocked", "waiting", "expiring"}}
Dropped  == {r \in Requests : stage[r] = "dropped"}

(* Futures that occupy a worker thread between two of their steps. *)
Busy == {r \in Requests : stage[r] \in {"sending", "blocked", "expiring"}}
WorkerFree == Cardinality(Busy) < NumWorkers

ReceiverAlive(r) == stage[r] \in {"waiting", "expiring"}

(* Mutant: one request too many fits into the channel. *)
HasRoomForOneMore == MaxQueueDepth = 0 \/ Len(queue) <= MaxQueueDepth

HasRoom == MaxQueueDepth = 0 \/ Len(queue) < MaxQueueDepth

Init ==
  /\ stage   = [r \in Requests |-> "new"]
  /\ ticket  = [r \in Requests |-> 0]
  /\ nextId  = 1
  /\ queue   = <<>>
  /\ blocked = <<>>
  /\ pending = [i \in Ids |-> None]
  /\ slot    = [r \in Requests |-> None]
  /\ job     = [r \in Requests |-> "none"]
  /\ answer  = [r \in Requests |-> "none"]
  /\ native  = {}
  /\ total   = 0
  /\ active  = 0

-----------------------------------------------------------------------------
(* The handler future.  Finish returns a response from a future that had   *)
(* been counted as active.                                                 *)

(* Mutant: an early return skips the decrement of ACTIVE_REQUESTS. *)
FinishUncounted(r, a) ==
  /\ stage'  = [stage EXCEPT ![r] = "done"]
  /\ answer' = [answer EXCEPT ![r] = a]
  /\ active' = active

Finish(r, a) ==
  /\ stage'  = [stage EXCEPT ![r] = "done"]
  /\ answer' = [answer EXCEPT ![r] = a]
  /\ active' = active - 1

(* Mutant: a preloaded response answers the routes with a DTO as well. *)
ImmediateAnswerDespiteDto(r) ==
  IF Route[r].match # "ok" THEN Route[r].match
  ELSE IF ~Route[r].params /\ Route[r].handler \in native THEN "native"
       ELSE "none"

(* The answer the first poll of the future gives without ever awaiting. *)
ImmediateAnswer(r) ==
  IF Route[r].match # "ok" THEN Route[r].match
  ELSE IF /\ ~Route[r].params
          /\ ~Route[r].dto
          /\ Route[r].handler \in native
       THEN "native"
       ELSE "none"

(* Mutant: the increment of ACTIVE_REQUESTS is missing. *)
ArriveUncounted(r) ==
  /\ stage[r] = "new"
  /\ WorkerFree
  /\ ImmediateAnswer(r) = "none"
  /\ stage' = [stage EXCEPT ![r] = "reading"]
  /\ total' = total + 1
  /\ UNCHANGED <<ticket, nextId, queue, blocked, pending, slot, job, answer,
                 native, active>>

Arrive(r) ==
  /\ stage[r] = "new"
  /\ WorkerFree
  /\ total' = total + 1
  /\ \/ /\ ImmediateAnswer(r) # "none"
        /\ stage'  = [stage EXCEPT ![r] = "done"]
        /\ answer' = [answer EXCEPT ![r] = ImmediateAnswer(r)]
        /\ UNCHANGED active
     \/ /\ ImmediateAnswer(r) = "none"
        /\ stage'  = [stage EXCEPT ![r] = "reading"]
        /\ active' = active + 1
        /\ UNCHANGED answer
  /\ UNCHANGED <<ticket, nextId, queue, blocked, pending, slot, job, native>>

(* The body is too large, or reading it failed. *)
RejectBody(r) ==
  /\ stage[r] = "reading"
  /\ WorkerFree
  /\ Finish(r, "too_large")
  /\ UNCHANGED <<ticket, nextId, queue, blocked, pending, slot, job, native,
                 total>>

RejectDto(r) ==
  /\ stage[r] = "reading"
  /\ WorkerFree
  /\ Route[r].dto /\ HasValidator
  /\ Finish(r, "invalid")
  /\ UNCHANGED <<ticket, nextId, queue, blocked, pending, slot, job, native,
                 total>>

(* Mutant: the counter is read but not incremented in the same step. *)
TakeSameId(r) ==
  /\ stage[r] = "reading"
  /\ WorkerFree
  /\ stage'  = [stage EXCEPT ![r] = "sending"]
  /\ ticket' = [ticket EXCEPT ![r] = nextId]
  /\ UNCHANGED <<nextId, queue, blocked, pending, slot, job, answer, native,
                 total, active>>

TakeId(r) ==
  /\ stage[r] = "reading"
  /\ WorkerFree
  /\ stage'  = [stage EXCEPT ![r] = "sending"]
  /\ ticket' = [ticket EXCEPT ![r] = nextId]
  /\ nextId' = nextId + 1
  /\ UNCHANGED <<queue, blocked, pending, slot, job, answer, native, total,
                 active>>

(* request_tx.send: a full channel parks the thread.  The error branch     *)
(* (503) needs a channel without receiver, and POLL_RECEIVER is never      *)
(* dropped.                                                                *)
Send(r) ==
  /\ stage[r] = "sending"
  /\ \/ /\ HasRoom
        /\ queue' = Append(queue, r)
        /\ stage' = [stage EXCEPT ![r] = "waiting"]
        /\ UNCHANGED blocked
     \/ /\ ~HasRoom
        /\ blocked' = Append(blocked, r)
        /\ stage'   = [stage EXCEPT ![r] = "blocked"]
        /\ UNCHANGED queue
  /\ UNCHANGED <<ticket, nextId, pending, slot, job, answer, native, total,
                 active>>

(* The oneshot resolved: with a response, or with an error that the code   *)
(* turns into the empty object.                                            *)
Resume(r) ==
  /\ stage[r] = "waiting"
  /\ WorkerFree
  /\ slot[r] # None
  /\ Finish(r, IF slot[r] = Closed THEN "empty" ELSE "php")
  /\ UNCHANGED <<ticket, nextId, queue, blocked, pending, slot, job, native,
                 total>>

(* Mutant: the deadline is looked at before the oneshot. *)
CheckDeadlineFirst(r) ==
  /\ stage[r] = "waiting"
  /\ WorkerFree
  /\ stage' = [stage EXCEPT ![r] = "expiring"]
  /\ UNCHANGED <<ticket, nextId, queue, blocked, pending, slot, job, answer,
                 native, total, active>>

(* tokio's timeout polls the oneshot first and its deadline second: a      *)
(* response that comes in between is lost.                                 *)
CheckDeadline(r) ==
  /\ stage[r] = "waiting"
  /\ WorkerFree
  /\ slot[r] = None
  /\ stage' = [stage EXCEPT ![r] = "expiring"]
  /\ UNCHANGED <<ticket, nextId, queue, blocked, pending, slot, job, answer,
                 native, total, active>>

(* Mutant: a parked send times out as well. *)
ExpireParked(r) ==
  /\ stage[r] \in {"expiring", "blocked"}
  /\ Finish(r, "timeout")
  /\ UNCHANGED <<ticket, nextId, queue, blocked, pending, slot, job, native,
                 total>>

Expire(r) ==
  /\ stage[r] = "expiring"
  /\ Finish(r, "timeout")
  /\ UNCHANGED <<ticket, nextId, queue, blocked, pending, slot, job, native,
                 total>>

(* The client went away: the future is dropped at an await, and what       *)
(* follows the await, the decrement of ACTIVE_REQUESTS included, is lost.  *)
Disconnect(r) ==
  /\ stage[r] \in {"reading", "waiting"}
  /\ WorkerFree
  /\ stage' = [stage EXCEPT ![r] = "dropped"]
  /\ UNCHANGED <<ticket, nextId, queue, blocked, pending, slot, job, answer,
                 native, total, active>>

-----------------------------------------------------------------------------
(* The FFI calls of the PHP loop. *)

(* A value for a oneshot reaches it only while its receiver exists. *)
Deliver(r, v) == IF ReceiverAlive(r) THEN [slot EXCEPT ![r] = v] ELSE slot

(* Mutants: the sender is stored under the next id; no parked send wakes. *)
PollUnderNextId ==
  /\ queue # <<>> /\ blocked = <<>>
  /\ pending' = [pending EXCEPT ![(ticket[Head(queue)] + 1) % IdSpace] = Head(queue)]
  /\ job'     = [job EXCEPT ![Head(queue)] = "held"]
  /\ queue'   = Tail(queue)
  /\ UNCHANGED <<stage, ticket, nextId, blocked, slot, answer, native, total,
                 active>>

PollWithoutWaking ==
  /\ queue # <<>>
  /\ pending' = [pending EXCEPT ![IdOf(Head(queue))] = Head(queue)]
  /\ job'     = [job EXCEPT ![Head(queue)] = "held"]
  /\ queue'   = Tail(queue)
  /\ UNCHANGED <<stage, ticket, nextId, blocked, slot, answer, native, total,
                 active>>

(* Mutant: of the parked sends, the last one to come is let in first. *)
PollWakingNewest ==
  /\ queue # <<>> /\ blocked # <<>>
  /\ pending' = [pending EXCEPT ![IdOf(Head(queue))] = Head(queue)]
  /\ job'     = [job EXCEPT ![Head(queue)] = "held"]
  /\ LET last == Len(blocked)
     IN  /\ queue'   = Append(Tail(queue), blocked[last])
         /\ blocked' = SubSeq(blocked, 1, last - 1)
         /\ stage'   = [stage EXCEPT ![blocked[last]] = "waiting"]
  /\ UNCHANGED <<ticket, nextId, slot, answer, native, total, active>>

(* try_recv takes the oldest request and lets one parked send proceed; the *)
(* insert drops the sender another request had left under the same id.     *)
Poll ==
  /\ queue # <<>>
  /\ LET r   == Head(queue)
         old == pending[IdOf(r)]
     IN  /\ pending' = [pending EXCEPT ![IdOf(r)] = r]
         /\ slot'    = IF old = None THEN slot ELSE Deliver(old, Closed)
         /\ job'     = [job EXCEPT ![r] = "held"]
  /\ IF blocked = <<>>
     THEN /\ queue' = Tail(queue)
          /\ UNCHANGED <<blocked, stage>>
     ELSE /\ queue'   = Append(Tail(queue), Head(blocked))
          /\ blocked' = Tail(blocked)
          /\ stage'   = [stage EXCEPT ![Head(blocked)] = "waiting"]
  /\ UNCHANGED <<ticket, nextId, answer, native, total, active>>

(* Mutant: the entry is read, not removed. *)
RespondKeepingEntry(r) ==
  /\ job[r] = "held"
  /\ pending[IdOf(r)] # None
  /\ slot' = Deliver(pending[IdOf(r)], r)
  /\ job'  = [job EXCEPT ![r] = "answered"]
  /\ UNCHANGED <<stage, ticket, nextId, queue, blocked, pending, answer,
                 native, total, active>>

(* quill_server_respond with the id and the result of r.  PHP may call it  *)
(* again for the same r, so the job is either kept or closed.              *)
Respond(r) ==
  /\ job[r] = "held"
  /\ LET q == pending[IdOf(r)]
     IN  /\ pending' = [pending EXCEPT ![IdOf(r)] = None]
         /\ slot'    = IF q = None THEN slot ELSE Deliver(q, r)
  /\ job' \in {job, [job EXCEPT ![r] = "answered"]}
  /\ UNCHANGED <<stage, ticket, nextId, queue, blocked, answer, native,
                 total, active>>

(* Mutant: the pointer is checked after the entry was removed. *)
AbandonRemovingEntry(r) ==
  /\ job[r] = "held"
  /\ pending[IdOf(r)] # None
  /\ pending' = [pending EXCEPT ![IdOf(r)] = None]
  /\ slot'    = Deliver(pending[IdOf(r)], Closed)
  /\ job'     = [job EXCEPT ![r] = "abandoned"]
  /\ UNCHANGED <<stage, ticket, nextId, queue, blocked, answer, native, total,
                 active>>

(* The PHP handler died, or responded with a null pointer: the call, if    *)
(* there is one, returns before it touches PENDING_RESPONSES.              *)
Abandon(r) ==
  /\ job[r] = "held"
  /\ job' = [job EXCEPT ![r] = "abandoned"]
  /\ UNCHANGED <<stage, ticket, nextId, queue, blocked, pending, slot,
                 answer, native, total, active>>

Preload(h) ==
  /\ native' = native \cup {h}
  /\ UNCHANGED <<stage, ticket, nextId, queue, blocked, pending, slot, job,
                 answer, total, active>>

-----------------------------------------------------------------------------
Client(r) == Arrive(r) \/ RejectBody(r) \/ RejectDto(r) \/ TakeId(r)
               \/ Disconnect(r)
Server(r) == Send(r) \/ Resume(r) \/ CheckDeadline(r) \/ Expire(r)
Php(r)    == Respond(r) \/ Abandon(r)

Next == \/ \E r \in Requests : Client(r) \/ Server(r) \/ Php(r)
        \/ Poll
        \/ \E h \in Handlers : Preload(h)

Spec == Init /\ [][Next]_vars

(* The runtime runs every future that can make progress, and the timer of  *)
(* a waiting future eventually elapses.  Nothing is assumed of the client. *)
ServerFairness == \A r \in Requests : WF_vars(Server(r))

ServerFairSpec == Spec /\ ServerFairness

(* Besides, the PHP loop keeps polling; it need not ever respond. *)
FairSpec == ServerFairSpec /\ WF_vars(Poll)
-----------------------------------------------------------------------------
(* Properties. *)

(* The types of the variables. *)
TypeOK ==
  /\ stage   \in [Requests -> Stages]
  /\ ticket  \in [Requests -> Nat]
  /\ nextId  \in Nat \ {0}
  /\ queue   \in Seq(Requests)
  /\ blocked \in Seq(Requests)
  /\ pending \in [Ids -> Requests \cup {None}]
  /\ slot    \in [Requests -> Requests \cup {None, Closed}]
  /\ job     \in [Requests -> Jobs]
  /\ answer  \in [Requests -> Answers]
  /\ native  \in SUBSET Handlers
  /\ total   \in Nat
  /\ active  \in Nat

(* r and q took ids a full turn of the id counter (or more) apart. *)
WrappedApart(q, r) == \/ ticket[q] >= ticket[r] + IdSpace
                      \/ ticket[r] >= ticket[q] + IdSpace

(* A client gets the result PHP computed for another request only if the   *)
(* id counter made a full turn between the two: as long as fewer than      *)
(* IdSpace ids are taken while a job is open, answers are never swapped,   *)
(* whatever timeouts, disconnects and late or repeated responses occur.    *)
ForeignResultNeedsWrap ==
  \A r \in Requests :
    slot[r] \notin {None, Closed, r} => WrappedApart(slot[r], r)

(* A client gets the empty response (the oneshot's sender was dropped)     *)
(* only if PHP polled a request that a full turn of the counter gave the   *)
(* same id, and whose insert displaced the sender.                         *)
EmptyResultNeedsWrap ==
  \A r \in Requests :
    slot[r] = Closed =>
      \E q \in Requests : job[q] # "none" /\ WrappedApart(q, r)

(* No waiting client is forgotten: as long as nothing resolved its         *)
(* oneshot, its sender is in the channel or in PENDING_RESPONSES under its *)
(* own id, where poll and respond will find it.                            *)
WaiterIsReachable ==
  \A r \in Requests :
    ReceiverAlive(r) /\ slot[r] = None =>
      r \in Range(queue) \/ pending[IdOf(r)] = r

(* PENDING_RESPONSES keeps an entry only for a job PHP still holds or has  *)
(* abandoned: timeouts, disconnects and displaced ids leave nothing behind *)
(* once PHP has responded.                                                 *)
LeakOnlyByAbandonment ==
  \A i \in Ids :
    pending[i] # None => job[pending[i]] \in {"held", "abandoned"}

(* Sends are parked only while the channel is exactly full, and the parked *)
(* requests are those whose future keeps a worker thread: one poll always  *)
(* frees the oldest of them.                                               *)
ParkedOnlyWhenFull ==
  /\ MaxQueueDepth > 0 => Len(queue) <= MaxQueueDepth
  /\ blocked # <<>> => MaxQueueDepth > 0 /\ Len(queue) = MaxQueueDepth
  /\ Range(blocked) = {r \in Requests : stage[r] = "blocked"}

(* ACTIVE_REQUESTS counts the requests in flight and, for ever, those      *)
(* whose client went away.                                                 *)
ActiveAccounting == active = Cardinality(InFlight \cup Dropped)

(* The requests that PHP has yet to poll, in the order it will poll them. *)
Line == queue \o blocked

(* The bounded channel and the sends parked behind it are one FIFO: a      *)
(* request joins at the end, only the first one leaves, and no send that   *)
(* finds room gets in before one that found none and still waits for it.   *)
LineIsFifo ==
  [][\/ Line' = Line
     \/ \E r \in Requests : Line' = Append(Line, r)
     \/ Line # <<>> /\ Line' = Tail(Line)]_vars

(* Every worker thread is parked inside a send. *)
AllParked == Cardinality({r \in Requests : stage[r] = "blocked"}) = NumWorkers

(* Then the process stands still until PHP polls: no request arrives, is   *)
(* answered, times out or is given up, those whose response is there       *)
(* included.                                                               *)
OnlyPollEndsAStall == [][AllParked /\ stage' # stage => Poll]_vars

(* The response PHP gives to a job while its client waits reaches that     *)
(* client and nobody takes it back: the client is answered with it, or     *)
(* leaves, but gets no 504, even if its 30 seconds are over by the time    *)
(* its future runs.  Only a client whose future has already looked at its  *)
(* oneshot in vain and at the deadline next ("expiring") gets the 504 that *)
(* a response can no longer prevent.                                       *)
RespondReachesItsClient ==
  [][\A r \in Requests : stage[r] = "waiting" =>
       /\ Respond(r) /\ slot[r] = None => slot'[r] = r
       /\ slot[r] = r => \/ stage'[r] = "waiting" /\ slot'[r] = r
                         \/ stage'[r] = "done"    /\ answer'[r] = "php"
                         \/ stage'[r] = "dropped"]_vars

(* Every request that is to be sent to PHP comes to an end: it is answered *)
(* by PHP, or by the 504 after 30 seconds, or its client leaves.  It needs *)
(* a PHP loop that keeps polling, since a full channel parks the send, and *)
(* with it a worker thread, instead of refusing the request.  (A request   *)
(* keeps its ticket, so it must not be without an end for ever.)           *)
ForwardedRequestsEnd ==
  \A r \in Requests :
    []<>(ticket[r] # 0 => stage[r] \in {"done", "dropped"})
============================================================================
