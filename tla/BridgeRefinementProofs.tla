----------------------- MODULE BridgeRefinementProofs -----------------------
(***************************************************************************)
(* RequestBridge implements Gateway if the process receives fewer requests *)
(* than there are ids, for every number of requests, worker threads and    *)
(* ids and every queue depth.                                              *)
(*                                                                         *)
(* Below a full turn of the counter the ids are the tickets, so an id      *)
(* leads to its own request only: a oneshot is resolved by the request it  *)
(* belongs to, and no sender is displaced.                                 *)
(***************************************************************************)
EXTENDS BridgeRefinement, RequestBridgeProofs

Taken == {r \in Requests : ticket[r] # 0}

(* REQUEST_ID starts at 1 and was incremented for every ticket. *)
TurnInv == nextId = 1 + Cardinality(Taken)

(* What Gateway sees. *)
Phase   == [r \in Requests |-> PhaseOf(r)]
Settled == {r \in Requests : slot[r] = r}
Reply   == [r \in Requests |-> ReplyOf(r)]

-----------------------------------------------------------------------------
(* The id counter. *)

LEMMA TakenFinite ==
  /\ IsFiniteSet(Taken) /\ Cardinality(Taken) \in Nat
  /\ Cardinality(Taken) <= Cardinality(Requests)
<1>1. Taken \subseteq Requests
  BY DEF Taken
<1> QED BY <1>1, RequestsAssumption, FS_Subset, FS_CardinalityType

LEMMA InitTurn == Init => TurnInv
<1> SUFFICES ASSUME Init PROVE TurnInv
  OBVIOUS
<1>1. Taken = {}
  BY DEF Init, Taken
<1> QED BY <1>1, FS_EmptySet DEF Init, TurnInv

LEMMA StepTurn == IInv /\ TurnInv /\ [Next]_vars => TurnInv'
<1> SUFFICES ASSUME IInv, TurnInv, [Next]_vars PROVE TurnInv'
  OBVIOUS
<1>1. ASSUME NEW r \in Requests, TakeId(r) PROVE TurnInv'
  <2>1. ticket[r] = 0 /\ nextId \in Nat \ {0}
    BY <1>1 DEF IInv, TypeOK, TicketInv, TakeId
  <2>2. ticket' = [ticket EXCEPT ![r] = nextId] /\ nextId' = nextId + 1
    BY <1>1 DEF TakeId
  <2>3. r \notin Taken /\ Taken' = Taken \cup {r}
    BY <2>1, <2>2 DEF IInv, TypeOK, Taken
  <2>4. Cardinality(Taken') = Cardinality(Taken) + 1
    BY <2>3, TakenFinite, FS_AddElement
  <2> QED BY <2>2, <2>4, TakenFinite DEF TurnInv
<1>2. CASE UNCHANGED <<ticket, nextId>>
  BY <1>2 DEF TurnInv, Taken
<1> QED BY <1>1, <1>2 DEF Next, Client, Server, Php, Arrive, RejectBody, RejectDto,
     Disconnect, Send, Resume, CheckDeadline, Expire, Poll, Respond, Abandon,
     Preload, vars

(* Below a full turn, no two requests share an id. *)
LEMMA OwnId ==
  ASSUME IInv, TurnInv, Cardinality(Requests) < IdSpace,
         NEW r \in Requests, NEW q \in Requests,
         ticket[r] # 0, IdOf(q) = IdOf(r)
  PROVE  q = r
<1>1. \A x \in Requests : ticket[x] \in Nat /\ ticket[x] < IdSpace
  <2>1. nextId <= IdSpace
    BY TakenFinite, RequestsAssumption, FS_CardinalityType, IdAssumption DEF TurnInv
  <2> QED BY <2>1, IdAssumption DEF IInv, TypeOK, TicketInv
<1>2. ~WrappedApart(q, r)
  BY <1>1, IdAssumption DEF WrappedApart
<1> QED BY <1>2, SameIdWrapped DEF IInv

(* So a oneshot holds the result of its own request, if anything,          *)
LEMMA OwnSlot ==
  ASSUME IInv, TurnInv, Cardinality(Requests) < IdSpace, NEW r \in Requests
  PROVE  slot[r] \in {None, r}
<1> SUFFICES ASSUME slot[r] # None PROVE slot[r] = r
  OBVIOUS
<1>1. ticket[r] # 0
  BY DEF IInv, JobInv
<1>2. slot[r] # Closed
  BY <1>1, OwnId DEF IInv, SlotInv
<1>3. slot[r] \in Requests /\ IdOf(slot[r]) = IdOf(r)
  BY <1>2 DEF IInv, TypeOK, SlotInv
<1> QED BY <1>1, <1>3, OwnId

(* and an entry of the table leads to the request whose id it has.         *)
LEMMA OwnEntry ==
  ASSUME IInv, TurnInv, Cardinality(Requests) < IdSpace, NEW r \in Requests,
         ticket[r] # 0
  PROVE  pending[IdOf(r)] \in {None, r}
<1>1. IdOf(r) \in Ids
  BY IdOfInIds DEF IInv
<1> QED BY <1>1, OwnId DEF IInv, TypeOK, PendingInv

-----------------------------------------------------------------------------
(* What Gateway sees of a future that goes from one stage to another.      *)

LEMMA MovedPhase ==
  ASSUME TypeOK, NEW r \in Requests, NEW to, stage' = [stage EXCEPT ![r] = to]
  PROVE  Phase' = [Phase EXCEPT ![r] = PhaseOf(r)']
<1>1. \A q \in Requests : q # r => PhaseOf(q)' = PhaseOf(q)
  BY DEF TypeOK, PhaseOf
<1> QED BY <1>1 DEF Phase

LEMMA MovedSubmitted ==
  ASSUME TypeOK, NEW r \in Requests, NEW to, stage' = [stage EXCEPT ![r] = to],
         UNCHANGED ticket,
         r \in Submitted' <=> r \in Submitted
  PROVE  Submitted' = Submitted
<1>1. \A q \in Requests : q # r => stage'[q] = stage[q]
  BY DEF TypeOK
<1> QED BY <1>1 DEF Submitted

LEMMA Answered ==
  ASSUME TypeOK, NEW r \in Requests, NEW a, answer' = [answer EXCEPT ![r] = a]
  PROVE  Reply' = [Reply EXCEPT ![r] = ReplyOf(r)']
<1>1. \A q \in Requests : q # r => ReplyOf(q)' = ReplyOf(q)
  BY DEF TypeOK, ReplyOf
<1> QED BY <1>1 DEF Reply

LEMMA PhaseKept == ASSUME UNCHANGED stage PROVE Phase' = Phase
BY DEF Phase, PhaseOf

LEMMA ReplyKept == ASSUME UNCHANGED answer PROVE Reply' = Reply
BY DEF Reply, ReplyOf

LEMMA SettledKept == ASSUME UNCHANGED slot PROVE Settled' = Settled
BY DEF Settled

LEMMA SubmittedKept == ASSUME UNCHANGED <<stage, ticket>> PROVE Submitted' = Submitted
BY DEF Submitted

-----------------------------------------------------------------------------
(* The handler future. *)

(* An answer of the server itself: it finishes, or ends in the first poll. *)
LEMMA ServerAnswers ==
  ASSUME IInv, NEW r \in Requests, NEW a \in Answers \ {"none", "php", "native", "empty"},
         stage[r] \in {"new", "reading", "expiring"},
         stage' = [stage EXCEPT ![r] = "done"], answer' = [answer EXCEPT ![r] = a],
         UNCHANGED <<ticket, slot, job, native>>
  PROVE  G!ServerReplies(r)
<1> USE DEF IInv
<1>1. stage'[r] = "done" /\ answer'[r] = a
  BY DEF TypeOK
<1>2. PhaseOf(r) \in {"idle", "open"} /\ PhaseOf(r)' = "over"
  BY <1>1 DEF PhaseOf
<1>3. ReplyOf(r)' = "server"
  BY <1>1 DEF ReplyOf
<1>4. Phase' = [Phase EXCEPT ![r] = "over"] /\ Phase[r] \in {"idle", "open"}
  BY <1>2, MovedPhase DEF Phase
<1>5. Reply' = [Reply EXCEPT ![r] = "server"]
  BY <1>3, Answered
<1>6. r \in Submitted' <=> r \in Submitted
  BY <1>1 DEF Submitted, TicketInv
<1>7. Submitted' = Submitted
  BY <1>6, MovedSubmitted
<1>8. Settled' = Settled
  BY SettledKept
<1> QED BY <1>4, <1>5, <1>7, <1>8 DEF G!ServerReplies, Phase, Settled, Reply

(* The first poll of the future: a preloaded response answers the bare     *)
(* requests of its handler, and no others.                                 *)
LEMMA PreloadedIsPublished ==
  ASSUME NEW r \in Requests
  PROVE  G!Published(r) <=> ImmediateAnswer(r) = "native"
BY RouteAssumption DEF G!Published, BareRequests, ImmediateAnswer, RouteResult

LEMMA NativeRefines ==
  ASSUME IInv, NEW r \in Requests, Arrive(r), ImmediateAnswer(r) = "native"
  PROVE  G!PublishedReplies(r)
<1> USE DEF IInv
<1>1. /\ stage[r] = "new" /\ UNCHANGED <<ticket, slot, job, native>>
      /\ stage' = [stage EXCEPT ![r] = "done"]
      /\ answer' = [answer EXCEPT ![r] = "native"]
  BY DEF Arrive
<1>2. stage'[r] = "done" /\ answer'[r] = "native"
  BY <1>1 DEF TypeOK
<1>3. PhaseOf(r) = "idle" /\ PhaseOf(r)' = "over" /\ ReplyOf(r)' = "published"
  BY <1>1, <1>2 DEF PhaseOf, ReplyOf
<1>4. Phase' = [Phase EXCEPT ![r] = "over"] /\ Phase[r] = "idle"
  BY <1>1, <1>3, MovedPhase DEF Phase
<1>5. Reply' = [Reply EXCEPT ![r] = "published"]
  BY <1>1, <1>3, Answered
<1>6. r \in Submitted' <=> r \in Submitted
  BY <1>1, <1>2 DEF Submitted, TicketInv
<1>7. Submitted' = Submitted /\ Settled' = Settled
  BY <1>1, <1>6, MovedSubmitted, SettledKept
<1> QED BY <1>1, <1>4, <1>5, <1>7, PreloadedIsPublished
     DEF G!PublishedReplies, Phase, Settled, Reply

LEMMA ArriveRefines ==
  ASSUME IInv, NEW r \in Requests, Arrive(r)
  PROVE  G!ServerReplies(r) \/ G!PublishedReplies(r) \/ G!Open(r)
<1>1. stage[r] = "new" /\ UNCHANGED <<ticket, slot, job, native>>
  BY DEF Arrive
<1>2. CASE ImmediateAnswer(r) \notin {"none", "native"}
  <2>1. ImmediateAnswer(r) \in Answers \ {"none", "php", "native", "empty"}
    BY <1>2, RouteAssumption DEF ImmediateAnswer, Answers, RouteResult
  <2>2. /\ stage' = [stage EXCEPT ![r] = "done"]
        /\ answer' = [answer EXCEPT ![r] = ImmediateAnswer(r)]
    BY <1>2 DEF Arrive
  <2> QED BY <1>1, <2>1, <2>2, ServerAnswers
<1>3. CASE ImmediateAnswer(r) = "none"
  <2>1. stage' = [stage EXCEPT ![r] = "reading"] /\ UNCHANGED answer
    BY <1>3 DEF Arrive
  <2>2. stage'[r] = "reading" /\ ticket[r] = 0
    BY <1>1, <2>1 DEF IInv, TypeOK, TicketInv
  <2>3. PhaseOf(r) = "idle" /\ PhaseOf(r)' = "open"
    BY <1>1, <2>2 DEF PhaseOf
  <2>4. Phase' = [Phase EXCEPT ![r] = "open"] /\ Phase[r] = "idle"
    BY <2>1, <2>3, MovedPhase DEF IInv, Phase
  <2>5. r \in Submitted' <=> r \in Submitted
    BY <1>1, <2>2 DEF Submitted
  <2>6. Submitted' = Submitted
    BY <1>1, <2>1, <2>5, MovedSubmitted DEF IInv
  <2>7. Settled' = Settled /\ Reply' = Reply
    BY <1>1, <2>1, SettledKept, ReplyKept
  <2> QED BY <1>1, <1>3, <2>4, <2>6, <2>7, PreloadedIsPublished
       DEF G!Open, Phase, Settled, Reply
<1>4. CASE ImmediateAnswer(r) = "native"
  BY <1>4, NativeRefines
<1> QED BY <1>2, <1>3, <1>4

LEMMA RefuseRefines ==
  ASSUME IInv, NEW r \in Requests, RejectBody(r) \/ RejectDto(r) \/ Expire(r)
  PROVE  G!ServerReplies(r)
<1>1. PICK a \in {"too_large", "invalid", "timeout"} : Finish(r, a)
  BY DEF RejectBody, RejectDto, Expire
<1>2. /\ stage[r] \in {"reading", "expiring"}
      /\ UNCHANGED <<ticket, slot, job, native>>
  BY DEF RejectBody, RejectDto, Expire
<1> QED BY <1>1, <1>2, ServerAnswers DEF Finish, Answers

(* Steps between two stages of an open request that PHP does not see.      *)
LEMMA StepStutters ==
  ASSUME IInv, NEW r \in Requests, TakeId(r) \/ CheckDeadline(r)
  PROVE  /\ Phase' = Phase /\ Submitted' = Submitted
         /\ Settled' = Settled /\ Reply' = Reply /\ UNCHANGED <<job, native>>
<1>1. PICK to \in {"sending", "expiring"} : stage' = [stage EXCEPT ![r] = to]
  BY DEF TakeId, CheckDeadline
<1>2. stage'[r] = to
  BY <1>1 DEF IInv, TypeOK
<1>3. PhaseOf(r)' = PhaseOf(r)
  BY <1>2 DEF PhaseOf, TakeId, CheckDeadline
<1>4. Phase' = [Phase EXCEPT ![r] = Phase[r]]
  BY <1>1, <1>3, MovedPhase DEF IInv, Phase
<1>5. Submitted' = Submitted
  <2>1. CASE TakeId(r)
    <3>1. /\ stage[r] = "reading" /\ stage'[r] = "sending"
          /\ \A q \in Requests : q # r => stage'[q] = stage[q] /\ ticket'[q] = ticket[q]
      BY <2>1 DEF TakeId, IInv, TypeOK
    <3>2. \A q \in Requests : q \in Submitted' <=> q \in Submitted
      BY <3>1 DEF Submitted
    <3> QED BY <3>2 DEF Submitted
  <2>2. CASE CheckDeadline(r)
    <3>1. stage[r] = "waiting" /\ stage'[r] = "expiring" /\ UNCHANGED ticket
      BY <2>2 DEF CheckDeadline, IInv, TypeOK
    <3>2. r \in Submitted' <=> r \in Submitted
      BY <3>1 DEF Submitted
    <3> QED BY <1>1, <3>1, <3>2, MovedSubmitted DEF IInv
  <2> QED BY <2>1, <2>2
<1>6. UNCHANGED <<slot, answer, job, native>>
  BY DEF TakeId, CheckDeadline
<1> QED BY <1>4, <1>5, <1>6, SettledKept, ReplyKept DEF Phase

LEMMA SendRefines ==
  ASSUME IInv, NEW r \in Requests, Send(r)
  PROVE  G!Submit(r)
<1>1. PICK to \in {"waiting", "blocked"} : stage' = [stage EXCEPT ![r] = to]
  BY DEF Send
<1>2. stage[r] = "sending" /\ UNCHANGED <<ticket, slot, job, answer, native>>
  BY DEF Send
<1>3. stage'[r] = to /\ ticket[r] # 0
  BY <1>1, <1>2 DEF IInv, TypeOK, TicketInv
<1>4. PhaseOf(r)' = "open" /\ PhaseOf(r) = "open"
  BY <1>2, <1>3 DEF PhaseOf
<1>5. Phase' = Phase /\ Phase[r] = "open"
  BY <1>1, <1>4, MovedPhase DEF IInv, Phase
<1>6. \A q \in Requests : q # r => stage'[q] = stage[q]
  BY <1>1 DEF IInv, TypeOK
<1>7. \A q \in Requests : q \in Submitted' <=> q \in Submitted \/ q = r
  BY <1>2, <1>3, <1>6 DEF Submitted
<1>8. Submitted' = Submitted \cup {r}
  BY <1>7 DEF Submitted
<1>9. Settled' = Settled /\ Reply' = Reply
  BY <1>2, SettledKept, ReplyKept
<1> QED BY <1>2, <1>5, <1>8, <1>9 DEF G!Submit, Phase, Settled, Reply

LEMMA DisconnectRefines ==
  ASSUME IInv, NEW r \in Requests, Disconnect(r)
  PROVE  G!Leave(r)
<1>1. /\ stage[r] \in {"reading", "waiting"}
      /\ stage' = [stage EXCEPT ![r] = "dropped"]
      /\ UNCHANGED <<ticket, slot, job, answer, native>>
  BY DEF Disconnect
<1>2. stage'[r] = "dropped"
  BY <1>1 DEF IInv, TypeOK
<1>3. PhaseOf(r) = "open" /\ PhaseOf(r)' = "over"
  BY <1>1, <1>2 DEF PhaseOf
<1>4. Phase' = [Phase EXCEPT ![r] = "over"] /\ Phase[r] = "open"
  BY <1>1, <1>3, MovedPhase DEF IInv, Phase
<1>5. r \in Submitted' <=> r \in Submitted
  BY <1>1, <1>2 DEF IInv, TicketInv, Submitted
<1>6. Submitted' = Submitted
  BY <1>1, <1>5, MovedSubmitted DEF IInv
<1>7. Settled' = Settled /\ Reply' = Reply
  BY <1>1, SettledKept, ReplyKept
<1> QED BY <1>1, <1>4, <1>6, <1>7 DEF G!Leave, Phase, Settled, Reply

LEMMA ResumeRefines ==
  ASSUME IInv, TurnInv, Cardinality(Requests) < IdSpace,
         NEW r \in Requests, Resume(r)
  PROVE  G!HandlerReplies(r)
<1>1. slot[r] = r
  BY OwnSlot DEF Resume
<1>2. /\ Finish(r, "php") /\ stage[r] = "waiting"
      /\ UNCHANGED <<ticket, slot, job, native>>
  BY <1>1, ValueAssumption DEF Resume
<1>3. stage'[r] = "done" /\ answer'[r] = "php"
  BY <1>2 DEF Finish, IInv, TypeOK
<1>4. PhaseOf(r) = "open" /\ PhaseOf(r)' = "over" /\ ReplyOf(r)' = "handler"
  BY <1>2, <1>3 DEF PhaseOf, ReplyOf
<1>5. Phase' = [Phase EXCEPT ![r] = "over"] /\ Phase[r] = "open"
  BY <1>2, <1>4, MovedPhase DEF Finish, IInv, Phase
<1>6. Reply' = [Reply EXCEPT ![r] = "handler"]
  BY <1>2, <1>4, Answered DEF Finish, IInv
<1>7. r \in Submitted' <=> r \in Submitted
  BY <1>2, <1>3 DEF Submitted
<1>8. Submitted' = Submitted
  BY <1>2, <1>7, MovedSubmitted DEF Finish, IInv
<1>9. Settled' = Settled /\ r \in Settled
  BY <1>1, <1>2, SettledKept DEF Settled
<1> QED BY <1>2, <1>5, <1>6, <1>8, <1>9 DEF G!HandlerReplies, Phase, Settled, Reply

-----------------------------------------------------------------------------
(* The PHP loop. *)

(* A poll displaces no sender: the request it takes has none in the table, *)
(* and nobody else has its id.                                             *)
LEMMA PollRefines ==
  ASSUME IInv, TurnInv, Cardinality(Requests) < IdSpace, Poll
  PROVE  \E r \in Requests : G!Start(r)
<1>1. queue \in Seq(Requests) /\ queue # <<>>
  BY DEF Poll, IInv, TypeOK
<1>2. PICK r \in Requests : r = queue[1] /\ r = Head(queue)
  BY <1>1
<1>3. /\ ticket[r] # 0 /\ job[r] = "none"
      /\ stage[r] \in {"waiting", "expiring", "done", "dropped"}
  BY <1>1, <1>2 DEF IInv, QueueInv
<1>4. pending[IdOf(r)] = None
  <2>1. pending[IdOf(r)] \in {None, r} /\ IdOf(r) \in Ids
    BY <1>3, OwnEntry, IdOfInIds DEF IInv
  <2>2. pending[IdOf(r)] = r => job[r] # "none"
    BY <2>1, ValueAssumption DEF IInv, PendingInv
  <2> QED BY <1>3, <2>1, <2>2
<1>5. /\ slot' = slot /\ job' = [job EXCEPT ![r] = "held"]
      /\ UNCHANGED <<ticket, answer, native>>
  BY <1>2, <1>4 DEF Poll
<1>6. \A x \in Requests : \/ stage'[x] = stage[x]
                          \/ stage[x] = "blocked" /\ stage'[x] = "waiting"
  BY PollChannel
<1>7. \A x \in Requests : PhaseOf(x)' = PhaseOf(x)
  BY <1>6 DEF PhaseOf
<1>8. \A x \in Requests : x \in Submitted' <=> x \in Submitted
  BY <1>5, <1>6 DEF Submitted
<1>9. Phase' = Phase /\ Submitted' = Submitted
  BY <1>7, <1>8 DEF Phase, Submitted
<1>10. Settled' = Settled /\ Reply' = Reply
  BY <1>5, SettledKept, ReplyKept
<1>11. r \in Submitted
  BY <1>3 DEF Submitted
<1>12. G!Start(r)
  BY <1>3, <1>5, <1>9, <1>10, <1>11 DEF G!Start, Phase, Settled, Reply
<1> QED BY <1>12

(* A response resolves the oneshot of its own request while the client     *)
(* waits, and nothing otherwise.                                           *)
LEMMA RespondRefines ==
  ASSUME IInv, TurnInv, Cardinality(Requests) < IdSpace,
         NEW r \in Requests, Respond(r)
  PROVE  \/ G!Settle(r) \/ G!Stop(r)
         \/ /\ Phase' = Phase /\ Submitted' = Submitted
            /\ Settled' = Settled /\ Reply' = Reply /\ UNCHANGED <<job, native>>
<1>1. /\ job[r] = "held" /\ job' \in {job, [job EXCEPT ![r] = "answered"]}
      /\ UNCHANGED <<stage, ticket, answer, native>>
  BY DEF Respond
<1>2. Phase' = Phase /\ Submitted' = Submitted /\ Reply' = Reply
  BY <1>1, PhaseKept, SubmittedKept, ReplyKept
<1>3. ticket[r] # 0
  BY <1>1 DEF IInv, JobInv
<1>4. pending[IdOf(r)] \in {None, r}
  BY <1>3, OwnEntry
<1>5. CASE pending[IdOf(r)] = r /\ ReceiverAlive(r)
  <2>1. slot' = [slot EXCEPT ![r] = r]
    BY <1>5, ValueAssumption DEF Respond, Deliver
  <2>2. \A x \in Requests : slot'[x] = IF x = r THEN r ELSE slot[x]
    BY <2>1 DEF IInv, TypeOK
  <2>3. Settled' = Settled \cup {r}
    BY <2>2 DEF Settled
  <2>4. Phase[r] = "open"
    BY <1>5 DEF Phase, PhaseOf, ReceiverAlive
  <2> QED BY <1>1, <1>2, <2>3, <2>4 DEF G!Settle, Phase, Settled, Reply
<1>6. CASE ~(pending[IdOf(r)] = r /\ ReceiverAlive(r))
  <2>1. slot' = slot
    BY <1>4, <1>6 DEF Respond, Deliver
  <2>2. Settled' = Settled
    BY <2>1, SettledKept
  <2>3. CASE job' = [job EXCEPT ![r] = "answered"]
    BY <1>1, <1>2, <2>2, <2>3 DEF G!Stop, Phase, Settled, Reply
  <2> QED BY <1>1, <1>2, <2>2, <2>3
<1> QED BY <1>5, <1>6

LEMMA AbandonRefines ==
  ASSUME NEW r \in Requests, Abandon(r)
  PROVE  G!Stop(r)
<1>1. /\ job[r] = "held" /\ job' = [job EXCEPT ![r] = "abandoned"]
      /\ UNCHANGED <<stage, ticket, slot, answer, native>>
  BY DEF Abandon
<1>2. /\ Phase' = Phase /\ Submitted' = Submitted
      /\ Settled' = Settled /\ Reply' = Reply
  BY <1>1, PhaseKept, SubmittedKept, SettledKept, ReplyKept
<1> QED BY <1>1, <1>2 DEF G!Stop, Phase, Settled, Reply

-----------------------------------------------------------------------------
(* The refinement. *)

LEMMA PreloadRefines ==
  ASSUME NEW h \in Handlers, Preload(h)
  PROVE  G!Publish(h)
<1>1. /\ native' = native \cup {h}
      /\ UNCHANGED <<stage, ticket, slot, job, answer>>
  BY DEF Preload
<1>2. /\ Phase' = Phase /\ Submitted' = Submitted
      /\ Settled' = Settled /\ Reply' = Reply
  BY <1>1, PhaseKept, SubmittedKept, SettledKept, ReplyKept
<1> QED BY <1>1, <1>2 DEF G!Publish, Phase, Settled, Reply

LEMMA InitRefines == Init => G!Init
<1> SUFFICES ASSUME Init PROVE G!Init
  OBVIOUS
<1>1. Phase = [r \in Requests |-> "idle"]
  BY DEF Init, Phase, PhaseOf
<1>2. Submitted = {}
  BY DEF Init, Submitted
<1>3. Settled = {}
  BY ValueAssumption DEF Init, Settled
<1>4. Reply = [r \in Requests |-> "none"]
  BY DEF Init, Reply, ReplyOf
<1>5. job = [r \in Requests |-> "none"] /\ native = {}
  BY DEF Init
<1> QED BY <1>1, <1>2, <1>3, <1>4, <1>5 DEF G!Init, Phase, Settled, Reply

LEMMA StepRefines ==
  ASSUME Cardinality(Requests) < IdSpace
  PROVE  IInv /\ TurnInv /\ [Next]_vars => [G!Next]_(G!vars)
<1> DEFINE Stutter == /\ Phase' = Phase /\ Submitted' = Submitted
                      /\ Settled' = Settled /\ Reply' = Reply
                      /\ UNCHANGED <<job, native>>
<1> SUFFICES ASSUME IInv, TurnInv, [Next]_vars
             PROVE  G!Next \/ Stutter
  BY DEF G!vars, Phase, Settled, Reply
<1>1. ASSUME NEW r \in Requests, Client(r) PROVE G!Next \/ Stutter
  <2>1. CASE Arrive(r)
    BY <2>1, ArriveRefines DEF G!Next
  <2>2. CASE RejectBody(r) \/ RejectDto(r)
    BY <2>2, RefuseRefines DEF G!Next
  <2>3. CASE TakeId(r)
    BY <2>3, StepStutters
  <2>4. CASE Disconnect(r)
    BY <2>4, DisconnectRefines DEF G!Next
  <2> QED BY <1>1, <2>1, <2>2, <2>3, <2>4 DEF Client
<1>2. ASSUME NEW r \in Requests, Server(r) PROVE G!Next \/ Stutter
  <2>1. CASE Send(r)
    BY <2>1, SendRefines DEF G!Next
  <2>2. CASE Resume(r)
    BY <2>2, ResumeRefines DEF G!Next
  <2>3. CASE CheckDeadline(r)
    BY <2>3, StepStutters
  <2>4. CASE Expire(r)
    BY <2>4, RefuseRefines DEF G!Next
  <2> QED BY <1>2, <2>1, <2>2, <2>3, <2>4 DEF Server
<1>3. ASSUME NEW r \in Requests, Php(r) PROVE G!Next \/ Stutter
  <2>1. CASE Respond(r)
    BY <2>1, RespondRefines DEF G!Next
  <2>2. CASE Abandon(r)
    BY <2>2, AbandonRefines DEF G!Next
  <2> QED BY <1>3, <2>1, <2>2 DEF Php
<1>4. CASE Poll
  BY <1>4, PollRefines DEF G!Next
<1>5. CASE \E h \in Handlers : Preload(h)
  BY <1>5, PreloadRefines DEF G!Next
<1>6. CASE UNCHANGED vars
  BY <1>6, PhaseKept, SubmittedKept, SettledKept, ReplyKept DEF vars
<1> QED BY <1>1, <1>2, <1>3, <1>4, <1>5, <1>6 DEF Next

(* As long as the process receives fewer requests than there are ids, each *)
(* client gets the result of its own handler run, an answer of the server, *)
(* or nothing because it went away, PHP runs only submitted requests, each *)
(* at most once, and preloaded responses answer exactly the bare requests  *)
(* that come after them: in every interleaving of futures, timeouts,       *)
(* disconnects, preloads and late or repeated responses.                   *)
THEOREM Implements ==
  ASSUME Cardinality(Requests) < IdSpace
  PROVE  Spec => ImplementsGateway
<1>1. Init => IInv /\ TurnInv /\ G!Init
  BY InitInv, InitTurn, InitRefines
<1>2. IInv /\ TurnInv /\ [Next]_vars => (IInv /\ TurnInv)' /\ [G!Next]_(G!vars)
  BY NextInv, StepTurn, StepRefines
<1> QED BY <1>1, <1>2, PTL DEF Spec, ImplementsGateway, G!Spec

(* What a client may find: its own result, and no answer that is the empty *)
(* object the code makes of a sender that was dropped.                     *)
OwnResults == \A r \in Requests : slot[r] \in {None, r} /\ answer[r] # "empty"

(* Only a client whose oneshot was closed gets the empty object. *)
LEMMA NobodyFobbedOff ==
  ASSUME IInv, TurnInv, Cardinality(Requests) < IdSpace, [Next]_vars,
         NEW r \in Requests, answer[r] # "empty"
  PROVE  answer'[r] # "empty"
<1>1. ASSUME NEW q \in Requests, Resume(q) PROVE answer' = [answer EXCEPT ![q] = "php"]
  BY <1>1, OwnSlot, ValueAssumption DEF Resume, Finish
<1>2. ASSUME NEW q \in Requests, Arrive(q) PROVE answer'[r] # "empty"
  BY <1>2, RouteAssumption DEF Arrive, ImmediateAnswer, RouteResult, IInv, TypeOK
<1>3. ASSUME NEW q \in Requests, RejectBody(q) \/ RejectDto(q) \/ Expire(q)
      PROVE  answer'[r] # "empty"
  BY <1>3 DEF RejectBody, RejectDto, Expire, Finish, IInv, TypeOK
<1>4. CASE UNCHANGED answer
  BY <1>4
<1>5. ASSUME NEW q \in Requests, TakeId(q) \/ Disconnect(q) \/ Send(q)
                                   \/ CheckDeadline(q) \/ Php(q)
      PROVE  UNCHANGED answer
  BY <1>5 DEF TakeId, Disconnect, Send, CheckDeadline, Php, Respond, Abandon
<1>6. ASSUME Poll \/ \E h \in Handlers : Preload(h) PROVE UNCHANGED answer
  BY <1>6 DEF Poll, Preload
<1> QED BY <1>1, <1>2, <1>3, <1>4, <1>5, <1>6 DEF Next, Client, Server, IInv, TypeOK, vars

(* Nobody gets another client's result, nor the empty answer in place of a *)
(* lost one, before the ids have made a full turn.                         *)
THEOREM OwnResultsOnly ==
  ASSUME Cardinality(Requests) < IdSpace
  PROVE  Spec => []OwnResults
<1> DEFINE Inv == IInv /\ TurnInv /\ \A r \in Requests : answer[r] # "empty"
<1>1. Init => Inv
  BY InitInv, InitTurn DEF Init
<1>2. Inv /\ [Next]_vars => Inv'
  BY NextInv, StepTurn, NobodyFobbedOff
<1>3. Inv => OwnResults
  BY OwnSlot DEF OwnResults
<1> QED BY <1>1, <1>2, <1>3, PTL DEF Spec
============================================================================
