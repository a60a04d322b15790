----------------------- MODULE ServerLifecycleProofs -----------------------
(***************************************************************************)
(* Proofs about ServerLifecycle, for every number of listen calls, sockets *)
(* and connections.  IInv adds where the sockets of servers and of         *)
(* connections come from: only bound sockets are used, a server has a      *)
(* listener from "bound" on, an accepted connection belongs to a server,   *)
(* and only a server that got as far as serving was told to stop.          *)
(***************************************************************************)
EXTENDS ServerLifecycle, TLAPS

SocketInv ==
  /\ Listening \subseteq made
  /\ \A s \in Servers : stage[s] \in {"none", "starting"} => listener[s] = None
  /\ \A c \in Clients :
       /\ conn[c] \in {"queued", "reset"} => at[c] \in made
       /\ conn[c] \in Accepted => at[c] \in Servers

(* A close_tx that was used or dropped had been stored by its server. *)
ToldInv ==
  /\ \A s \in told : stage[s] \in {"serving", "signalled", "closing", "done"}
  /\ \A s \in Servers : stage[s] = "signalled" => s \in told

Running == {"serving", "signalled", "closing"}

(* DRAIN_SIGNAL holds the sender of exactly the server that accepts and    *)
(* was not told to stop.                                                   *)
SignalInv == ToldInv /\ DrainReachesServing /\ DrainTellsAServer

IInv == /\ TypeOK
        /\ SocketInv
        /\ SignalInv
        /\ PreboundNeverReset
        /\ ConnectionsHaveAnOwner

LEMMA InitInv == Init => IInv
BY DEF Init, IInv, TypeOK, Stages, ConnStates, Accepted, SocketInv, Listening, SignalInv, ToldInv,
       DrainReachesServing, DrainTellsAServer, PreboundNeverReset,
       ConnectionsHaveAnOwner

(* Steps that leave the sockets and the connections alone. *)
LEMMA QuietStep ==
  ASSUME IInv, UNCHANGED <<socketVars, listener, clientVars>>, TypeOK',
         \A s \in Servers : stage'[s] \in {"none", "starting"} =>
                              stage[s] \in {"none", "starting"},
         \A c \in Clients : conn[c] \in Accepted /\ stage[at[c]] \in Running
                              => stage'[at[c]] \in Running,
         SignalInv'
  PROVE  IInv'
BY DEF Running, Accepted, IInv, SocketInv, Listening, PreboundNeverReset, ConnectionsHaveAnOwner,
       socketVars, clientVars

LEMMA PrebindStep ==
  ASSUME IInv, NEW k \in Sockets, Prebind(k)
  PROVE  IInv'
<1>1. /\ k \notin made /\ made' = made \cup {k} /\ fd' = k
      /\ leaked' = leaked \cup ({fd} \ {None})
      /\ UNCHANGED <<stage, listener, signal, told, capacity, conn, at, drain>>
  BY DEF Prebind, serverVars, clientVars
<1>2. TypeOK'
  BY <1>1 DEF IInv, TypeOK
<1>3. Listening \subseteq Listening' /\ Listening' \subseteq Listening \cup {k}
  BY <1>1, NoneAssumption DEF Listening
<1>4. SocketInv'
  BY <1>1, <1>3 DEF IInv, SocketInv
<1>5. SignalInv'
  BY <1>1 DEF IInv, SignalInv, ToldInv, DrainReachesServing, DrainTellsAServer
<1>6. PreboundNeverReset'
  <2> SUFFICES ASSUME NEW c \in Clients, conn[c] = "reset"
               PROVE  at[c] \notin {k} \cup leaked'
    BY <1>1 DEF PreboundNeverReset
  <2>1. at[c] \in made /\ at[c] \notin {fd} \cup leaked
    BY DEF IInv, SocketInv, PreboundNeverReset
  <2> QED BY <1>1, <2>1
<1>7. ConnectionsHaveAnOwner'
  BY <1>1, <1>3 DEF IInv, ConnectionsHaveAnOwner
<1> QED BY <1>2, <1>4, <1>5, <1>6, <1>7 DEF IInv

LEMMA ListenStep ==
  ASSUME IInv, NEW s \in Servers, NEW depth \in Depths, Listen(s, depth)
  PROVE  IInv'
<1>1. /\ stage[s] = "none" /\ stage' = [stage EXCEPT ![s] = "starting"]
      /\ capacity' \in {depth, capacity} /\ drain' = "none"
      /\ UNCHANGED <<socketVars, listener, signal, told, clientVars>>
  BY DEF Listen
<1>2. TypeOK'
  BY <1>1 DEF IInv, TypeOK, Stages, socketVars, clientVars
<1>3. SignalInv'
  BY <1>1 DEF IInv, TypeOK, SignalInv, ToldInv, DrainReachesServing,
          DrainTellsAServer
<1> QED BY <1>1, <1>2, <1>3, QuietStep DEF IInv, TypeOK, Running

LEMMA DrainStep ==
  ASSUME IInv, DrainBegin \/ DrainEnd
  PROVE  IInv'
<1>1. /\ UNCHANGED <<socketVars, stage, listener, capacity, clientVars>>
      /\ drain' \in {"failed", "sleeping", "returned"}
      /\ \/ UNCHANGED <<signal, told>>
         \/ signal # None /\ told' = told \cup {signal} /\ signal' = None
  BY DEF DrainBegin, DrainEnd, serverVars
<1>2. TypeOK'
  BY <1>1 DEF IInv, TypeOK, socketVars, clientVars
<1>3. SignalInv'
  BY <1>1 DEF IInv, SignalInv, ToldInv, DrainReachesServing, DrainTellsAServer
<1> QED BY <1>1, <1>2, <1>3, QuietStep

LEMMA MakeListenerStep ==
  ASSUME IInv, NEW s \in Servers, MakeListener(s)
  PROVE  IInv'
<1>1. /\ stage[s] = "starting" /\ listener[s] = None
      /\ UNCHANGED <<fd, leaked, signal, told, capacity, conn, at, drain>>
  BY DEF IInv, SocketInv, MakeListener, clientVars
<1>2. /\ stage' \in [Servers -> Stages] /\ stage'[s] \in {"bound", "done"}
      /\ \A u \in Servers \ {s} : stage'[u] = stage[u]
  BY DEF IInv, TypeOK, Stages, MakeListener
<1>3. PICK k \in Sockets \cup {None} :
        /\ listener' = [listener EXCEPT ![s] = k]
        /\ made' = made \cup ({k} \ {None})
        /\ k = None => stage'[s] = "done"
  <2>1. CASE fd # None /\ listener' = [listener EXCEPT ![s] = fd] /\ UNCHANGED made
    BY <2>1 DEF IInv, TypeOK, SocketInv, Listening
  <2>2. CASE \E k \in Sockets \ made :
               made' = made \cup {k} /\ listener' = [listener EXCEPT ![s] = k]
    BY <2>2, NoneAssumption
  <2>3. CASE stage' = [stage EXCEPT ![s] = "done"] /\ UNCHANGED <<made, listener>>
    <3>1. listener' = [listener EXCEPT ![s] = None] /\ made' = made \cup ({None} \ {None})
      BY <1>1, <2>3 DEF IInv, TypeOK
    <3>2. stage'[s] = "done"
      BY <2>3 DEF IInv, TypeOK
    <3> QED BY <3>1, <3>2
  <2> QED BY <2>1, <2>2, <2>3 DEF MakeListener
<1>4. TypeOK'
  BY <1>1, <1>2, <1>3 DEF IInv, TypeOK
<1>5. Listening \subseteq Listening' /\ Listening' \subseteq Listening \cup ({k} \ {None})
  BY <1>1, <1>3 DEF IInv, TypeOK, Listening
<1>6. SocketInv'
  BY <1>1, <1>2, <1>3, <1>5 DEF IInv, TypeOK, SocketInv
<1>7. SignalInv' /\ PreboundNeverReset'
  <2>1. s \notin told /\ s # signal
    BY <1>1, NoneAssumption DEF IInv, SignalInv, ToldInv, DrainTellsAServer, TypeOK
  <2>2. ToldInv' /\ DrainReachesServing'
    BY <1>1, <1>2, <2>1 DEF IInv, TypeOK, SignalInv, ToldInv, DrainReachesServing
  <2>3. DrainTellsAServer'
    <3>1. CASE signal = None
      BY <1>1, <3>1 DEF DrainTellsAServer
    <3>2. CASE signal \in Servers \ {s}
      <4>1. stage'[signal] = stage[signal]
        BY <1>2, <3>2
      <4> QED BY <1>1, <4>1 DEF IInv, SignalInv, DrainTellsAServer
    <3> QED BY <2>1, <3>1, <3>2 DEF IInv, TypeOK
  <2>4. PreboundNeverReset'
    BY <1>1 DEF IInv, PreboundNeverReset
  <2> QED BY <2>2, <2>3, <2>4 DEF SignalInv
<1>8. ConnectionsHaveAnOwner'
  BY <1>1, <1>2, <1>5 DEF IInv, SocketInv, Accepted, ConnectionsHaveAnOwner
<1> QED BY <1>4, <1>6, <1>7, <1>8 DEF IInv

LEMMA InstallDrainStep ==
  ASSUME IInv, NEW s \in Servers, InstallDrain(s)
  PROVE  IInv'
<1>1. /\ stage[s] = "bound" /\ signal' = s
      /\ told' = told \cup ({signal} \ {None})
      /\ stage' = [stage EXCEPT ![s] = "serving"]
      /\ UNCHANGED <<socketVars, listener, capacity, clientVars, drain>>
  BY DEF InstallDrain
<1>2. TypeOK'
  BY <1>1 DEF IInv, TypeOK, Stages, socketVars, clientVars
<1>3. SignalInv'
  BY <1>1, NoneAssumption DEF IInv, TypeOK, SignalInv, ToldInv, DrainReachesServing,
          DrainTellsAServer
<1> QED BY <1>1, <1>2, <1>3, QuietStep DEF IInv, TypeOK, Running

LEMMA AcceptStep ==
  ASSUME IInv, NEW s \in Servers, NEW c \in Clients, Accept(s, c)
  PROVE  IInv'
<1>1. /\ stage[s] \in {"serving", "signalled"} /\ conn' = [conn EXCEPT ![c] = "open"]
      /\ at' = [at EXCEPT ![c] = s]
      /\ UNCHANGED <<fd, made, leaked, stage, listener, signal, told, capacity, drain>>
  BY DEF Accept, socketVars, serverVars
<1>2. TypeOK'
  BY <1>1 DEF IInv, TypeOK, ConnStates, Accepted
<1>3. SocketInv' /\ SignalInv'
  BY <1>1 DEF IInv, TypeOK, SocketInv, Accepted, Listening, SignalInv, ToldInv,
     DrainReachesServing, DrainTellsAServer
<1>4. PreboundNeverReset' /\ ConnectionsHaveAnOwner'
  BY <1>1 DEF IInv, TypeOK, Accepted, PreboundNeverReset, ConnectionsHaveAnOwner, Listening
<1> QED BY <1>2, <1>3, <1>4 DEF IInv

LEMMA HearStep ==
  ASSUME IInv, NEW s \in Servers, Hear(s)
  PROVE  IInv'
<1>1. /\ stage[s] = "serving" /\ s \in told
      /\ stage' = [stage EXCEPT ![s] = "signalled"]
      /\ UNCHANGED <<socketVars, listener, signal, told, capacity, clientVars, drain>>
  BY DEF Hear
<1>2. TypeOK'
  BY <1>1 DEF IInv, TypeOK, Stages, socketVars, clientVars
<1>3. SignalInv'
  BY <1>1 DEF IInv, TypeOK, SignalInv, ToldInv, DrainReachesServing,
          DrainTellsAServer
<1> QED BY <1>1, <1>2, <1>3, QuietStep DEF IInv, TypeOK, Running

LEMMA StopAcceptingStep ==
  ASSUME IInv, NEW s \in Servers, StopAccepting(s)
  PROVE  IInv'
<1>1. /\ stage[s] = "signalled" /\ s \in told
      /\ stage' = [stage EXCEPT ![s] = "closing"]
      /\ listener' = [listener EXCEPT ![s] = None]
      /\ conn' = [c \in Clients |-> IF conn[c] = "queued" /\ at[c] \notin Listening'
                                    THEN "reset" ELSE conn[c]]
      /\ UNCHANGED <<fd, made, leaked, signal, told, capacity, at, drain>>
  BY DEF StopAccepting, socketVars, IInv, SignalInv, ToldInv
<1>2. TypeOK'
  BY <1>1 DEF IInv, TypeOK, Stages, ConnStates
<1>3. Listening' \subseteq Listening /\ ({fd} \cup leaked) \ {None} \subseteq Listening'
  BY <1>1 DEF IInv, TypeOK, Listening
<1>4. SocketInv' /\ SignalInv'
  BY <1>1, <1>3 DEF IInv, TypeOK, SocketInv, Accepted, SignalInv, ToldInv,
     DrainReachesServing, DrainTellsAServer
<1>5. PreboundNeverReset'
  <2> SUFFICES ASSUME NEW c \in Clients, conn'[c] = "reset"
               PROVE  at[c] \notin {fd} \cup leaked
    BY <1>1 DEF PreboundNeverReset
  <2>1. CASE conn[c] = "reset"
    BY <2>1 DEF IInv, PreboundNeverReset
  <2>2. CASE conn[c] = "queued" /\ at[c] \notin Listening'
    <3>1. at[c] \in made /\ made \subseteq Sockets
      BY <2>2 DEF IInv, SocketInv, TypeOK
    <3> QED BY <1>3, <2>2, <3>1, NoneAssumption
  <2> QED BY <1>1, <2>1, <2>2
<1>6. ConnectionsHaveAnOwner'
  BY <1>1 DEF IInv, TypeOK, SocketInv, Accepted, ConnectionsHaveAnOwner
<1> QED BY <1>2, <1>4, <1>5, <1>6 DEF IInv

LEMMA StopStep ==
  ASSUME IInv, NEW s \in Servers, Stop(s)
  PROVE  IInv'
<1>1. /\ stage[s] = "closing" /\ stage' = [stage EXCEPT ![s] = "done"]
      /\ \A c \in Clients : ~(conn[c] \in Accepted /\ at[c] = s)
      /\ UNCHANGED <<socketVars, listener, signal, told, capacity, clientVars, drain>>
  BY DEF Stop
<1>2. TypeOK'
  BY <1>1 DEF IInv, TypeOK, Stages, socketVars, clientVars
<1>3. SignalInv'
  BY <1>1 DEF IInv, TypeOK, SignalInv, ToldInv, DrainReachesServing,
          DrainTellsAServer
<1>4. \A c \in Clients : conn[c] \in Accepted => at[c] \in Servers \ {s}
  BY <1>1 DEF IInv, SocketInv
<1> QED BY <1>1, <1>2, <1>3, <1>4, QuietStep DEF IInv, TypeOK, Running

LEMMA ConnectStep ==
  ASSUME IInv, NEW c \in Clients, Connect(c)
  PROVE  IInv'
<1>1. UNCHANGED <<fd, made, leaked, stage, listener, signal, told, capacity, drain>>
  BY DEF Connect, socketVars, serverVars
<1>2. \/ \E k \in Listening : conn' = [conn EXCEPT ![c] = "queued"]
                              /\ at' = [at EXCEPT ![c] = k]
      \/ conn' = [conn EXCEPT ![c] = "refused"] /\ UNCHANGED at
  BY DEF Connect
<1>3. Listening \subseteq Sockets /\ Listening' = Listening
  BY <1>1 DEF IInv, SocketInv, TypeOK, Listening
<1>4. TypeOK'
  BY <1>1, <1>2, <1>3 DEF IInv, TypeOK, ConnStates
<1>5. SocketInv' /\ SignalInv'
  BY <1>1, <1>2, <1>3 DEF IInv, TypeOK, SocketInv, Accepted, SignalInv, ToldInv,
     DrainReachesServing, DrainTellsAServer
<1>6. PreboundNeverReset' /\ ConnectionsHaveAnOwner'
  BY <1>1, <1>2, <1>3 DEF IInv, TypeOK, Accepted, PreboundNeverReset,
     ConnectionsHaveAnOwner
<1> QED BY <1>4, <1>5, <1>6 DEF IInv

(* What an accepted connection does leaves it with its server. *)
LEMMA AcceptedStep ==
  ASSUME IInv, NEW c \in Clients, Send(c) \/ Poll(c) \/ Close(c)
  PROVE  IInv'
<1>1. UNCHANGED <<fd, made, leaked, stage, listener, signal, told, capacity, at, drain>>
  BY DEF Send, Poll, Close, socketVars, serverVars
<1>2. /\ conn[c] \in Accepted
      /\ \E to \in {"sent", "parked", "closed"} : conn' = [conn EXCEPT ![c] = to]
  BY DEF Send, Poll, Close, Accepted
<1>3. Listening' = Listening
  BY <1>1 DEF Listening
<1>4. TypeOK'
  BY <1>1, <1>2 DEF IInv, TypeOK, ConnStates, Accepted
<1>5. SocketInv' /\ SignalInv'
  BY <1>1, <1>2, <1>3 DEF IInv, TypeOK, SocketInv, Accepted, SignalInv, ToldInv,
     DrainReachesServing, DrainTellsAServer
<1>6. PreboundNeverReset' /\ ConnectionsHaveAnOwner'
  BY <1>1, <1>2, <1>3 DEF IInv, TypeOK, Accepted, PreboundNeverReset,
     ConnectionsHaveAnOwner
<1> QED BY <1>4, <1>5, <1>6 DEF IInv

LEMMA NextInv == IInv /\ [Next]_vars => IInv'
<1> SUFFICES ASSUME IInv, [Next]_vars PROVE IInv'
  OBVIOUS
<1>1. ASSUME NEW k \in Sockets, Prebind(k) PROVE IInv'
  BY <1>1, PrebindStep
<1>2. ASSUME NEW s \in Servers, Thread(s) \/ Hear(s) PROVE IInv'
  BY <1>2, MakeListenerStep, InstallDrainStep, HearStep, StopAcceptingStep,
     StopStep DEF Thread
<1>3. ASSUME NEW s \in Servers,
             \/ \E depth \in Depths : Listen(s, depth)
             \/ \E c \in Clients : Accept(s, c)
      PROVE  IInv'
  BY <1>3, ListenStep, AcceptStep
<1>4. CASE DrainBegin \/ DrainEnd
  BY <1>4, DrainStep
<1>5. ASSUME NEW c \in Clients, Connect(c) \/ Send(c) \/ Poll(c) \/ Close(c)
      PROVE  IInv'
  BY <1>5, ConnectStep, AcceptedStep
<1>6. CASE UNCHANGED vars
  BY <1>6 DEF vars, IInv, TypeOK, SocketInv, Listening, SignalInv, ToldInv,
     DrainReachesServing, DrainTellsAServer, PreboundNeverReset,
     ConnectionsHaveAnOwner
<1> QED BY <1>1, <1>2, <1>3, <1>4, <1>5, <1>6 DEF Next

(* The sockets, servers and connections of every behaviour. *)
THEOREM Invariance == Spec => []IInv
  BY InitInv, NextInv, PTL DEF Spec

(* The variables of the lifecycle keep their types.                        *)
THEOREM TypeCorrect == Spec => []TypeOK
<1>1. IInv => TypeOK
  BY DEF IInv
<1> QED BY <1>1, Invariance, PTL

(* DRAIN_SIGNAL holds the sender of the one server that accepts unasked. *)
THEOREM DrainReaches == Spec => []DrainReachesServing
<1>1. IInv => DrainReachesServing
  BY DEF IInv, SignalInv
<1> QED BY <1>1, Invariance, PTL

(* A drain that finds a sender stops a server that was accepting: none is  *)
(* told twice, and none that never served or has ended.                    *)
THEOREM DrainTells == Spec => []DrainTellsAServer
<1>1. IInv => DrainTellsAServer
  BY DEF IInv, SignalInv
<1> QED BY <1>1, Invariance, PTL

(* No shutdown resets a connection queued on a prebound socket.            *)
THEOREM PreboundSurvives == Spec => []PreboundNeverReset
<1>1. IInv => PreboundNeverReset
  BY DEF IInv
<1> QED BY <1>1, Invariance, PTL

(* No connection is left with a closed socket or an ended server.          *)
THEOREM ConnectionsOwned == Spec => []ConnectionsHaveAnOwner
<1>1. IInv => ConnectionsHaveAnOwner
  BY DEF IInv
<1> QED BY <1>1, Invariance, PTL
============================================================================
