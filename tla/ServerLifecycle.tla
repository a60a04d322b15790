-------------------------- MODULE ServerLifecycle --------------------------
(***************************************************************************)
(* The life of the HTTP servers of one worker process: the listening       *)
(* socket prebound before the fork, quill_server_listen and the thread it  *)
(* spawns, DRAIN_SIGNAL, and the graceful shutdown.                        *)
(*                                                                         *)
(* quill_server_listen returns before its thread has a listener, so every  *)
(* step of start_server interleaves with the calls of the PHP thread.  A   *)
(* TCP socket listens as long as a descriptor of it is open; the kernel    *)
(* completes connections of clients on its own and queues them on one of   *)
(* the sockets that listen (SO_REUSEPORT lets several share the port).     *)
(* axum's accept loop and its shutdown, the kernel and the clients are     *)
(* modelled from how the code uses them.                                   *)
(*                                                                         *)
(* The accept loop runs on the server's own thread (block_on), the         *)
(* connections and the task that waits for close_rx on the worker threads  *)
(* of its runtime.  A request whose send finds the channel full parks the  *)
(* worker it runs on until the PHP thread polls, which it cannot do while  *)
(* it sleeps in quill_server_drain.  RequestBridge says when the channel   *)
(* is full; here it may be at any send.                                    *)
(*                                                                         *)
(* Bound: a connection carries at most one request that goes to PHP.       *)
(***************************************************************************)
EXTENDS Naturals, FiniteSets

CONSTANTS
  Servers,     \* the calls of quill_server_listen
  NumWorkers,  \* the worker threads of the runtime of each server
  Sockets,     \* the listening sockets the process ever makes
  Clients,     \* the connections of clients
  Depths,      \* the queue depths passed to quill_server_listen
  None

ASSUME WorkersAssumption == NumWorkers \in Nat \ {0}

ASSUME NoneAssumption == None \notin Servers \cup Sockets \cup Depths

VARIABLES
  fd,        \* SHARED_SOCKET_FD
  made,      \* sockets that were bound at some time
  leaked,    \* sockets of descriptors that nothing refers to any more
  stage,     \* where the thread of each server is
  listener,  \* the socket each server accepts from
  signal,    \* DRAIN_SIGNAL: the server whose close_tx it holds
  told,      \* servers whose close_rx resolved
  capacity,  \* the capacity POLL_SENDER was made with
  conn,      \* the state of each connection
  at,        \* the socket that queues it, or the server that accepted it
  drain      \* quill_server_drain: under way, or what it returned since the
             \* last listen

vars == <<fd, made, leaked, stage, listener, signal, told, capacity, conn, at,
          drain>>

(* "signalled": the task that waits for close_rx has seen it resolve;      *)
(* "closing": the listener is dropped; "done": the thread ended, after a   *)
(* failure or a shutdown.                                                  *)
Stages == {"none", "starting", "bound", "serving", "signalled", "closing", "done"}

(* A connection that a server accepted is idle or reads a request, has a   *)
(* worker parked in its send, or waits for the response.                   *)
Accepted == {"open", "parked", "sent"}

ConnStates == Accepted \cup {"none", "queued", "closed", "reset", "refused"}

Listening == ({fd} \cup leaked \cup {listener[s] : s \in Servers}) \ {None}

Init ==
  /\ fd       = None
  /\ made     = {}
  /\ leaked   = {}
  /\ stage    = [s \in Servers |-> "none"]
  /\ listener = [s \in Servers |-> None]
  /\ signal   = None
  /\ told     = {}
  /\ capacity = None
  /\ conn     = [c \in Clients |-> "none"]
  /\ at       = [c \in Clients |-> None]
  /\ drain    = "none"

(* A worker of the runtime of s is not parked inside a send. *)
WorkerFree(s) ==
  Cardinality({c \in Clients : conn[c] = "parked" /\ at[c] = s}) < NumWorkers

serverVars == <<stage, listener, signal, told>>
socketVars == <<fd, made, leaked>>
clientVars == <<conn, at>>
-----------------------------------------------------------------------------
(* The calls of the PHP thread, which sleeps inside quill_server_drain. *)

PhpRuns == drain # "sleeping"

(* A second call forgets the descriptor of the first without closing it. *)
Prebind(k) ==
  /\ PhpRuns
  /\ k \notin made
  /\ made'   = made \cup {k}
  /\ leaked' = leaked \cup ({fd} \ {None})
  /\ fd'     = k
  /\ UNCHANGED <<serverVars, capacity, clientVars, drain>>

(* It returns 0 here, whatever becomes of the thread; the channel keeps    *)
(* the capacity of the first call.                                         *)
Listen(s, depth) ==
  /\ PhpRuns
  /\ stage[s] = "none"
  /\ stage'    = [stage EXCEPT ![s] = "starting"]
  /\ capacity' = IF capacity = None THEN depth ELSE capacity
  /\ drain'    = "none"
  /\ UNCHANGED <<socketVars, listener, signal, told, clientVars>>

(* Mutant: no check that there is a sender. *)
DrainBeginUnchecked ==
  /\ PhpRuns
  /\ told'   = told \cup {signal}
  /\ signal' = None
  /\ drain'  = "sleeping"
  /\ UNCHANGED <<socketVars, stage, listener, capacity, clientVars>>

(* Mutant: the sender is used but not taken out of DRAIN_SIGNAL. *)
DrainBeginKeeping ==
  /\ PhpRuns
  /\ IF signal = None
     THEN drain' = "failed" /\ UNCHANGED told
     ELSE told' = told \cup {signal} /\ drain' = "sleeping"
  /\ UNCHANGED <<socketVars, stage, listener, signal, capacity, clientVars>>

(* Taking the sender and sending, or finding none and returning 1. *)
DrainBegin ==
  /\ PhpRuns
  /\ IF signal = None
     THEN drain' = "failed" /\ UNCHANGED <<signal, told>>
     ELSE /\ told'   = told \cup {signal}
          /\ signal' = None
          /\ drain'  = "sleeping"
  /\ UNCHANGED <<socketVars, stage, listener, capacity, clientVars>>

(* Mutant: drain returns only when the servers it told have ended. *)
DrainEndWaiting ==
  /\ drain = "sleeping"
  /\ \A s \in told : stage[s] = "done"
  /\ drain' = "returned"
  /\ UNCHANGED <<socketVars, serverVars, capacity, clientVars>>

(* The sleep takes timeout_ms, with or without requests in flight. *)
DrainEnd ==
  /\ drain = "sleeping"
  /\ drain' = "returned"
  /\ UNCHANGED <<socketVars, serverVars, capacity, clientVars>>

(* A poll takes a request out of the channel, and one parked send goes on. *)
Poll(c) ==
  /\ PhpRuns
  /\ conn[c] = "parked"
  /\ conn' = [conn EXCEPT ![c] = "sent"]
  /\ UNCHANGED <<socketVars, serverVars, capacity, at, drain>>
-----------------------------------------------------------------------------
(* The thread of a server. *)

(* make_listener: a dup of the prebound socket, else a socket of its own;  *)
(* a system call may fail, and the error ends the thread silently.         *)
MakeListener(s) ==
  /\ stage[s] = "starting"
  /\ \/ /\ fd # None
        /\ listener' = [listener EXCEPT ![s] = fd]
        /\ stage'    = [stage EXCEPT ![s] = "bound"]
        /\ UNCHANGED made
     \/ \E k \in Sockets \ made :
          /\ made'     = made \cup {k}
          /\ listener' = [listener EXCEPT ![s] = k]
          /\ stage'    = [stage EXCEPT ![s] = "bound"]
     \/ /\ stage' = [stage EXCEPT ![s] = "done"]
        /\ UNCHANGED <<made, listener>>
  /\ UNCHANGED <<fd, leaked, signal, told, capacity, clientVars, drain>>

(* Mutant: only the first server's sender is stored. *)
InstallFirstDrain(s) ==
  /\ stage[s] = "bound"
  /\ signal' = IF signal = None THEN s ELSE signal
  /\ stage'  = [stage EXCEPT ![s] = "serving"]
  /\ UNCHANGED <<socketVars, listener, told, capacity, clientVars, drain>>

(* Storing the new sender drops the one of another server: its close_rx    *)
(* resolves as if it had been drained.                                     *)
InstallDrain(s) ==
  /\ stage[s] = "bound"
  /\ signal' = s
  /\ told'   = told \cup ({signal} \ {None})
  /\ stage'  = [stage EXCEPT ![s] = "serving"]
  /\ UNCHANGED <<socketVars, listener, capacity, clientVars, drain>>

(* The loop chooses at random between a connection and the shutdown. *)
Accept(s, c) ==
  /\ stage[s] \in {"serving", "signalled"}
  /\ conn[c] = "queued" /\ at[c] = listener[s]
  /\ conn' = [conn EXCEPT ![c] = "open"]
  /\ at'   = [at EXCEPT ![c] = s]
  /\ UNCHANGED <<socketVars, serverVars, capacity, drain>>

(* The task that awaits close_rx needs a worker to run on. *)
Hear(s) ==
  /\ stage[s] = "serving" /\ s \in told
  /\ WorkerFree(s)
  /\ stage' = [stage EXCEPT ![s] = "signalled"]
  /\ UNCHANGED <<socketVars, listener, signal, told, capacity, clientVars, drain>>

(* Mutant: the socket is shut down, not just this descriptor of it. *)
StopSocket(s) ==
  /\ stage[s] = "signalled"
  /\ stage'    = [stage EXCEPT ![s] = "closing"]
  /\ listener' = [listener EXCEPT ![s] = None]
  /\ conn' = [c \in Clients |-> IF conn[c] = "queued" /\ at[c] = listener[s]
                                THEN "reset" ELSE conn[c]]
  /\ UNCHANGED <<socketVars, signal, told, capacity, at, drain>>

(* Graceful shutdown drops the listener first.  If that was its last       *)
(* descriptor, the kernel resets the connections nobody had accepted.      *)
StopAccepting(s) ==
  /\ stage[s] = "signalled"
  /\ stage'    = [stage EXCEPT ![s] = "closing"]
  /\ listener' = [listener EXCEPT ![s] = None]
  /\ UNCHANGED <<socketVars, signal, told, capacity, at, drain>>
  /\ conn' = [c \in Clients |-> IF conn[c] = "queued" /\ at[c] \notin Listening'
                                THEN "reset" ELSE conn[c]]

(* Mutant: the thread ends at once. *)
StopAtOnce(s) ==
  /\ stage[s] = "closing"
  /\ stage' = [stage EXCEPT ![s] = "done"]
  /\ UNCHANGED <<socketVars, listener, signal, told, capacity, clientVars, drain>>

(* Then it waits for the connections it had accepted. *)
Stop(s) ==
  /\ stage[s] = "closing"
  /\ \A c \in Clients : ~(conn[c] \in Accepted /\ at[c] = s)
  /\ stage' = [stage EXCEPT ![s] = "done"]
  /\ UNCHANGED <<socketVars, listener, signal, told, capacity, clientVars, drain>>
-----------------------------------------------------------------------------
Connect(c) ==
  /\ conn[c] = "none"
  /\ \/ \E k \in Listening :
          /\ conn' = [conn EXCEPT ![c] = "queued"]
          /\ at'   = [at EXCEPT ![c] = k]
     \/ /\ Listening = {}
        /\ conn' = [conn EXCEPT ![c] = "refused"]
        /\ UNCHANGED at
  /\ UNCHANGED <<socketVars, serverVars, capacity, drain>>

(* The future of a request sends it: the channel has room, or the send     *)
(* keeps the worker.                                                       *)
Send(c) ==
  /\ conn[c] = "open"
  /\ WorkerFree(at[c])
  /\ \E state \in {"sent", "parked"} : conn' = [conn EXCEPT ![c] = state]
  /\ UNCHANGED <<socketVars, serverVars, capacity, at, drain>>

(* A connection ends: its client goes, its request was answered, or it was *)
(* idle when the server shut down.  Its task needs a worker to notice.     *)
Close(c) ==
  /\ conn[c] \in {"open", "sent"}
  /\ WorkerFree(at[c])
  /\ conn' = [conn EXCEPT ![c] = "closed"]
  /\ UNCHANGED <<socketVars, serverVars, capacity, at, drain>>

Thread(s) == MakeListener(s) \/ InstallDrain(s) \/ StopAccepting(s) \/ Stop(s)

Next ==
  \/ \E k \in Sockets : Prebind(k)
  \/ \E s \in Servers : \/ Thread(s) \/ Hear(s)
                        \/ \E depth \in Depths : Listen(s, depth)
                        \/ \E c \in Clients : Accept(s, c)
  \/ DrainBegin \/ DrainEnd
  \/ \E c \in Clients : Connect(c) \/ Send(c) \/ Poll(c) \/ Close(c)

Spec == Init /\ [][Next]_vars

(* A connection of a server that shuts down: hyper ends the idle ones      *)
(* itself and the others after their answer.                               *)
CloseInShutdown(c) == Close(c) /\ stage[at[c]] = "closing"

(* The thread of a server goes on, and its runtime runs the tasks that are *)
(* ready when a worker is free.  PHP comes back to polling after a drain,  *)
(* and a parked send has its turn: sends go on in the order they came.     *)
(* Clients need not connect or send; of those connected to a server that   *)
(* shuts down it is assumed that they complete or give up the request they *)
(* are in the middle of, since no deadline guards the reading of a body.   *)
FairSpec == /\ Spec
            /\ \A s \in Servers : WF_vars(Thread(s)) /\ WF_vars(Hear(s))
            /\ \A c \in Clients : WF_vars(CloseInShutdown(c)) /\ WF_vars(Poll(c))
            /\ WF_vars(DrainEnd)
-----------------------------------------------------------------------------
(* Properties. *)

(* The types of the variables. *)
TypeOK ==
  /\ fd       \in Sockets \cup {None}
  /\ made     \in SUBSET Sockets
  /\ leaked   \in SUBSET Sockets
  /\ stage    \in [Servers -> Stages]
  /\ listener \in [Servers -> Sockets \cup {None}]
  /\ signal   \in Servers \cup {None}
  /\ told     \in SUBSET Servers
  /\ capacity \in Depths \cup {None}
  /\ conn     \in [Clients -> ConnStates]
  /\ at       \in [Clients -> Sockets \cup Servers \cup {None}]
  /\ drain    \in {"none", "failed", "sleeping", "returned"}

(* A server that accepts connections and was not told to stop is the one a *)
(* drain would reach: no two of them ever serve side by side, and a drain  *)
(* that finds no sender leaves none of them behind.                        *)
DrainReachesServing ==
  \A s \in Servers :
    stage[s] \in {"serving", "signalled"} /\ s \notin told => signal = s

(* The sender DRAIN_SIGNAL holds belongs to a server that still accepts    *)
(* and was not told to stop: a drain that does not return 1 has really     *)
(* stopped one, and none is told twice.                                    *)
DrainTellsAServer ==
  signal # None => stage[signal] = "serving" /\ signal \notin told

(* A connection is reset only if the socket it was queued on belonged to a *)
(* server alone: the prebound socket outlives every drain, and the clients *)
(* queued there are left to the other workers that share it.               *)
PreboundNeverReset ==
  \A c \in Clients : conn[c] = "reset" => at[c] \notin {fd} \cup leaked

(* A connection that waits in a queue waits on a socket that listens, and  *)
(* one that a server accepted belongs to a server that has not ended.      *)
ConnectionsHaveAnOwner ==
  \A c \in Clients :
    /\ conn[c] = "queued" => at[c] \in Listening
    /\ conn[c] \in Accepted =>
         stage[at[c]] \in {"serving", "signalled", "closing"}

(* A server that was drained, or replaced by a later listen, ends, even if *)
(* at that moment all its workers are parked in the sends of requests: the *)
(* drain that keeps PHP from polling returns whatever has become of them.  *)
(* (A server stays told, so it must not be without an end for ever.)       *)
ToldServersEnd == \A s \in Servers : []<>(s \in told => stage[s] = "done")

(* After a drain returned and the servers ended, no new connection is      *)
(* taken.                                                                  *)
DrainStopsAccepting ==
  drain = "returned" /\ (\A s \in Servers : stage[s] \in {"none", "done"})
    => Listening = {}

(* A drain of the servers PHP has started ends them.                       *)
DrainEndsServers ==
  \A s \in Servers :
    stage[s] # "none" /\ drain \in {"failed", "returned"} ~> stage[s] = "done"
============================================================================
