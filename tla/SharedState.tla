---------------------------- MODULE SharedState ----------------------------
(***************************************************************************)
(* The Shared-State Broker: a DashMap in the heap of every worker process, *)
(* and the quill_shared_* calls that reach it.                             *)
(*                                                                         *)
(* A DashMap is an array of shards, each a hash map behind a read-write    *)
(* lock.  set, get and remove hold the lock of their key's shard for one   *)
(* access: they are single steps.  increment keeps the write lock from     *)
(* entry() to the end of the function, across its read and its write: it   *)
(* is two steps.  keys() walks over the shards hand over hand: it takes    *)
(* the read lock of the next shard before it gives the current one back.   *)
(* fork copies the heap of the parent, which is idle in the broker then.   *)
(*                                                                         *)
(* Integers are 64 bits wide in the code, less here.  With overflow checks *)
(* (debug builds) a sum out of range panics and catch_unwind makes the     *)
(* reply 0; without them (release builds) it wraps.  A call with a null    *)
(* pointer or a value that is no JSON returns before it touches the map.   *)
(***************************************************************************)
EXTENDS Integers

CONSTANTS
  Procs,      \* processes; Root is there from the start, the rest is forked
  Root,
  Threads,    \* PHP threads, each of one process
  Home,       \* the process of each thread
  RawKeys,    \* keys as the callers pass them
  Keys,
  KeyOf,      \* the key of a raw one: "" for every one that is not UTF-8
  NumShards,
  ShardOf,    \* the shard of each key
  Deltas,     \* increments the callers use
  Half,       \* integers are those of -Half .. Half - 1: 2^63 in the code
  Checked,    \* overflow checks are compiled in
  Text,       \* any JSON value that is not a signed integer
  Absent      \* no value

Signed == -Half .. Half - 1
Values == Signed \cup {Text}
Shards == 1 .. NumShards

ASSUME ProcsAssumption  == Root \in Procs /\ Home \in [Threads -> Procs]
ASSUME KeysAssumption   == KeyOf \in [RawKeys -> Keys]
ASSUME ShardsAssumption == NumShards \in Nat \ {0} /\ ShardOf \in [Keys -> Shards]
ASSUME HalfAssumption  == Half \in Nat \ {0} /\ Checked \in BOOLEAN
ASSUME DeltasAssumption == Deltas \subseteq Signed
ASSUME ValuesAssumption == Text \notin Signed /\ Absent \notin Values

VARIABLES
  started,  \* processes that exist
  kv,       \* the map of each process
  op,       \* the call each thread is in the middle of, with its locals
  reply,    \* the last reply of set, get, incr or remove each thread got
  steady,   \* history: keys present ever since the thread called keys()
  met       \* history: keys present at some time since then

vars == <<started, kv, op, reply, steady, met>>

NoOp == [call |-> "none"]
IncrOps == [call : {"incr"}, key : Keys, delta : Deltas, current : Signed,
            fresh : BOOLEAN]
KeysOps == [call : {"keys"}, shard : Shards, seen : SUBSET Keys]
Replies == {"none", "set", "get", "incr", "remove"}
             \X (Values \cup {Absent, 0, 1})

In(t, call) == op[t].call = call
Idle(t)     == Home[t] \in started /\ In(t, "none")

(* The locks other calls hold: increment writes, keys() reads. *)
Peers(t)    == {u \in Threads : Home[u] = Home[t]}
CanRead(t, s)  == \A u \in Peers(t) : In(u, "incr") => ShardOf[op[u].key] # s
CanWrite(t, s) == /\ CanRead(t, s)
                  /\ \A u \in Peers(t) : In(u, "keys") => op[u].shard # s

Present(map) == {k \in Keys : map[k] # Absent}
Shard(t, s)  == {k \in Present(kv[Home[t]]) : ShardOf[k] = s}

(* Mutant: a sum that keeps its carry. *)
Widened(n) == n

(* as_i64().unwrap_or_default(), and the sum: Absent if it panics. *)
AsSigned(v)  == IF v \in Signed THEN v ELSE 0
Wrapped(n)   == ((n + Half) % (2 * Half)) - Half
Incremented(v, d) == IF Checked /\ AsSigned(v) + d \notin Signed
                     THEN Absent
                     ELSE Wrapped(AsSigned(v) + d)

Init ==
  /\ started = {Root}
  /\ kv      = [p \in Procs |-> [k \in Keys |-> Absent]]
  /\ op      = [t \in Threads |-> NoOp]
  /\ reply   = [t \in Threads |-> <<"none", Absent>>]
  /\ steady  = [t \in Threads |-> {}]
  /\ met     = [t \in Threads |-> {}]

Answer(t, call, v) == reply' = [reply EXCEPT ![t] = <<call, v>>]

(* Every write of a map, and what the keys() calls under way see of it. *)
Write(t, k, v) ==
  LET now == Present([kv[Home[t]] EXCEPT ![k] = v])
  IN  /\ kv' = [kv EXCEPT ![Home[t]][k] = v]
      /\ steady' = [u \in Threads |->
                      IF u \in Peers(t) THEN steady[u] \cap now ELSE steady[u]]
      /\ met' = [u \in Threads |->
                   IF u \in Peers(t) /\ In(u, "keys") THEN met[u] \cup now
                                                      ELSE met[u]]
-----------------------------------------------------------------------------
Set(t, k, v) ==
  /\ Idle(t) /\ CanWrite(t, ShardOf[k])
  /\ Write(t, k, v)
  /\ Answer(t, "set", 0)
  /\ UNCHANGED <<started, op>>

Get(t, k) ==
  /\ Idle(t) /\ CanRead(t, ShardOf[k])
  /\ Answer(t, "get", kv[Home[t]][k])
  /\ UNCHANGED <<started, kv, op, steady, met>>

Remove(t, k) ==
  /\ Idle(t) /\ CanWrite(t, ShardOf[k])
  /\ Write(t, k, Absent)
  /\ Answer(t, "remove", IF kv[Home[t]][k] = Absent THEN 1 ELSE 0)
  /\ UNCHANGED <<started, op>>

(* Mutant: the value is read without the lock of the entry. *)
IncrReadUnlocked(t, k, d) ==
  /\ Idle(t)
  /\ kv[Home[t]][k] # Absent
  /\ op' = [op EXCEPT ![t] = [call |-> "incr", key |-> k, delta |-> d,
                              current |-> AsSigned(kv[Home[t]][k]),
                              fresh |-> FALSE]]
  /\ UNCHANGED <<started, kv, reply, steady, met>>

(* entry().or_insert(0) and the read of the value. *)
IncrEntry(t, k, d) ==
  LET fresh == kv[Home[t]][k] = Absent
  IN  /\ Idle(t) /\ CanWrite(t, ShardOf[k])
      /\ op' = [op EXCEPT ![t] = [call |-> "incr", key |-> k, delta |-> d,
                                  current |-> AsSigned(kv[Home[t]][k]),
                                  fresh |-> fresh]]
      /\ IF fresh THEN Write(t, k, 0) ELSE UNCHANGED <<kv, steady, met>>
      /\ UNCHANGED <<started, reply>>

(* Mutant: the value is overwritten before the sum is checked. *)
IncrStoreUnchecked(t) ==
  /\ In(t, "incr")
  /\ Answer(t, "incr", IF Incremented(op[t].current, op[t].delta) = Absent
                       THEN 0
                       ELSE Incremented(op[t].current, op[t].delta))
  /\ Write(t, op[t].key, Wrapped(op[t].current + op[t].delta))
  /\ op' = [op EXCEPT ![t] = NoOp]
  /\ UNCHANGED started

(* The write, unless the sum panics, and the end of the entry's lock. *)
IncrStore(t) ==
  /\ In(t, "incr")
  /\ LET new == Incremented(op[t].current, op[t].delta)
     IN  IF new = Absent
         THEN Answer(t, "incr", 0) /\ UNCHANGED <<kv, steady, met>>
         ELSE Answer(t, "incr", new) /\ Write(t, op[t].key, new)
  /\ op' = [op EXCEPT ![t] = NoOp]
  /\ UNCHANGED started

KeysBegin(t) ==
  /\ Idle(t) /\ CanRead(t, 1)
  /\ op' = [op EXCEPT ![t] = [call |-> "keys", shard |-> 1, seen |-> Shard(t, 1)]]
  /\ steady' = [steady EXCEPT ![t] = Present(kv[Home[t]])]
  /\ met'    = [met EXCEPT ![t] = Present(kv[Home[t]])]
  /\ UNCHANGED <<started, kv, reply>>

(* Mutant: the shard just left is collected again instead of the next. *)
KeysNextOffByOne(t) ==
  /\ In(t, "keys") /\ op[t].shard < NumShards
  /\ CanRead(t, op[t].shard + 1)
  /\ op' = [op EXCEPT ![t] =
              [call |-> "keys", shard |-> op[t].shard + 1,
               seen |-> op[t].seen \cup Shard(t, op[t].shard)]]
  /\ UNCHANGED <<started, kv, reply, steady, met>>

KeysNext(t) ==
  /\ In(t, "keys") /\ op[t].shard < NumShards
  /\ CanRead(t, op[t].shard + 1)
  /\ op' = [op EXCEPT ![t] =
              [call |-> "keys", shard |-> op[t].shard + 1,
               seen |-> op[t].seen \cup Shard(t, op[t].shard + 1)]]
  /\ UNCHANGED <<started, kv, reply, steady, met>>

(* The reply is the list of what the walk has seen. *)
KeysEnd(t) ==
  /\ In(t, "keys") /\ op[t].shard = NumShards
  /\ op'     = [op EXCEPT ![t] = NoOp]
  /\ steady' = [steady EXCEPT ![t] = {}]
  /\ met'    = [met EXCEPT ![t] = {}]
  /\ UNCHANGED <<started, kv, reply>>

(* The child's heap is a copy of its parent's. *)
Fork(p, c) ==
  /\ p \in started /\ c \notin started
  /\ \A t \in Threads : Home[t] = p => In(t, "none")
  /\ started' = started \cup {c}
  /\ kv' = [kv EXCEPT ![c] = kv[p]]
  /\ UNCHANGED <<op, reply, steady, met>>

Next ==
  \/ \E t \in Threads :
       \/ \E raw \in RawKeys :
            LET k == KeyOf[raw] IN
            \/ Get(t, k) \/ Remove(t, k)
            \/ \E v \in Values : Set(t, k, v)
            \/ \E d \in Deltas : IncrEntry(t, k, d)
       \/ IncrStore(t) \/ KeysBegin(t) \/ KeysNext(t) \/ KeysEnd(t)
  \/ \E p, c \in Procs : Fork(p, c)

Spec == Init /\ [][Next]_vars
-----------------------------------------------------------------------------
(* Properties. *)

(* The types of the variables. *)
TypeOK ==
  /\ started \in SUBSET Procs
  /\ kv      \in [Procs -> [Keys -> Values \cup {Absent}]]
  /\ op      \in [Threads -> {NoOp} \cup IncrOps \cup KeysOps]
  /\ reply   \in [Threads -> Replies]
  /\ steady  \in [Threads -> SUBSET Keys]
  /\ met     \in [Threads -> SUBSET Keys]

(* keys() is no snapshot, but it is right about every key nobody touched:  *)
(* what it collected was there at some time during the call, and what was  *)
(* there all the time has been collected from the shards it went through.  *)
KeysAreWeaklyConsistent ==
  \A t \in Threads : In(t, "keys") =>
    /\ op[t].seen \subseteq met[t]
    /\ \A k \in steady[t] : ShardOf[k] <= op[t].shard => k \in op[t].seen

(* The lock of a shard protects the value an increment has read: nobody    *)
(* else changes it before the increment writes its sum.                    *)
IncrementsAreIsolated ==
  \A t \in Threads : In(t, "incr") =>
    AsSigned(kv[Home[t]][op[t].key]) = op[t].current

(* All workers see the same values, as one broker they share would show.   *)
SharedByAllWorkers == \A p, q \in started : kv[p] = kv[q]
============================================================================
