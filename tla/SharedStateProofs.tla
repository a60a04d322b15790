------------------------- MODULE SharedStateProofs -------------------------
(***************************************************************************)
(* Proofs about SharedState, for every number of processes, threads, keys  *)
(* and shards and every integer width, with and without overflow checks.   *)
(*                                                                         *)
(* The isolation of increments rests on the locks: LockInv says that the   *)
(* calls in progress exclude each other as the read-write locks promise.   *)
(* The consistency of keys() rests on WalkInv, which relates the two       *)
(* history variables to the map itself.                                    *)
(*                                                                         *)
(* That the broker implements AtomicStore rests on the locks once more:    *)
(* while a call has a key, no increment is in the middle of changing it.   *)
(***************************************************************************)
EXTENDS BrokerRefinement, TLAPS

(* A call is in progress only in a process that exists. *)
StartedInv == \A t \in Threads : ~In(t, "none") => Home[t] \in started

(* An increment shares its shard with no increment and no walk. *)
LockInv ==
  \A t, u \in Threads :
    In(t, "incr") /\ u \in Peers(t) =>
      /\ In(u, "incr") /\ u # t => ShardOf[op[u].key] # ShardOf[op[t].key]
      /\ In(u, "keys") => op[u].shard # ShardOf[op[t].key]

(* What a walk has met includes what is there, which includes what stayed. *)
WalkInv ==
  \A t \in Threads : In(t, "keys") =>
    /\ steady[t] \subseteq Present(kv[Home[t]])
    /\ Present(kv[Home[t]]) \subseteq met[t]

IInv == /\ TypeOK
        /\ StartedInv
        /\ LockInv
        /\ IncrementsAreIsolated
        /\ WalkInv
        /\ KeysAreWeaklyConsistent

-----------------------------------------------------------------------------
(* Integers. *)

LEMMA SignedRange == Signed \subseteq Int /\ 0 \in Signed
BY HalfAssumption DEF Signed

LEMMA WrappedInRange ==
  ASSUME NEW n \in Int
  PROVE  Wrapped(n) \in Signed
<1> DEFINE m == (n + Half) % (2 * Half)
<1>1. 2 * Half \in Nat \ {0} /\ n + Half \in Int
  BY HalfAssumption
<1>2. m \in 0 .. 2 * Half - 1
  <2> HIDE DEF m
  <2> DEFINE a == n + Half
             b == 2 * Half
  <2>1. a \in Int /\ b \in Nat \ {0}
    BY <1>1
  <2> HIDE DEF a, b
  <2>2. a % b \in 0 .. b - 1
    BY <2>1
  <2> QED BY <2>2 DEF a, b, m
<1>3. Wrapped(n) = m - Half
  BY DEF Wrapped
<1> HIDE DEF m
<1> QED BY <1>2, <1>3, HalfAssumption DEF Signed

LEMMA AsSignedInRange ==
  ASSUME NEW v
  PROVE  AsSigned(v) \in Signed
BY SignedRange DEF AsSigned

LEMMA IncrementedInRange ==
  ASSUME NEW v, NEW d \in Deltas
  PROVE  Incremented(v, d) \in Signed \cup {Absent}
<1>1. AsSigned(v) \in Int /\ d \in Int
  <2>1. AsSigned(v) \in Signed
    BY AsSignedInRange
  <2> QED BY <2>1, SignedRange, DeltasAssumption
<1>2. AsSigned(v) + d \in Int
  BY <1>1
<1>3. Wrapped(AsSigned(v) + d) \in Signed
  BY <1>2, WrappedInRange
<1> QED BY <1>3 DEF Incremented

LEMMA AbsentIsZero == Absent \notin Signed /\ AsSigned(Absent) = 0 /\ AsSigned(0) = 0
BY ValuesAssumption, SignedRange DEF Values, AsSigned

-----------------------------------------------------------------------------
(* The calls in progress. *)

LEMMA IncrIsTyped ==
  ASSUME TypeOK, NEW t \in Threads, In(t, "incr")
  PROVE  /\ op[t] \in IncrOps
         /\ op[t].key \in Keys /\ op[t].delta \in Deltas
         /\ op[t].current \in Signed
<1>1. op[t] \in {NoOp} \cup IncrOps \cup KeysOps
  BY DEF TypeOK
<1>2. op[t] \in IncrOps
  BY <1>1 DEF In, NoOp, IncrOps, KeysOps
<1> QED BY <1>2 DEF IncrOps

LEMMA KeysIsTyped ==
  ASSUME TypeOK, NEW t \in Threads, In(t, "keys")
  PROVE  /\ op[t] \in KeysOps
         /\ op[t].shard \in Shards /\ op[t].seen \in SUBSET Keys
<1>1. op[t] \in {NoOp} \cup IncrOps \cup KeysOps
  BY DEF TypeOK
<1>2. op[t] \in KeysOps
  BY <1>1 DEF In, NoOp, IncrOps, KeysOps
<1> QED BY <1>2 DEF KeysOps

-----------------------------------------------------------------------------
(* What a write of the map does to the map and to the histories. *)

LEMMA WriteEffect ==
  ASSUME TypeOK, NEW t \in Threads, NEW k \in Keys,
         NEW v \in Values \cup {Absent}, Write(t, k, v)
  PROVE  /\ kv' \in [Procs -> [Keys -> Values \cup {Absent}]]
         /\ \A p \in Procs : \A q \in Keys :
              kv'[p][q] = IF p = Home[t] /\ q = k THEN v ELSE kv[p][q]
         /\ steady' \in [Threads -> SUBSET Keys]
         /\ met' \in [Threads -> SUBSET Keys]
<1> USE ProcsAssumption
<1>1. Home[t] \in Procs
  OBVIOUS
<1>2. kv' = [kv EXCEPT ![Home[t]][k] = v]
  BY DEF Write
<1>3. kv \in [Procs -> [Keys -> Values \cup {Absent}]]
  BY DEF TypeOK
<1>4. kv' \in [Procs -> [Keys -> Values \cup {Absent}]]
  BY <1>1, <1>2, <1>3
<1>5. \A p \in Procs : \A q \in Keys :
        kv'[p][q] = IF p = Home[t] /\ q = k THEN v ELSE kv[p][q]
  BY <1>1, <1>2, <1>3
<1>6. Present([kv[Home[t]] EXCEPT ![k] = v]) \subseteq Keys
  BY DEF Present
<1>7. steady' \in [Threads -> SUBSET Keys] /\ met' \in [Threads -> SUBSET Keys]
  BY <1>6 DEF Write, TypeOK
<1> QED BY <1>4, <1>5, <1>7

(* The calls of keys() that go on see the write as they should. *)
LEMMA WriteKeepsWalks ==
  ASSUME TypeOK, WalkInv, KeysAreWeaklyConsistent,
         NEW t \in Threads, NEW k \in Keys,
         NEW v \in Values \cup {Absent}, Write(t, k, v),
         \A u \in Threads : In(u, "keys")' => In(u, "keys") /\ op'[u] = op[u]
  PROVE  WalkInv' /\ KeysAreWeaklyConsistent'
<1> DEFINE now == Present([kv[Home[t]] EXCEPT ![k] = v])
<1> SUFFICES ASSUME NEW u \in Threads, In(u, "keys")'
             PROVE  /\ steady'[u] \subseteq Present(kv'[Home[u]])
                    /\ Present(kv'[Home[u]]) \subseteq met'[u]
                    /\ op'[u].seen \subseteq met'[u]
                    /\ \A q \in steady'[u] :
                         ShardOf[q] <= op'[u].shard => q \in op'[u].seen
  BY DEF WalkInv, KeysAreWeaklyConsistent, In
<1>1. In(u, "keys") /\ op'[u] = op[u]
  OBVIOUS
<1>2. kv' = [kv EXCEPT ![Home[t]][k] = v] /\ Home[t] \in Procs /\ Home[u] \in Procs
  BY ProcsAssumption DEF Write
<1>3. steady'[u] = (IF u \in Peers(t) THEN steady[u] \cap now ELSE steady[u])
  BY DEF Write
<1>4. met'[u] = (IF u \in Peers(t) /\ In(u, "keys") THEN met[u] \cup now ELSE met[u])
  BY DEF Write
<1>5. /\ op[u].seen \subseteq met[u]
      /\ \A q \in steady[u] : ShardOf[q] <= op[u].shard => q \in op[u].seen
      /\ steady[u] \subseteq Present(kv[Home[u]])
      /\ Present(kv[Home[u]]) \subseteq met[u]
  BY <1>1 DEF WalkInv, KeysAreWeaklyConsistent
<1>6. CASE u \in Peers(t)
  <2>1. kv'[Home[u]] = [kv[Home[t]] EXCEPT ![k] = v]
    BY <1>2, <1>6 DEF Peers, TypeOK
  <2>2. Present(kv'[Home[u]]) = now
    BY <2>1
  <2> HIDE DEF now
  <2> QED BY <1>1, <1>3, <1>4, <1>5, <1>6, <2>2
<1>7. CASE u \notin Peers(t)
  <2>1. kv'[Home[u]] = kv[Home[u]]
    BY <1>2, <1>7 DEF Peers, TypeOK
  <2> QED BY <1>1, <1>3, <1>4, <1>5, <1>7, <2>1
<1> QED BY <1>6, <1>7

(* An increment whose key is not written keeps its value. *)
LEMMA WriteKeepsIncrement ==
  ASSUME TypeOK, IncrementsAreIsolated,
         NEW t \in Threads, NEW k \in Keys,
         NEW v \in Values \cup {Absent}, Write(t, k, v),
         NEW u \in Threads, In(u, "incr"), op'[u] = op[u],
         u \in Peers(t) => op[u].key # k
  PROVE  AsSigned(kv'[Home[u]][op'[u].key]) = op'[u].current
<1>1. op[u].key \in Keys
  BY IncrIsTyped
<1>2. Home[u] \in Procs
  BY ProcsAssumption
<1>3. kv'[Home[u]][op[u].key] = kv[Home[u]][op[u].key]
  <2>1. ~(Home[u] = Home[t] /\ op[u].key = k)
    BY DEF Peers
  <2>2. kv'[Home[u]][op[u].key] = IF Home[u] = Home[t] /\ op[u].key = k
                                  THEN v ELSE kv[Home[u]][op[u].key]
    BY WriteEffect, <1>1, <1>2
  <2> QED BY <2>1, <2>2
<1> QED BY <1>3 DEF IncrementsAreIsolated

-----------------------------------------------------------------------------
(* One lemma per kind of step. *)

(* set and remove: one write, with its lock, by an idle thread. *)
LEMMA WritingCall ==
  ASSUME IInv, NEW t \in Threads, NEW k \in Keys,
         NEW v \in Values \cup {Absent}, CanWrite(t, ShardOf[k]),
         Write(t, k, v), UNCHANGED <<started, op>>,
         reply' \in [Threads -> Replies]
  PROVE  IInv'
<1> USE DEF IInv
<1>1. TypeOK'
  BY WriteEffect DEF TypeOK
<1>2. StartedInv' /\ LockInv'
  BY DEF StartedInv, LockInv, In, Peers
<1>3. IncrementsAreIsolated'
  <2> SUFFICES ASSUME NEW u \in Threads, In(u, "incr")'
               PROVE  AsSigned(kv'[Home[u]][op'[u].key]) = op'[u].current
    BY DEF IncrementsAreIsolated, AsSigned
  <2>1. In(u, "incr") /\ op'[u] = op[u]
    BY DEF In
  <2>2. u \in Peers(t) => op[u].key # k
    BY <2>1 DEF CanWrite, CanRead
  <2> QED BY <2>1, <2>2, WriteKeepsIncrement
<1>4. WalkInv' /\ KeysAreWeaklyConsistent'
  <2>1. \A u \in Threads : In(u, "keys")' => In(u, "keys") /\ op'[u] = op[u]
    BY DEF In
  <2> QED BY <2>1, WriteKeepsWalks
<1> QED BY <1>1, <1>2, <1>3, <1>4

LEMMA Replying ==
  ASSUME TypeOK, NEW t \in Threads,
         NEW call \in {"set", "get", "incr", "remove"},
         NEW v \in Values \cup {Absent, 0, 1}, Answer(t, call, v)
  PROVE  reply' \in [Threads -> Replies]
<1>1. <<call, v>> \in Replies
  BY DEF Replies
<1>2. reply \in [Threads -> Replies]
  BY DEF TypeOK
<1> QED BY <1>1, <1>2 DEF Answer

(* A call begins; the map changes at most by the 0 of a fresh increment. *)
LEMMA IncrEntryStep ==
  ASSUME IInv, NEW t \in Threads, NEW k \in Keys, NEW d \in Deltas,
         IncrEntry(t, k, d)
  PROVE  IInv'
<1> USE DEF IInv
<1> DEFINE fresh == kv[Home[t]][k] = Absent
           new == [call |-> "incr", key |-> k, delta |-> d,
                   current |-> AsSigned(kv[Home[t]][k]), fresh |-> fresh]
<1>1. /\ op' = [op EXCEPT ![t] = new]
      /\ CanWrite(t, ShardOf[k])
      /\ Idle(t)
      /\ UNCHANGED <<started, reply>>
      /\ IF fresh THEN Write(t, k, 0) ELSE UNCHANGED <<kv, steady, met>>
  BY DEF IncrEntry
<1>2. new \in IncrOps
  BY AsSignedInRange DEF IncrOps
<1>3. new.call = "incr" /\ new.key = k /\ new.current = AsSigned(kv[Home[t]][k])
  OBVIOUS
<1> HIDE DEF new
<1>4. op \in [Threads -> {NoOp} \cup IncrOps \cup KeysOps]
  BY DEF TypeOK
<1>5. /\ op'[t] = new
      /\ \A u \in Threads \ {t} : op'[u] = op[u]
      /\ op' \in [Threads -> {NoOp} \cup IncrOps \cup KeysOps]
  BY <1>1, <1>2, <1>4
<1>6. 0 \in Values \cup {Absent}
  BY SignedRange DEF Values
<1>7. TypeOK'
  <2>1. CASE fresh
    <3>1. Write(t, k, 0)
      BY <1>1, <2>1
    <3> QED BY <1>1, <1>5, <1>6, <3>1, WriteEffect DEF TypeOK
  <2>2. CASE ~fresh
    BY <1>1, <1>5, <2>2 DEF TypeOK
  <2> QED BY <2>1, <2>2
<1>8. StartedInv'
  BY <1>1, <1>5 DEF StartedInv, Idle, In
<1>9. LockInv'
  <2> SUFFICES ASSUME NEW x \in Threads, NEW u \in Threads,
                      In(x, "incr")', u \in Peers(x)
               PROVE  /\ In(u, "incr")' /\ u # x =>
                           ShardOf[op'[u].key] # ShardOf[op'[x].key]
                      /\ In(u, "keys")' => op'[u].shard # ShardOf[op'[x].key]
    BY DEF LockInv, Peers, In
  <2>1. x \in Peers(u)
    BY DEF Peers
  <2>2. CASE x = t
    <3>1. op'[x].key = k /\ ~In(x, "keys")'
      BY <1>3, <1>5, <2>2 DEF In
    <3>2. u # t => op'[u] = op[u]
      BY <1>5
    <3> QED BY <1>1, <2>2, <3>1, <3>2 DEF CanWrite, CanRead, In
  <2>3. CASE x # t /\ u = t
    <3>1. op'[u].key = k /\ ~In(u, "keys")'
      BY <1>3, <1>5, <2>3 DEF In
    <3>2. op'[x] = op[x]
      BY <1>5, <2>3
    <3> QED BY <1>1, <2>1, <2>3, <3>1, <3>2 DEF CanWrite, CanRead, In
  <2>4. CASE x # t /\ u # t
    BY <1>5, <2>4 DEF LockInv, In
  <2> QED BY <2>2, <2>3, <2>4
<1>10. IncrementsAreIsolated'
  <2> SUFFICES ASSUME NEW u \in Threads, In(u, "incr")'
               PROVE  AsSigned(kv'[Home[u]][op'[u].key]) = op'[u].current
    BY DEF IncrementsAreIsolated, AsSigned
  <2>1. CASE u = t
    <3>1. op'[u].key = k /\ op'[u].current = AsSigned(kv[Home[t]][k])
      BY <1>3, <1>5, <2>1
    <3>2. CASE fresh
      <4>1. kv'[Home[t]][k] = 0
        <5>1. Home[t] \in Procs
          BY ProcsAssumption
        <5> QED BY <1>1, <1>6, <3>2, <5>1, WriteEffect
      <4> QED BY <2>1, <3>1, <3>2, <4>1, AbsentIsZero
    <3>3. CASE ~fresh
      BY <1>1, <2>1, <3>1, <3>3
    <3> QED BY <3>2, <3>3
  <2>2. CASE u # t
    <3>1. In(u, "incr") /\ op'[u] = op[u]
      BY <1>5, <2>2 DEF In
    <3>2. u \in Peers(t) => op[u].key # k
      BY <1>1, <3>1 DEF CanWrite, CanRead
    <3>3. CASE fresh
      BY <1>1, <1>6, <3>1, <3>2, <3>3, WriteKeepsIncrement
    <3>4. CASE ~fresh
      BY <1>1, <3>1, <3>4 DEF IncrementsAreIsolated
    <3> QED BY <3>3, <3>4
  <2> QED BY <2>1, <2>2
<1>11. WalkInv' /\ KeysAreWeaklyConsistent'
  <2>1. \A u \in Threads : In(u, "keys")' => In(u, "keys") /\ op'[u] = op[u]
    BY <1>3, <1>5 DEF In
  <2>2. CASE fresh
    <3>1. Write(t, k, 0)
      BY <1>1, <2>2
    <3> HIDE DEF fresh
    <3> QED BY <1>6, <2>1, <3>1, WriteKeepsWalks
  <2>3. CASE ~fresh
    <3>1. UNCHANGED <<kv, steady, met>>
      BY <1>1, <2>3
    <3> QED BY <2>1, <3>1 DEF WalkInv, KeysAreWeaklyConsistent, Present
  <2> QED BY <2>2, <2>3
<1> QED BY <1>7, <1>8, <1>9, <1>10, <1>11

(* An increment ends, with the write of its sum unless that panicked. *)
LEMMA IncrStoreStep ==
  ASSUME IInv, NEW t \in Threads, IncrStore(t)
  PROVE  IInv'
<1> USE DEF IInv
<1> DEFINE new == Incremented(op[t].current, op[t].delta)
           k   == op[t].key
<1>1. /\ In(t, "incr")
      /\ op' = [op EXCEPT ![t] = NoOp]
      /\ UNCHANGED started
      /\ IF new = Absent
         THEN Answer(t, "incr", 0) /\ UNCHANGED <<kv, steady, met>>
         ELSE Answer(t, "incr", new) /\ Write(t, k, new)
  BY DEF IncrStore
<1>2. k \in Keys /\ op[t].delta \in Deltas
  BY <1>1, IncrIsTyped
<1>3. new \in Values \cup {Absent}
  BY <1>2, IncrementedInRange DEF Values
<1> HIDE DEF new, k
<1>4. op \in [Threads -> {NoOp} \cup IncrOps \cup KeysOps]
  BY DEF TypeOK
<1>5. /\ op'[t] = NoOp
      /\ \A u \in Threads \ {t} : op'[u] = op[u]
      /\ op' \in [Threads -> {NoOp} \cup IncrOps \cup KeysOps]
  BY <1>1, <1>4
<1>6. reply' \in [Threads -> Replies]
  BY <1>1, <1>3, Replying
<1>7. TypeOK'
  <2>1. CASE new = Absent
    BY <1>1, <1>5, <1>6, <2>1 DEF TypeOK
  <2>2. CASE new # Absent
    BY <1>1, <1>2, <1>3, <1>5, <1>6, <2>2, WriteEffect DEF TypeOK
  <2> QED BY <2>1, <2>2
<1>8. \A u \in Threads : ~In(u, "none")' => u # t /\ op'[u] = op[u]
  BY <1>5 DEF In, NoOp
<1>9. \A u \in Threads : /\ In(u, "incr")' => In(u, "incr") /\ u # t /\ op'[u] = op[u]
                         /\ In(u, "keys")' => In(u, "keys") /\ u # t /\ op'[u] = op[u]
  BY <1>8 DEF In
<1>10. StartedInv'
  BY <1>1, <1>8 DEF StartedInv, In
<1>11. LockInv'
  BY <1>9 DEF LockInv, Peers, In
<1>12. IncrementsAreIsolated'
  <2> SUFFICES ASSUME NEW u \in Threads, In(u, "incr")'
               PROVE  AsSigned(kv'[Home[u]][op'[u].key]) = op'[u].current
    BY DEF IncrementsAreIsolated, AsSigned
  <2>1. In(u, "incr") /\ u # t /\ op'[u] = op[u]
    BY <1>9
  <2>2. u \in Peers(t) => op[u].key # k
    BY <1>1, <2>1 DEF LockInv, k
  <2>3. CASE new = Absent
    BY <1>1, <2>1, <2>3 DEF IncrementsAreIsolated
  <2>4. CASE new # Absent
    BY <1>1, <1>2, <1>3, <2>1, <2>2, <2>4, WriteKeepsIncrement
  <2> QED BY <2>3, <2>4
<1>13. WalkInv' /\ KeysAreWeaklyConsistent'
  <2>1. CASE new = Absent
    BY <1>1, <1>9, <2>1 DEF WalkInv, KeysAreWeaklyConsistent, Present
  <2>2. CASE new # Absent
    BY <1>1, <1>2, <1>3, <1>9, <2>2, WriteKeepsWalks
  <2> QED BY <2>1, <2>2
<1> QED BY <1>7, <1>10, <1>11, <1>12, <1>13

(* A walk begins, or goes on to the shard s, and collects what is there. *)
LEMMA WalkStep ==
  ASSUME IInv, NEW t \in Threads, NEW s \in Shards, NEW seen \in SUBSET Keys,
         CanRead(t, s), Home[t] \in started, ~In(t, "incr"),
         op' = [op EXCEPT ![t] = [call |-> "keys", shard |-> s,
                                  seen |-> seen \cup Shard(t, s)]],
         UNCHANGED <<started, kv, reply>>,
         steady' \in [Threads -> SUBSET Keys], met' \in [Threads -> SUBSET Keys],
         \A u \in Threads \ {t} : steady'[u] = steady[u] /\ met'[u] = met[u],
         steady'[t] \subseteq Present(kv[Home[t]]),
         Present(kv[Home[t]]) \subseteq met'[t],
         seen \subseteq met'[t],
         \A k \in steady'[t] : ShardOf[k] <= s /\ ShardOf[k] # s => k \in seen
  PROVE  IInv'
<1> USE DEF IInv
<1> DEFINE new == [call |-> "keys", shard |-> s, seen |-> seen \cup Shard(t, s)]
<1>1. Shard(t, s) \subseteq Keys /\ Shard(t, s) \subseteq Present(kv[Home[t]])
  BY DEF Shard, Present
<1>2. new \in KeysOps
  BY <1>1 DEF KeysOps
<1>3. new.call = "keys" /\ new.shard = s /\ new.seen = seen \cup Shard(t, s)
  OBVIOUS
<1>4. op' = [op EXCEPT ![t] = new]
  OBVIOUS
<1> HIDE DEF new
<1>5. op \in [Threads -> {NoOp} \cup IncrOps \cup KeysOps]
  BY DEF TypeOK
<1>6. /\ op'[t] = new
      /\ \A u \in Threads \ {t} : op'[u] = op[u]
      /\ op' \in [Threads -> {NoOp} \cup IncrOps \cup KeysOps]
  BY <1>2, <1>4, <1>5
<1>7. TypeOK'
  BY <1>6 DEF TypeOK
<1>8. StartedInv'
  BY <1>6 DEF StartedInv, In
<1>9. \A u \in Threads : In(u, "incr")' => In(u, "incr") /\ u # t /\ op'[u] = op[u]
  BY <1>3, <1>6 DEF In
<1>10. LockInv'
  <2> SUFFICES ASSUME NEW x \in Threads, NEW u \in Threads,
                      In(x, "incr")', u \in Peers(x)
               PROVE  /\ In(u, "incr")' /\ u # x =>
                           ShardOf[op'[u].key] # ShardOf[op'[x].key]
                      /\ In(u, "keys")' => op'[u].shard # ShardOf[op'[x].key]
    BY DEF LockInv, Peers, In
  <2>1. In(x, "incr") /\ x # t /\ op'[x] = op[x] /\ x \in Peers(u)
    BY <1>9 DEF Peers
  <2>2. CASE u = t
    BY <1>3, <1>6, <1>9, <2>1, <2>2 DEF CanRead
  <2>3. CASE u # t
    BY <1>6, <2>1, <2>3 DEF LockInv, In
  <2> QED BY <2>2, <2>3
<1>11. IncrementsAreIsolated'
  BY <1>9 DEF IncrementsAreIsolated, AsSigned
<1>12. WalkInv' /\ KeysAreWeaklyConsistent'
  <2> SUFFICES ASSUME NEW u \in Threads, In(u, "keys")'
               PROVE  /\ steady'[u] \subseteq Present(kv'[Home[u]])
                      /\ Present(kv'[Home[u]]) \subseteq met'[u]
                      /\ op'[u].seen \subseteq met'[u]
                      /\ \A k \in steady'[u] :
                           ShardOf[k] <= op'[u].shard => k \in op'[u].seen
    BY DEF WalkInv, KeysAreWeaklyConsistent, In
  <2>1. CASE u = t
    <3>1. \A k \in steady'[t] : ShardOf[k] = s => k \in Shard(t, s)
      BY DEF Shard
    <3> QED BY <1>1, <1>3, <1>6, <2>1, <3>1
  <2>2. CASE u # t
    <3>1. In(u, "keys") /\ op'[u] = op[u] /\ steady'[u] = steady[u] /\ met'[u] = met[u]
      BY <1>6, <2>2 DEF In
    <3> QED BY <3>1 DEF WalkInv, KeysAreWeaklyConsistent
  <2> QED BY <2>1, <2>2
<1> QED BY <1>7, <1>8, <1>10, <1>11, <1>12

LEMMA KeysBeginStep ==
  ASSUME IInv, NEW t \in Threads, KeysBegin(t)
  PROVE  IInv'
<1> USE DEF IInv
<1>1. 1 \in Shards /\ ShardOf \in [Keys -> Shards]
  BY ShardsAssumption DEF Shards
<1>2. Present(kv[Home[t]]) \in SUBSET Keys
  BY DEF Present
<1>3. /\ steady' = [steady EXCEPT ![t] = Present(kv[Home[t]])]
      /\ met'    = [met EXCEPT ![t] = Present(kv[Home[t]])]
      /\ steady \in [Threads -> SUBSET Keys] /\ met \in [Threads -> SUBSET Keys]
  BY DEF KeysBegin, TypeOK
<1>4. /\ steady' \in [Threads -> SUBSET Keys] /\ met' \in [Threads -> SUBSET Keys]
      /\ \A u \in Threads \ {t} : steady'[u] = steady[u] /\ met'[u] = met[u]
      /\ steady'[t] = Present(kv[Home[t]]) /\ met'[t] = Present(kv[Home[t]])
  BY <1>2, <1>3
<1>5. \A k \in steady'[t] : ~(ShardOf[k] <= 1 /\ ShardOf[k] # 1)
  BY <1>1, <1>2, <1>4 DEF Shards
<1>6. op' = [op EXCEPT ![t] = [call |-> "keys", shard |-> 1,
                               seen |-> {} \cup Shard(t, 1)]]
  <2>1. {} \cup Shard(t, 1) = Shard(t, 1)
    OBVIOUS
  <2> QED BY <2>1 DEF KeysBegin
<1>7. /\ CanRead(t, 1) /\ Home[t] \in started /\ ~In(t, "incr")
      /\ UNCHANGED <<started, kv, reply>>
  BY DEF KeysBegin, Idle, In
<1>8. {} \in SUBSET Keys
  OBVIOUS
<1> QED BY <1>1, <1>4, <1>5, <1>6, <1>7, <1>8, WalkStep

LEMMA KeysNextStep ==
  ASSUME IInv, NEW t \in Threads, KeysNext(t)
  PROVE  IInv'
<1> USE DEF IInv
<1>1. op[t].shard \in Shards /\ op[t].seen \in SUBSET Keys
  BY KeysIsTyped DEF KeysNext
<1>2. /\ op[t].shard + 1 \in Shards /\ op[t].shard \in Nat
      /\ ShardOf \in [Keys -> Shards] /\ Shards \subseteq Nat
  BY <1>1, ShardsAssumption DEF Shards, KeysNext
<1>3. /\ CanRead(t, op[t].shard + 1)
      /\ op' = [op EXCEPT ![t] = [call |-> "keys", shard |-> op[t].shard + 1,
                       seen |-> op[t].seen \cup Shard(t, op[t].shard + 1)]]
      /\ UNCHANGED <<started, kv, reply, steady, met>>
      /\ In(t, "keys")
  BY DEF KeysNext
<1>4. Home[t] \in started /\ ~In(t, "incr")
  BY <1>3 DEF StartedInv, In
<1>5. /\ steady \in [Threads -> SUBSET Keys] /\ met \in [Threads -> SUBSET Keys]
      /\ steady[t] \subseteq Present(kv[Home[t]])
      /\ Present(kv[Home[t]]) \subseteq met[t]
      /\ op[t].seen \subseteq met[t]
      /\ \A k \in steady[t] : ShardOf[k] <= op[t].shard => k \in op[t].seen
  BY <1>3 DEF TypeOK, WalkInv, KeysAreWeaklyConsistent
<1>6. \A k \in steady[t] : ShardOf[k] <= op[t].shard + 1 /\ ShardOf[k] # op[t].shard + 1
        => k \in op[t].seen
  <2> SUFFICES ASSUME NEW k \in steady[t],
                      ShardOf[k] <= op[t].shard + 1, ShardOf[k] # op[t].shard + 1
               PROVE  ShardOf[k] <= op[t].shard
    BY <1>5
  <2>1. ShardOf[k] \in Nat
    BY <1>2, <1>5
  <2> QED BY <1>2, <2>1
<1> QED BY <1>1, <1>2, <1>3, <1>4, <1>5, <1>6, WalkStep

LEMMA KeysEndStep ==
  ASSUME IInv, NEW t \in Threads, KeysEnd(t)
  PROVE  IInv'
<1> USE DEF IInv
<1>1. /\ op' = [op EXCEPT ![t] = NoOp]
      /\ steady' = [steady EXCEPT ![t] = {}] /\ met' = [met EXCEPT ![t] = {}]
      /\ UNCHANGED <<started, kv, reply>>
  BY DEF KeysEnd
<1>2. /\ op \in [Threads -> {NoOp} \cup IncrOps \cup KeysOps]
      /\ steady \in [Threads -> SUBSET Keys] /\ met \in [Threads -> SUBSET Keys]
  BY DEF TypeOK
<1>3. TypeOK'
  BY <1>1, <1>2 DEF TypeOK
<1>4. \A u \in Threads : ~In(u, "none")' =>
        /\ u # t
        /\ op'[u] = op[u] /\ steady'[u] = steady[u] /\ met'[u] = met[u]
  BY <1>1, <1>2 DEF In, NoOp
<1>5. \A u \in Threads :
        /\ In(u, "incr")' => In(u, "incr") /\ op'[u] = op[u]
        /\ In(u, "keys")' => /\ In(u, "keys") /\ op'[u] = op[u]
                            /\ steady'[u] = steady[u] /\ met'[u] = met[u]
  BY <1>4 DEF In
<1>6. StartedInv' /\ LockInv'
  BY <1>1, <1>4, <1>5 DEF StartedInv, LockInv, Peers, In
<1>7. IncrementsAreIsolated'
  BY <1>1, <1>5 DEF IncrementsAreIsolated, AsSigned
<1>8. WalkInv' /\ KeysAreWeaklyConsistent'
  BY <1>1, <1>5 DEF WalkInv, KeysAreWeaklyConsistent, Present
<1> QED BY <1>3, <1>6, <1>7, <1>8

(* A fork fills the map of a process no thread of which has started. *)
LEMMA ForkStep ==
  ASSUME IInv, NEW p \in Procs, NEW c \in Procs, Fork(p, c)
  PROVE  IInv'
<1> USE DEF IInv
<1>1. /\ c \notin started
      /\ started' = started \cup {c}
      /\ kv' = [kv EXCEPT ![c] = kv[p]]
      /\ UNCHANGED <<op, reply, steady, met>>
  BY DEF Fork
<1>2. TypeOK'
  BY <1>1 DEF TypeOK
<1>3. StartedInv' /\ LockInv'
  BY <1>1 DEF StartedInv, LockInv, Peers, In
<1>4. \A t \in Threads : ~In(t, "none") => kv'[Home[t]] = kv[Home[t]]
  BY <1>1, ProcsAssumption DEF StartedInv, TypeOK
<1>5. IncrementsAreIsolated'
  BY <1>1, <1>4 DEF IncrementsAreIsolated, AsSigned, In
<1>6. WalkInv' /\ KeysAreWeaklyConsistent'
  BY <1>1, <1>4 DEF WalkInv, KeysAreWeaklyConsistent, Present, In
<1> QED BY <1>2, <1>3, <1>5, <1>6

LEMMA GetStep ==
  ASSUME IInv, NEW t \in Threads, NEW k \in Keys, Get(t, k)
  PROVE  IInv'
<1> USE DEF IInv
<1>1. kv[Home[t]][k] \in Values \cup {Absent}
  BY ProcsAssumption DEF TypeOK
<1>2. reply' \in [Threads -> Replies]
  BY <1>1, Replying DEF Get
<1>3. UNCHANGED <<started, kv, op, steady, met>>
  BY DEF Get
<1>4. TypeOK'
  BY <1>2, <1>3 DEF TypeOK
<1> QED BY <1>3, <1>4 DEF StartedInv, LockInv, IncrementsAreIsolated, WalkInv,
          KeysAreWeaklyConsistent, In, Peers, Present, AsSigned

-----------------------------------------------------------------------------
LEMMA InitInv == Init => IInv
<1> SUFFICES ASSUME Init PROVE IInv
  OBVIOUS
<1>1. <<"none", Absent>> \in Replies
  BY DEF Replies
<1>2. TypeOK
  BY <1>1, ProcsAssumption DEF Init, TypeOK
<1>3. \A t \in Threads : In(t, "none")
  BY DEF Init, In, NoOp
<1>4. \A t \in Threads : ~In(t, "incr") /\ ~In(t, "keys")
  BY <1>3 DEF In
<1> QED BY <1>2, <1>3, <1>4 DEF IInv, StartedInv, LockInv,
          IncrementsAreIsolated, WalkInv, KeysAreWeaklyConsistent

LEMMA StepInv == IInv /\ [Next]_vars => IInv'
<1> SUFFICES ASSUME IInv, [Next]_vars PROVE IInv'
  OBVIOUS
<1>1. ASSUME NEW t \in Threads, NEW raw \in RawKeys, Get(t, KeyOf[raw])
      PROVE  IInv'
  BY <1>1, KeysAssumption, GetStep
<1>2. ASSUME NEW t \in Threads, NEW raw \in RawKeys, Remove(t, KeyOf[raw])
      PROVE  IInv'
  <2> DEFINE k == KeyOf[raw]
  <2>1. k \in Keys
    BY KeysAssumption
  <2> HIDE DEF k
  <2>2. Remove(t, k)
    BY <1>2 DEF k
  <2>3. reply' \in [Threads -> Replies]
    <3>1. (IF kv[Home[t]][k] = Absent THEN 1 ELSE 0) \in Values \cup {Absent, 0, 1}
      OBVIOUS
    <3> QED BY <2>2, <3>1, Replying DEF Remove, IInv
  <2> QED BY <2>1, <2>2, <2>3, WritingCall DEF Remove
<1>3. ASSUME NEW t \in Threads, NEW raw \in RawKeys, NEW v \in Values,
             Set(t, KeyOf[raw], v)
      PROVE  IInv'
  <2> DEFINE k == KeyOf[raw]
  <2>1. k \in Keys
    BY KeysAssumption
  <2> HIDE DEF k
  <2>2. Set(t, k, v)
    BY <1>3 DEF k
  <2>3. reply' \in [Threads -> Replies]
    <3>1. 0 \in Values \cup {Absent, 0, 1}
      OBVIOUS
    <3> QED BY <2>2, <3>1, Replying DEF Set, IInv
  <2> QED BY <2>1, <2>2, <2>3, WritingCall DEF Set
<1>4. ASSUME NEW t \in Threads, NEW raw \in RawKeys, NEW d \in Deltas,
             IncrEntry(t, KeyOf[raw], d)
      PROVE  IInv'
  BY <1>4, KeysAssumption, IncrEntryStep
<1>5. ASSUME NEW t \in Threads, IncrStore(t) PROVE IInv'
  BY <1>5, IncrStoreStep
<1>6. ASSUME NEW t \in Threads, KeysBegin(t) PROVE IInv'
  BY <1>6, KeysBeginStep
<1>7. ASSUME NEW t \in Threads, KeysNext(t) PROVE IInv'
  BY <1>7, KeysNextStep
<1>8. ASSUME NEW t \in Threads, KeysEnd(t) PROVE IInv'
  BY <1>8, KeysEndStep
<1>9. ASSUME NEW p \in Procs, NEW c \in Procs, Fork(p, c) PROVE IInv'
  BY <1>9, ForkStep
<1>10. CASE UNCHANGED vars
  BY <1>10 DEF vars, IInv, TypeOK, StartedInv, LockInv, IncrementsAreIsolated,
     WalkInv, KeysAreWeaklyConsistent, In, Peers, Present, AsSigned
<1> QED BY <1>1, <1>2, <1>3, <1>4, <1>5, <1>6, <1>7, <1>8, <1>9, <1>10 DEF Next

(* IInv is an invariant of the broker. *)
THEOREM Invariance == Spec => []IInv
<1>1. Init => IInv
  BY InitInv
<1>2. IInv /\ [Next]_vars => IInv'
  BY StepInv
<1> QED BY <1>1, <1>2, PTL DEF Spec

(* Sums never leave the range of an integer, whatever the calls, and       *)
(* replies are values or the results of the calls.                         *)
THEOREM TypeCorrect == Spec => []TypeOK
<1>1. IInv => TypeOK
  BY DEF IInv
<1> QED BY <1>1, Invariance, PTL

(* Nobody changes a value between the read and the write of increment.     *)
THEOREM IncrementIsolation == Spec => []IncrementsAreIsolated
<1>1. IInv => IncrementsAreIsolated
  BY DEF IInv
<1> QED BY <1>1, Invariance, PTL

(* keys() collects every key that stays and none that never was there.     *)
THEOREM KeysConsistency == Spec => []KeysAreWeaklyConsistent
<1>1. IInv => KeysAreWeaklyConsistent
  BY DEF IInv
<1> QED BY <1>1, Invariance, PTL
-----------------------------------------------------------------------------
(* The refinement. *)

(* The root process is never forked over, and the placeholder is a zero.   *)
FreshInv ==
  /\ Root \in started
  /\ \A t \in Threads : In(t, "incr") /\ op[t].fresh => op[t].current = 0

LEMMA InitFresh == Init => FreshInv
<1> SUFFICES ASSUME Init PROVE FreshInv
  OBVIOUS
<1> QED BY DEF Init, FreshInv, In, NoOp

LEMMA StepFresh == IInv /\ FreshInv /\ [Next]_vars => FreshInv'
<1> SUFFICES ASSUME IInv, FreshInv, [Next]_vars PROVE FreshInv'
  OBVIOUS
<1>1. Root \in started'
  BY DEF FreshInv, Next, vars, Get, Remove, Set, IncrEntry, IncrStore, KeysBegin,
     KeysNext, KeysEnd, Fork
<1>2. ASSUME NEW t \in Threads, (In(t, "incr") /\ op[t].fresh)'
      PROVE  op'[t].current = 0
  <2>1. op \in [Threads -> {NoOp} \cup IncrOps \cup KeysOps]
    BY DEF IInv, TypeOK
  <2>2. CASE op'[t] = op[t]
    BY <1>2, <2>2 DEF FreshInv, In
  <2>3. ASSUME NEW u \in Threads, NEW raw \in RawKeys, NEW d \in Deltas,
               IncrEntry(u, KeyOf[raw], d)
        PROVE  op'[t].current = 0
    <3> DEFINE k == KeyOf[raw]
               v == kv[Home[u]][k]
    <3>1. op' = [op EXCEPT ![u] = [call |-> "incr", key |-> k, delta |-> d,
                                   current |-> AsSigned(v), fresh |-> v = Absent]]
      BY <2>3 DEF IncrEntry
    <3> HIDE DEF v, k
    <3>2. CASE u = t
      <4>1. op'[t] = [call |-> "incr", key |-> k, delta |-> d,
                      current |-> AsSigned(v), fresh |-> v = Absent]
        BY <3>1, <3>2, <2>1
      <4>2. v = Absent
        <5>1. op'[t].fresh = (v = Absent)
          BY <4>1
        <5> QED BY <1>2, <5>1
      <4> QED BY <4>1, <4>2, AbsentIsZero
    <3>3. CASE u # t
      BY <2>1, <2>2, <3>1, <3>3
    <3> QED BY <3>2, <3>3
  <2>4. ASSUME NEW u \in Threads,
               IncrStore(u) \/ KeysBegin(u) \/ KeysNext(u) \/ KeysEnd(u)
        PROVE  op'[t].current = 0
    <3>1. op'[u].call # "incr" /\ (t # u => op'[t] = op[t])
      <4>1. CASE IncrStore(u)
        BY <2>1, <4>1 DEF IncrStore, NoOp
      <4>2. CASE KeysBegin(u)
        BY <2>1, <4>2 DEF KeysBegin
      <4>3. CASE KeysNext(u)
        BY <2>1, <4>3 DEF KeysNext
      <4>4. CASE KeysEnd(u)
        BY <2>1, <4>4 DEF KeysEnd, NoOp
      <4> QED BY <2>4, <4>1, <4>2, <4>3, <4>4
    <3> QED BY <1>2, <2>2, <3>1 DEF In
  <2> QED BY <2>2, <2>3, <2>4 DEF Next, vars, Get, Remove, Set, Fork
<1> QED BY <1>1, <1>2 DEF FreshInv

LEMMA Fresh == Spec => [](IInv /\ FreshInv)
<1>1. Init => IInv /\ FreshInv
  BY InitInv, InitFresh
<1>2. IInv /\ FreshInv /\ [Next]_vars => (IInv /\ FreshInv)'
  BY StepInv, StepFresh
<1> QED BY <1>1, <1>2, PTL DEF Spec

(* What AtomicStore sees. *)
Store == [k \in Keys |-> IF Placeholder(k) THEN Absent ELSE kv[Root][k]]
Seen  == [t \in RootThreads |-> reply[t]]

LEMMA InitStore == Init => A!Init
<1> SUFFICES ASSUME Init PROVE A!Init
  OBVIOUS
<1>1. \A k \in Keys : ~Placeholder(k)
  BY DEF Init, Placeholder, RootThreads, In, NoOp
<1>2. Store = [k \in Keys |-> Absent]
  BY <1>1, ProcsAssumption DEF Init, Store
<1>3. Seen = [t \in RootThreads |-> <<"none", Absent>>]
  BY DEF Init, Seen, RootThreads
<1> QED BY <1>2, <1>3 DEF A!Init, Store, Seen

(* Which placeholders there are depends on the increments in progress. *)
LEMMA PlaceholdersKept ==
  ASSUME \A t \in RootThreads : op'[t] = op[t] \/ (~In(t, "incr") /\ ~In(t, "incr")')
  PROVE  \A k : Placeholder(k)' <=> Placeholder(k)
BY DEF Placeholder, In

(* A call that has the lock of a key finds no placeholder there. *)
LEMMA LockedKeyIsReal ==
  ASSUME NEW t \in RootThreads, NEW k \in Keys, CanRead(t, ShardOf[k])
  PROVE  ~Placeholder(k)
BY DEF CanRead, Peers, Placeholder, RootThreads

LEMMA StoreKept ==
  ASSUME \A k \in Keys : kv'[Root][k] = kv[Root][k],
         \A k : Placeholder(k)' <=> Placeholder(k)
  PROVE  Store' = Store
<1>1. \A k \in Keys : (IF Placeholder(k)' THEN Absent ELSE kv'[Root][k])
                        = (IF Placeholder(k) THEN Absent ELSE kv[Root][k])
  OBVIOUS
<1> QED BY <1>1 DEF Store

LEMMA StoreWritten ==
  ASSUME TypeOK, NEW t \in RootThreads, NEW k \in Keys,
         NEW v \in Values \cup {Absent}, Write(t, k, v),
         \A j \in Keys : j # k => (Placeholder(j)' <=> Placeholder(j)),
         ~Placeholder(k)'
  PROVE  Store' = [Store EXCEPT ![k] = v]
<1>1. t \in Threads /\ Home[t] = Root
  BY DEF RootThreads
<1>2. \A j \in Keys : kv'[Root][j] = IF j = k THEN v ELSE kv[Root][j]
  BY <1>1, WriteEffect, ProcsAssumption
<1>3. \A j \in Keys : (IF Placeholder(j)' THEN Absent ELSE kv'[Root][j])
                        = (IF j = k THEN v
                           ELSE IF Placeholder(j) THEN Absent ELSE kv[Root][j])
  BY <1>2
<1>4. Store' = [j \in Keys |-> IF j = k THEN v ELSE Store[j]]
  BY <1>3 DEF Store
<1> QED BY <1>4 DEF Store

LEMMA SeenKept ==
  ASSUME \A t \in RootThreads : reply'[t] = reply[t]
  PROVE  Seen' = Seen
BY DEF Seen, RootThreads

LEMMA SeenAnswer ==
  ASSUME TypeOK, NEW t \in RootThreads, NEW call, NEW v, Answer(t, call, v)
  PROVE  Seen' = [Seen EXCEPT ![t] = <<call, v>>]
BY DEF TypeOK, Answer, Seen, RootThreads

LEMMA GetRefines ==
  ASSUME TypeOK, NEW t \in RootThreads, NEW k \in Keys, Get(t, k)
  PROVE  A!Get(t, k)
<1>1. ~Placeholder(k)
  BY LockedKeyIsReal DEF Get
<1>2. Store[k] = kv[Root][k]
  BY <1>1 DEF Store
<1>3. Answer(t, "get", Store[k]) /\ UNCHANGED <<kv, op>>
  BY <1>2 DEF Get, RootThreads
<1>4. Store' = Store
  BY <1>3, PlaceholdersKept, StoreKept
<1>5. Seen' = [Seen EXCEPT ![t] = <<"get", Store[k]>>]
  BY <1>3, SeenAnswer
<1> QED BY <1>4, <1>5 DEF A!Get, A!Answer, Store, Seen

(* set and remove. *)
LEMMA WriteRefines ==
  ASSUME TypeOK, NEW t \in RootThreads, NEW k \in Keys,
         NEW v \in Values \cup {Absent}, CanWrite(t, ShardOf[k]), Write(t, k, v),
         UNCHANGED op
  PROVE  /\ Store' = [Store EXCEPT ![k] = v]
         /\ Store[k] = kv[Root][k]
<1>1. ~Placeholder(k)
  BY LockedKeyIsReal DEF CanWrite
<1>2. \A j : Placeholder(j)' <=> Placeholder(j)
  BY PlaceholdersKept
<1>3. Store' = [Store EXCEPT ![k] = v]
  BY <1>1, <1>2, StoreWritten
<1> QED BY <1>1, <1>3 DEF Store

LEMMA SetRefines ==
  ASSUME TypeOK, NEW t \in RootThreads, NEW k \in Keys, NEW v \in Values,
         Set(t, k, v)
  PROVE  A!Set(t, k, v)
<1>1. Store' = [Store EXCEPT ![k] = v]
  BY WriteRefines DEF Set
<1>2. Seen' = [Seen EXCEPT ![t] = <<"set", 0>>]
  BY SeenAnswer DEF Set
<1> QED BY <1>1, <1>2 DEF A!Set, A!Answer, Store, Seen

LEMMA RemoveRefines ==
  ASSUME TypeOK, NEW t \in RootThreads, NEW k \in Keys, Remove(t, k)
  PROVE  A!Remove(t, k)
<1>1. Store' = [Store EXCEPT ![k] = Absent] /\ Store[k] = kv[Root][k]
  BY WriteRefines DEF Remove
<1>2. Answer(t, "remove", IF Store[k] = Absent THEN 1 ELSE 0)
  BY <1>1 DEF Remove, RootThreads
<1>3. Seen' = [Seen EXCEPT ![t] = <<"remove", IF Store[k] = Absent THEN 1 ELSE 0>>]
  BY <1>2, SeenAnswer
<1> QED BY <1>1, <1>3 DEF A!Remove, A!Answer, Store, Seen

(* The entry of an increment changes nothing that AtomicStore sees. *)
LEMMA IncrEntryStutters ==
  ASSUME TypeOK, NEW t \in RootThreads, NEW k \in Keys, NEW d \in Deltas,
         IncrEntry(t, k, d)
  PROVE  Store' = Store /\ Seen' = Seen
<1> DEFINE fresh == kv[Root][k] = Absent
<1>1. t \in Threads /\ Home[t] = Root
  BY DEF RootThreads
<1>2. /\ ~In(t, "incr") /\ In(t, "incr")'
      /\ op'[t].key = k /\ (op'[t].fresh <=> fresh)
      /\ \A u \in Threads : u # t => op'[u] = op[u]
  BY <1>1 DEF IncrEntry, Idle, In, TypeOK
<1>3. ~Placeholder(k)
  BY LockedKeyIsReal DEF IncrEntry, CanWrite
<1>4. Placeholder(k)' <=> fresh
  BY <1>1, <1>2, <1>3 DEF Placeholder, In, RootThreads
<1>5. \A j \in Keys : j # k => (Placeholder(j)' <=> Placeholder(j))
  BY <1>1, <1>2 DEF Placeholder, In, RootThreads
<1>6. \A j \in Keys : j # k => kv'[Root][j] = kv[Root][j]
  <2>1. CASE fresh
    <3>1. Write(t, k, 0) /\ 0 \in Values
      BY <1>1, <2>1, SignedRange DEF IncrEntry, Values
    <3> QED BY <1>1, <3>1, WriteEffect, ProcsAssumption
  <2>2. CASE ~fresh
    BY <1>1, <2>2 DEF IncrEntry
  <2> QED BY <2>1, <2>2
<1>7. ~fresh => kv'[Root][k] = kv[Root][k]
  BY <1>1 DEF IncrEntry
<1>8. \A j \in Keys : (IF Placeholder(j)' THEN Absent ELSE kv'[Root][j])
                        = (IF Placeholder(j) THEN Absent ELSE kv[Root][j])
  BY <1>3, <1>4, <1>5, <1>6, <1>7
<1>9. Seen' = Seen
  BY SeenKept DEF IncrEntry
<1> QED BY <1>8, <1>9 DEF Store

(* The sum that is written is that of the value AtomicStore has: a sum     *)
(* that panics is never one of a placeholder.                              *)
LEMMA IncrStoreRefines ==
  ASSUME IInv, FreshInv, NEW t \in RootThreads, IncrStore(t),
         NEW k, op[t].key = k, NEW d, op[t].delta = d
  PROVE  A!Incr(t, k, d)
<1> DEFINE new == Incremented(op[t].current, d)
<1>1. TypeOK /\ t \in Threads /\ Home[t] = Root /\ In(t, "incr")
  BY DEF IInv, RootThreads, IncrStore
<1>2. k \in Keys /\ d \in Deltas /\ op[t].current \in Signed
  BY <1>1, IncrIsTyped
<1>3. /\ \A u \in RootThreads : u # t => op'[u] = op[u]
      /\ ~In(t, "incr")'
  BY <1>1 DEF IncrStore, NoOp, In, TypeOK, RootThreads
<1>4. \A u \in RootThreads : In(u, "incr") /\ op[u].key = k => u = t
  BY <1>1 DEF IInv, LockInv, Peers, RootThreads
<1>5. /\ op[t].fresh => Placeholder(k)
      /\ ~op[t].fresh => ~Placeholder(k)
      /\ ~Placeholder(k)'
  <2>1. op[t].fresh => Placeholder(k)
    BY <1>1 DEF Placeholder
  <2>2. ~op[t].fresh => ~Placeholder(k)
    BY <1>4 DEF Placeholder
  <2>3. ASSUME NEW u \in RootThreads, In(u, "incr")', op'[u].key = k PROVE FALSE
    <3>1. u # t
      BY <1>3, <2>3
    <3> QED BY <1>3, <1>4, <2>3, <3>1 DEF In
  <2>4. ~Placeholder(k)'
    BY <2>3 DEF Placeholder
  <2> QED BY <2>1, <2>2, <2>4
<1>6. \A j \in Keys : j # k => (Placeholder(j)' <=> Placeholder(j))
  BY <1>1, <1>3 DEF Placeholder, In
<1>7. AsSigned(Store[k]) = op[t].current
  <2>1. CASE op[t].fresh
    <3>1. Store[k] = Absent
      BY <1>2, <1>5, <2>1 DEF Store
    <3>2. op[t].current = 0
      BY <1>1, <2>1 DEF FreshInv
    <3> QED BY <3>1, <3>2, AbsentIsZero
  <2>2. CASE ~op[t].fresh
    <3>1. Store[k] = kv[Root][k]
      BY <1>2, <1>5, <2>2 DEF Store
    <3> QED BY <1>1, <3>1 DEF IInv, IncrementsAreIsolated
  <2> QED BY <2>1, <2>2
<1>8. Incremented(Store[k], d) = new
  <2>1. AsSigned(op[t].current) = op[t].current
    BY <1>2 DEF AsSigned
  <2> QED BY <1>7, <2>1 DEF Incremented
<1>9. CASE new = Absent
  <2>1. Answer(t, "incr", 0) /\ kv' = kv
    BY <1>9 DEF IncrStore
  <2>2. ~op[t].fresh
    <3>1. ASSUME op[t].fresh PROVE FALSE
      <4>1. AsSigned(op[t].current) + d = d /\ d \in Signed
        <5>1. AsSigned(op[t].current) = 0
          BY <1>1, <3>1, AbsentIsZero DEF FreshInv
        <5>2. d \in Signed /\ d \in Int
          BY <1>2, SignedRange, DeltasAssumption
        <5> QED BY <5>1, <5>2
      <4>2. new = Wrapped(d)
        BY <4>1 DEF Incremented
      <4>3. Wrapped(d) \in Signed
        BY <4>1, SignedRange, WrappedInRange
      <4> QED BY <1>9, <4>2, <4>3, AbsentIsZero
    <3> QED BY <3>1
  <2>3. Store' = Store
    <3>1. \A j \in Keys : (IF Placeholder(j)' THEN Absent ELSE kv'[Root][j])
                            = (IF Placeholder(j) THEN Absent ELSE kv[Root][j])
      <4>1. ~Placeholder(k) /\ ~Placeholder(k)'
        BY <1>5, <2>2
      <4> QED BY <1>6, <2>1, <4>1
    <3> QED BY <3>1 DEF Store
  <2>4. Seen' = [Seen EXCEPT ![t] = <<"incr", 0>>]
    BY <1>1, <2>1, SeenAnswer
  <2>5. Incremented(Store[k], d) = Absent
    BY <1>8, <1>9
  <2> QED BY <2>3, <2>4, <2>5 DEF A!Incr, A!Answer, Store, Seen
<1>10. CASE new # Absent
  <2>1. Answer(t, "incr", new) /\ Write(t, k, new)
    BY <1>10 DEF IncrStore
  <2>2. new \in Values \cup {Absent}
    BY <1>2, IncrementedInRange DEF Values
  <2> HIDE DEF new
  <2>3. Store' = [Store EXCEPT ![k] = new]
    BY <1>1, <1>2, <1>5, <1>6, <2>1, <2>2, StoreWritten
  <2>4. Seen' = [Seen EXCEPT ![t] = <<"incr", new>>]
    BY <1>1, <2>1, SeenAnswer
  <2> QED BY <1>8, <1>10, <2>3, <2>4 DEF A!Incr, A!Answer, Store, Seen
<1> QED BY <1>9, <1>10

(* A step of another process, or of keys(), is none of AtomicStore's. *)
LEMMA ElsewhereStutters ==
  ASSUME TypeOK, NEW t \in Threads, t \notin RootThreads,
         \/ \E k \in Keys : \/ Get(t, k) \/ Remove(t, k)
                            \/ \E v \in Values : Set(t, k, v)
                            \/ \E d \in Deltas : IncrEntry(t, k, d)
         \/ IncrStore(t) \/ KeysBegin(t) \/ KeysNext(t) \/ KeysEnd(t)
  PROVE  Store' = Store /\ Seen' = Seen
<1>1. Home[t] # Root /\ t \notin RootThreads
  BY DEF RootThreads
<1>2. \A u \in RootThreads : op'[u] = op[u] /\ reply'[u] = reply[u]
  BY <1>1 DEF TypeOK, RootThreads, Get, Remove, Set, IncrEntry, IncrStore, KeysBegin,
     KeysNext, KeysEnd, Answer
<1>3. kv'[Root] = kv[Root]
  BY <1>1, ProcsAssumption DEF TypeOK, Get, Remove, Set, IncrEntry, IncrStore, KeysBegin,
     KeysNext, KeysEnd, Write
<1> QED BY <1>2, <1>3, PlaceholdersKept, StoreKept, SeenKept

LEMMA WalkStutters ==
  ASSUME TypeOK, NEW t \in RootThreads, KeysBegin(t) \/ KeysNext(t) \/ KeysEnd(t)
  PROVE  Store' = Store /\ Seen' = Seen
<1>1. t \in Threads
  BY DEF RootThreads
<1>2. \A u \in RootThreads : op'[u] = op[u] \/ (~In(u, "incr") /\ ~In(u, "incr")')
  <2>1. CASE KeysBegin(t)
    BY <1>1, <2>1 DEF KeysBegin, TypeOK, In, Idle, RootThreads
  <2>2. CASE KeysNext(t)
    BY <1>1, <2>2 DEF KeysNext, TypeOK, In, RootThreads
  <2>3. CASE KeysEnd(t)
    BY <1>1, <2>3 DEF KeysEnd, NoOp, TypeOK, In, RootThreads
  <2> QED BY <2>1, <2>2, <2>3
<1>3. kv' = kv /\ reply' = reply
  BY DEF KeysBegin, KeysNext, KeysEnd
<1> QED BY <1>2, <1>3, PlaceholdersKept, StoreKept, SeenKept

LEMMA ForkStutters ==
  ASSUME TypeOK, FreshInv, NEW p \in Procs, NEW c \in Procs, Fork(p, c)
  PROVE  Store' = Store /\ Seen' = Seen
<1>1. c # Root
  BY DEF FreshInv, Fork
<1>2. kv'[Root] = kv[Root] /\ op' = op /\ reply' = reply
  BY <1>1, ProcsAssumption DEF TypeOK, Fork
<1> QED BY <1>2, PlaceholdersKept, StoreKept, SeenKept

LEMMA StepRefines == IInv /\ FreshInv /\ [Next]_vars => [A!Next]_(A!vars)
<1> SUFFICES ASSUME IInv, FreshInv, [Next]_vars
             PROVE  A!Next \/ (Store' = Store /\ Seen' = Seen)
  BY DEF A!vars, Store, Seen
<1> USE DEF IInv
<1>1. CASE UNCHANGED vars
  BY <1>1, PlaceholdersKept, StoreKept, SeenKept DEF vars
<1>2. ASSUME NEW p \in Procs, NEW c \in Procs, Fork(p, c)
      PROVE  Store' = Store /\ Seen' = Seen
  BY <1>2, ForkStutters
<1>3. ASSUME NEW t \in RootThreads, NEW raw \in RawKeys,
             \/ Get(t, KeyOf[raw]) \/ Remove(t, KeyOf[raw])
             \/ \E v \in Values : Set(t, KeyOf[raw], v)
             \/ \E d \in Deltas : IncrEntry(t, KeyOf[raw], d)
      PROVE  A!Next \/ (Store' = Store /\ Seen' = Seen)
  <2>1. KeyOf[raw] \in Keys
    BY KeysAssumption
  <2>2. CASE Get(t, KeyOf[raw])
    BY <2>1, <2>2, GetRefines DEF A!Next
  <2>3. CASE Remove(t, KeyOf[raw])
    BY <2>1, <2>3, RemoveRefines DEF A!Next
  <2>4. ASSUME NEW v \in Values, Set(t, KeyOf[raw], v) PROVE A!Next
    BY <2>1, <2>4, SetRefines DEF A!Next
  <2>5. ASSUME NEW d \in Deltas, IncrEntry(t, KeyOf[raw], d)
        PROVE  Store' = Store /\ Seen' = Seen
    BY <2>1, <2>5, IncrEntryStutters
  <2> QED BY <1>3, <2>2, <2>3, <2>4, <2>5
<1>4. ASSUME NEW t \in RootThreads, IncrStore(t) PROVE A!Next
  <2>1. op[t].key \in Keys /\ op[t].delta \in Deltas
    BY <1>4, IncrIsTyped DEF RootThreads, IncrStore
  <2>2. PICK k \in Keys, d \in Deltas : op[t].key = k /\ op[t].delta = d
    BY <2>1
  <2>3. A!Incr(t, k, d)
    BY <1>4, <2>2, IncrStoreRefines
  <2> QED BY <2>3 DEF A!Next
<1>5. ASSUME NEW t \in RootThreads, KeysBegin(t) \/ KeysNext(t) \/ KeysEnd(t)
      PROVE  Store' = Store /\ Seen' = Seen
  BY <1>5, WalkStutters
<1>6. ASSUME NEW t \in Threads, t \notin RootThreads,
             \/ \E raw \in RawKeys :
                  \/ Get(t, KeyOf[raw]) \/ Remove(t, KeyOf[raw])
                  \/ \E v \in Values : Set(t, KeyOf[raw], v)
                  \/ \E d \in Deltas : IncrEntry(t, KeyOf[raw], d)
             \/ IncrStore(t) \/ KeysBegin(t) \/ KeysNext(t) \/ KeysEnd(t)
      PROVE  Store' = Store /\ Seen' = Seen
  <2>1. \A raw \in RawKeys : KeyOf[raw] \in Keys
    BY KeysAssumption
  <2> QED BY <1>6, <2>1, ElsewhereStutters
<1> QED BY <1>1, <1>2, <1>3, <1>4, <1>5, <1>6 DEF Next

(* set, get, incr and remove of the threads of a process take effect at    *)
(* one instant each, whatever the other threads, walks and forks do: the 0 *)
(* that increment inserts first is never seen.                             *)
THEOREM Implements == Spec => ImplementsAtomicStore
<1>1. Spec => [][A!Next]_(A!vars)
  BY Fresh, StepRefines, PTL DEF Spec
<1> QED BY <1>1, InitStore, PTL DEF Spec, ImplementsAtomicStore, A!Spec
============================================================================
