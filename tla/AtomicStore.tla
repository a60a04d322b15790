---------------------------- MODULE AtomicStore ----------------------------
(***************************************************************************)
(* A key-value store whose operations take effect at one instant each.     *)
(***************************************************************************)
EXTENDS Integers

CONSTANTS Threads, Keys, Values, Deltas, Absent,
          Incremented(_, _)  \* the value an increment makes of another

VARIABLES
  store,  \* the value of each key, Absent if it has none
  reply   \* the last reply of set, get, incr or remove each thread got

vars == <<store, reply>>

Init ==
  /\ store = [k \in Keys |-> Absent]
  /\ reply = [t \in Threads |-> <<"none", Absent>>]

Answer(t, call, v) == reply' = [reply EXCEPT ![t] = <<call, v>>]

Set(t, k, v) ==
  /\ store' = [store EXCEPT ![k] = v]
  /\ Answer(t, "set", 0)

Get(t, k) == Answer(t, "get", store[k]) /\ UNCHANGED store

Remove(t, k) ==
  /\ store' = [store EXCEPT ![k] = Absent]
  /\ Answer(t, "remove", IF store[k] = Absent THEN 1 ELSE 0)

Incr(t, k, d) ==
  LET new == Incremented(store[k], d)
  IN  IF new = Absent
      THEN Answer(t, "incr", 0) /\ UNCHANGED store  \* the sum is out of range
      ELSE store' = [store EXCEPT ![k] = new] /\ Answer(t, "incr", new)

Next ==
  \E t \in Threads, k \in Keys :
    \/ Get(t, k) \/ Remove(t, k)
    \/ \E v \in Values : Set(t, k, v)
    \/ \E d \in Deltas : Incr(t, k, d)

Spec == Init /\ [][Next]_vars
============================================================================
