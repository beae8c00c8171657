------------------------------- MODULE KVMap -------------------------------
(***************************************************************************)
(* What the write_kv / read_kv system calls promise the threads of one     *)
(* thread group: a map from keys to values, each call taking effect at one *)
(* instant between its entry and its return (linearizability).             *)
(*                                                                         *)
(*  - a write stores its value and returns 0;                              *)
(*  - a write may fail with -1, and then changes nothing; only the first   *)
(*    write of a key may fail, since only it needs memory;                 *)
(*  - a read returns the value of its key, or -1 when there is none.       *)
(*                                                                         *)
(* KVStore.tla, the model of kernel/kv_store.c, implements this module.    *)
(***************************************************************************)
EXTENDS Integers

CONSTANTS Threads,  \* the threads of one thread group
          Keys,     \* the keys they use
          Values,   \* the values they write
          Missing   \* marks a key that was never written

VARIABLES store,    \* store[k]: the value of key k, or Missing
          phase,    \* phase[t]: where thread t is in its call
          key, val, \* the arguments of t's call
          ret       \* ret[t]: the result of t's last call

vars == <<store, phase, key, val, ret>>

Init ==
  /\ store = [k \in Keys |-> Missing]
  /\ phase = [t \in Threads |-> "idle"]
  /\ key \in [Threads -> Keys]
  /\ val \in [Threads -> Values]
  /\ ret = [t \in Threads |-> 0]

CallWrite(t, k, v) ==
  /\ phase[t] = "idle"
  /\ phase' = [phase EXCEPT ![t] = "write"]
  /\ key' = [key EXCEPT ![t] = k]
  /\ val' = [val EXCEPT ![t] = v]
  /\ UNCHANGED <<store, ret>>

CallRead(t, k) ==
  /\ phase[t] = "idle"
  /\ phase' = [phase EXCEPT ![t] = "read"]
  /\ key' = [key EXCEPT ![t] = k]
  /\ UNCHANGED <<store, val, ret>>

DoWrite(t) ==
  /\ phase[t] = "write"
  /\ phase' = [phase EXCEPT ![t] = "done"]
  /\ store' = [store EXCEPT ![key[t]] = val[t]]
  /\ ret' = [ret EXCEPT ![t] = 0]
  /\ UNCHANGED <<key, val>>

FailWrite(t) ==
  /\ phase[t] = "write"
  /\ store[key[t]] = Missing
  /\ phase' = [phase EXCEPT ![t] = "done"]
  /\ ret' = [ret EXCEPT ![t] = -1]
  /\ UNCHANGED <<store, key, val>>

DoRead(t) ==
  /\ phase[t] = "read"
  /\ phase' = [phase EXCEPT ![t] = "done"]
  /\ ret' = [ret EXCEPT ![t] = IF store[key[t]] = Missing THEN -1 ELSE store[key[t]]]
  /\ UNCHANGED <<store, key, val>>

Return(t) ==
  /\ phase[t] = "done"
  /\ phase' = [phase EXCEPT ![t] = "idle"]
  /\ UNCHANGED <<store, key, val, ret>>

Next ==
  \E t \in Threads :
    \/ \E k \in Keys, v \in Values : CallWrite(t, k, v)
    \/ \E k \in Keys : CallRead(t, k)
    \/ DoWrite(t)
    \/ FailWrite(t)
    \/ DoRead(t)
    \/ Return(t)

Spec == Init /\ [][Next]_vars
=============================================================================
