--------------------------- MODULE KVStoreProofs ---------------------------
(***************************************************************************)
(* Proofs about KVStore: its invariants and its refinement of KVMap, for   *)
(* every set of threads, keys and values and every number of buckets.      *)
(***************************************************************************)
EXTENDS KVStore, TLAPS

\* A key's bucket is one of the arrays' elements: both arrays are only ever
\* indexed inside their bounds.
LEMMA BucketInRange == ASSUME TypeOK, NEW t \in Threads PROVE bucket(t) \in Buckets
  BY KVAssumption DEF TypeOK, bucket

\* What linking a node at the head of a list does to it.
LEMMA AddHeadEffect ==
  ASSUME NEW s \in Seq(Node), NEW n \in Node
  PROVE  /\ Append(s, n) \in Seq(Node)
         /\ Len(Append(s, n)) = Len(s) + 1
         /\ DOMAIN s = 1 .. Len(s)
         /\ Len(s) \in Nat
         /\ DOMAIN Append(s, n) = 1 .. Len(s) + 1
         /\ Append(s, n)[Len(s) + 1] = n
         /\ \A i \in DOMAIN s : Append(s, n)[i] = s[i]
  OBVIOUS

\* What storing into the value field of a node of a list does to it.
LEMMA StoreEffect ==
  ASSUME NEW s \in Seq(Node), NEW i \in DOMAIN s, NEW n \in Node
  PROVE  /\ [s EXCEPT ![i] = n] \in Seq(Node)
         /\ Len([s EXCEPT ![i] = n]) = Len(s)
         /\ DOMAIN [s EXCEPT ![i] = n] = DOMAIN s
         /\ DOMAIN s = 1 .. Len(s)
         /\ Len(s) \in Nat
         /\ [s EXCEPT ![i] = n][i] = n
         /\ \A j \in DOMAIN s : j # i => [s EXCEPT ![i] = n][j] = s[j]
  OBVIOUS

\* The part of the invariant that is about one thread.
ThreadInv(u) ==
  /\ pc[u] \in LockedStates => lock[bucket(u)] = u
  /\ pc[u] \in {"w_scan", "r_scan"} =>
       /\ node[u] \in 0 .. Len(chain[bucket(u)])
       /\ \A i \in DOMAIN chain[bucket(u)] :
            i > node[u] => chain[bucket(u)][i].key # key[u]
  /\ pc[u] \in {"w_add", "w_fail", "r_miss"} =>
       \A i \in DOMAIN chain[bucket(u)] : chain[bucket(u)][i].key # key[u]
  /\ pc[u] = "r_value" =>
       /\ node[u] \in DOMAIN chain[bucket(u)]
       /\ chain[bucket(u)][node[u]].key = key[u]

\* The inductive invariant, thread by thread.
LEMMA InvSplit ==
  IInv <=> TypeOK /\ UniqueKeys /\ RightBucket /\ \A u \in Threads : ThreadInv(u)
  BY DEF IInv, HoldsLock, ScanSound, NodeStillValid, ThreadInv

\* A step of t that leaves the lists alone, changes no lock but to or from t's
\* own, and keeps t's own part of the invariant keeps the whole.
LEMMA QuietStep ==
  ASSUME IInv, NEW t \in Threads, TypeOK', UNCHANGED chain, ThreadInv(t)',
         \A u \in Threads \ {t} : /\ pc'[u] = pc[u]
                                  /\ key'[u] = key[u]
                                  /\ node'[u] = node[u],
         \A b \in Buckets : \A u \in Threads \ {t} : lock[b] = u => lock'[b] = u
  PROVE  IInv'
<1>1. (UniqueKeys /\ RightBucket)'
  BY DEF IInv, UniqueKeys, RightBucket
<1>2. ASSUME NEW u \in Threads PROVE ThreadInv(u)'
  <2>1. CASE u = t
    BY <2>1
  <2>2. CASE u # t
    <3>1. bucket(u)' = bucket(u) /\ bucket(u) \in Buckets
      BY <2>2, BucketInRange DEF bucket, IInv
    <3>2. ThreadInv(u)
      BY InvSplit
    <3>3. QED
      BY <2>2, <3>1, <3>2 DEF ThreadInv
  <2>3. QED
    BY <2>1, <2>2
<1>3. QED
  BY <1>1, <1>2 DEF IInv, HoldsLock, ScanSound, NodeStillValid, ThreadInv

\* The steps that change neither a list nor a lock: entering a call, moving the
\* scan on, the outcome of kmalloc, the end of a scan, loading and returning.
LEMMA LocalStep ==
  ASSUME IInv, NEW t \in Threads,
         \/ \E k \in Keys, v \in Values : WriteCall(t, k, v)
         \/ \E k \in Keys : ReadCall(t, k)
         \/ WriteSkip(t) \/ ReadSkip(t)
         \/ WriteKmalloc(t) \/ ReadScanEnd(t)
         \/ ReadValue(t) \/ ReadReturn(t)
  PROVE  IInv'
<1> USE DEF TypeOK, WriteStates, ReadStates, LockedStates, ThreadInv, bucket
<1>0. TypeOK /\ ThreadInv(t) /\ bucket(t) \in Buckets
  BY InvSplit, BucketInRange
<1>00. DOMAIN chain[bucket(t)] = 1 .. Len(chain[bucket(t)]) /\ Len(chain[bucket(t)]) \in Nat
  <2>1. chain[bucket(t)] \in Seq(Node)
    BY <1>0
  <2>2. QED
    BY <2>1
<1>1. ASSUME NEW k \in Keys, NEW v \in Values, WriteCall(t, k, v) PROVE IInv'
  <2>1. TypeOK'
    BY <1>0, <1>1 DEF WriteCall
  <2>2. ThreadInv(t)'
    BY <1>0, <1>1 DEF WriteCall
  <2>3. QED
    BY <1>0, <1>1, <2>1, <2>2, QuietStep DEF WriteCall
<1>2. ASSUME NEW k \in Keys, ReadCall(t, k) PROVE IInv'
  <2>1. TypeOK'
    BY <1>0, <1>2 DEF ReadCall
  <2>2. ThreadInv(t)'
    BY <1>0, <1>2 DEF ReadCall
  <2>3. QED
    BY <1>0, <1>2, <2>1, <2>2, QuietStep DEF ReadCall
<1>3. ASSUME NEW at \in {"w_scan", "r_scan"}, Skip(t, at) PROVE IInv'
  <2>1. TypeOK'
    BY <1>0, <1>3 DEF Skip, Matches
  <2>2. ThreadInv(t)'
    BY <1>0, <1>3 DEF Skip, Matches
  <2>3. QED
    BY <1>0, <1>3, <2>1, <2>2, QuietStep DEF Skip, Matches
<1>4. CASE WriteKmalloc(t)
  <2>1. TypeOK'
    BY <1>0, <1>4 DEF WriteKmalloc
  <2>2. ThreadInv(t)'
    BY <1>0, <1>00, <1>4 DEF WriteKmalloc
  <2>3. QED
    BY <1>0, <1>4, <2>1, <2>2, QuietStep DEF WriteKmalloc
<1>5. CASE ReadScanEnd(t)
  <2>1. TypeOK'
    BY <1>0, <1>5 DEF ReadScanEnd
  <2>2. ThreadInv(t)'
    BY <1>0, <1>00, <1>5 DEF ReadScanEnd
  <2>3. QED
    BY <1>0, <1>5, <2>1, <2>2, QuietStep DEF ReadScanEnd
<1>6. CASE ReadValue(t)
  <2>1. chain[bucket(t)][node[t]] \in Node
    BY <1>0, <1>6 DEF ReadValue
  <2>2. chain[bucket(t)][node[t]].value \in Int
    BY <2>1, KVAssumption DEF Node
  <2>3. QED
    BY <1>0, <1>6, <2>2, QuietStep DEF ReadValue
<1>7. CASE ReadReturn(t)
  BY <1>0, <1>7, QuietStep DEF ReadReturn
<1>8. QED
  BY <1>1, <1>2, <1>3, <1>4, <1>5, <1>6, <1>7 DEF WriteSkip, ReadSkip

\* Taking the lock of a bucket starts a scan that has passed no node yet.
LEMMA LockStep ==
  ASSUME IInv, NEW t \in Threads, Locking(t)
  PROVE  IInv'
<1> USE DEF TypeOK, WriteStates, ReadStates, LockedStates, ThreadInv, bucket
<1>0. TypeOK /\ ThreadInv(t) /\ bucket(t) \in Buckets
  BY InvSplit, BucketInRange
<1>1. ASSUME NEW from, NEW to \in {"w_scan", "r_scan"}, SpinLock(t, from, to)
      PROVE  IInv'
  <2>1. chain[bucket(t)] \in Seq(Node)
    BY <1>0
  <2>2. Len(chain[bucket(t)]) \in Nat /\ DOMAIN chain[bucket(t)] = 1 .. Len(chain[bucket(t)])
    BY <2>1
  <2>3. TypeOK'
    BY <1>0, <1>1, <2>2 DEF SpinLock
  <2>4. ThreadInv(t)'
    BY <1>0, <1>1, <2>2 DEF SpinLock
  <2>5. \A b \in Buckets : \A u \in Threads \ {t} : lock[b] = u => lock'[b] = u
    BY <1>0, <1>1, KVAssumption DEF SpinLock
  <2>6. QED
    BY <1>0, <1>1, <2>3, <2>4, <2>5, QuietStep DEF SpinLock
<1>2. QED
  BY <1>1 DEF Locking, WriteLock, ReadLock

\* Giving the lock up ends the critical section; a reader that found its node
\* keeps the pointer.
LEMMA UnlockStep ==
  ASSUME IInv, NEW t \in Threads,
         WriteReturn(t) \/ WriteFail(t) \/ ReadMissReturn(t) \/ ReadFoundUnlock(t)
  PROVE  IInv'
<1> USE DEF TypeOK, WriteStates, ReadStates, LockedStates, ThreadInv, bucket
<1>0. TypeOK /\ ThreadInv(t) /\ bucket(t) \in Buckets
  BY InvSplit, BucketInRange
<1>1. ASSUME NEW from \in LockedStates, NEW to \in {"idle", "r_value"}, NEW r \in Int,
             SpinUnlock(t, from, to, r), to = "r_value" => from = "r_scan" /\ Matches(t)
      PROVE  IInv'
  <2>1. chain[bucket(t)] \in Seq(Node)
    BY <1>0
  <2>2. Len(chain[bucket(t)]) \in Nat /\ DOMAIN chain[bucket(t)] = 1 .. Len(chain[bucket(t)])
    BY <2>1
  <2>3. TypeOK'
    BY <1>0, <1>1 DEF SpinUnlock
  <2>4. ThreadInv(t)'
    BY <1>0, <1>1, <2>2 DEF SpinUnlock, Matches
  <2>5. \A b \in Buckets : \A u \in Threads \ {t} : lock[b] = u => lock'[b] = u
    BY <1>0, <1>1 DEF SpinUnlock
  <2>6. QED
    BY <1>0, <1>1, <2>3, <2>4, <2>5, QuietStep DEF SpinUnlock
<1>2. QED
  BY <1>0, <1>1 DEF WriteReturn, WriteFail, ReadMissReturn, ReadFoundUnlock
\* Two threads are never inside the critical section of one bucket.
LEMMA Exclusion ==
  ASSUME IInv, NEW t \in Threads, NEW u \in Threads, t # u,
         pc[t] \in LockedStates, pc[u] \in LockedStates
  PROVE  bucket(t) # bucket(u)
  BY DEF IInv, HoldsLock

\* A step of t that changes only the list it has locked, and neither drops nor
\* re-keys a node of it, keeps every other thread's part of the invariant.
LEMMA OthersKept ==
  ASSUME IInv, NEW t \in Threads, pc[t] \in LockedStates,
         UNCHANGED <<lock, key, node>>,
         \A u \in Threads \ {t} : pc'[u] = pc[u],
         \A b \in Buckets \ {bucket(t)} : chain'[b] = chain[b],
         \A i \in DOMAIN chain[bucket(t)] :
           /\ i \in DOMAIN chain'[bucket(t)]
           /\ chain'[bucket(t)][i].key = chain[bucket(t)][i].key,
         NEW u \in Threads \ {t}
  PROVE  ThreadInv(u)'
<1>1. ThreadInv(u) /\ bucket(u) \in Buckets /\ bucket(u)' = bucket(u) /\ pc'[u] = pc[u]
  BY InvSplit, BucketInRange DEF bucket
<1>2. CASE bucket(u) # bucket(t)
  <2>1. chain'[bucket(u)] = chain[bucket(u)]
    BY <1>1, <1>2
  <2>2. QED
    BY <1>1, <2>1 DEF ThreadInv
<1>3. CASE bucket(u) = bucket(t)
  <2>1. pc[u] \notin LockedStates
    BY <1>3, Exclusion
  <2>2. QED
    BY <1>1, <1>3, <2>1 DEF ThreadInv, LockedStates
<1>4. QED
  BY <1>2, <1>3

\* Overwriting the value of the node found keeps every key where it is.
LEMMA UpdateStep ==
  ASSUME IInv, NEW t \in Threads, WriteUpdate(t)
  PROVE  IInv'
<1> DEFINE b == bucket(t)
           n == [key |-> chain[b][node[t]].key, value |-> val[t]]
<1>1. TypeOK /\ ThreadInv(t) /\ b \in Buckets /\ chain[b] \in Seq(Node)
  BY InvSplit, BucketInRange DEF TypeOK
<1>2. node[t] \in DOMAIN chain[b] /\ chain[b][node[t]].key = key[t]
  BY <1>1 DEF WriteUpdate, Matches, ThreadInv, TypeOK
<1>3. n \in Node
  BY <1>1, <1>2 DEF TypeOK, Node, WriteUpdate
<1>4. chain' = [chain EXCEPT ![b] = [chain[b] EXCEPT ![node[t]] = n]]
  BY <1>1 DEF WriteUpdate, TypeOK
<1>5. /\ chain'[b] \in Seq(Node)
      /\ DOMAIN chain'[b] = DOMAIN chain[b]
      /\ \A i \in DOMAIN chain[b] : chain'[b][i].key = chain[b][i].key
      /\ \A c \in Buckets \ {b} : chain'[c] = chain[c]
  <2>1. chain'[b] = [chain[b] EXCEPT ![node[t]] = n] /\ \A c \in Buckets \ {b} : chain'[c] = chain[c]
    BY <1>1, <1>4 DEF TypeOK
  <2>2. n.key = chain[b][node[t]].key
    OBVIOUS
  <2>3. QED
    BY <1>1, <1>2, <1>3, <2>1, <2>2, StoreEffect
<1>6. TypeOK'
  BY <1>1, <1>4, <1>5 DEF TypeOK, WriteUpdate, WriteStates, ReadStates
<1>7. UniqueKeys'
  BY <1>5 DEF IInv, UniqueKeys
<1>8. RightBucket'
  BY <1>5 DEF IInv, RightBucket
<1>9. ThreadInv(t)'
  BY <1>1 DEF WriteUpdate, ThreadInv, LockedStates, bucket, TypeOK
<1>10. \A u \in Threads \ {t} : ThreadInv(u)'
  BY <1>1, <1>5, OthersKept DEF WriteUpdate, TypeOK, LockedStates
<1>11. QED
  BY <1>6, <1>7, <1>8, <1>9, <1>10
     DEF IInv, HoldsLock, ScanSound, NodeStillValid, ThreadInv

\* Linking the new node: its key was in no node of the bucket, by the scan.
LEMMA AddHeadStep ==
  ASSUME IInv, NEW t \in Threads, WriteAddHead(t)
  PROVE  IInv'
<1> DEFINE b == bucket(t)
           n == [key |-> key[t], value |-> val[t]]
<1>1. TypeOK /\ ThreadInv(t) /\ b \in Buckets /\ chain[b] \in Seq(Node)
  BY InvSplit, BucketInRange DEF TypeOK
<1>2. \A i \in DOMAIN chain[b] : chain[b][i].key # key[t]
  BY <1>1 DEF WriteAddHead, ThreadInv
<1>3. n \in Node
  BY <1>1 DEF TypeOK, Node
<1>4. /\ chain'[b] = Append(chain[b], n)
      /\ \A c \in Buckets \ {b} : chain'[c] = chain[c]
      /\ chain' = [chain EXCEPT ![b] = Append(chain[b], n)]
  BY <1>1 DEF WriteAddHead, TypeOK
<1>5. /\ chain'[b] \in Seq(Node)
      /\ DOMAIN chain[b] = 1 .. Len(chain[b])
      /\ Len(chain[b]) \in Nat
      /\ DOMAIN chain'[b] = 1 .. Len(chain[b]) + 1
      /\ chain'[b][Len(chain[b]) + 1] = n
      /\ \A i \in DOMAIN chain[b] : chain'[b][i] = chain[b][i]
  BY <1>1, <1>3, <1>4, AddHeadEffect
<1>6. TypeOK'
  BY <1>1, <1>4, <1>5 DEF TypeOK, WriteAddHead, WriteStates, ReadStates
<1>7. UniqueKeys'
  <2> SUFFICES ASSUME NEW c \in Buckets, NEW i \in DOMAIN chain'[c], NEW j \in DOMAIN chain'[c],
                      chain'[c][i].key = chain'[c][j].key
               PROVE  i = j
    BY DEF UniqueKeys
  <2>1. CASE c # b
    BY <1>4, <2>1 DEF IInv, UniqueKeys
  <2>2. CASE c = b
    <3>1. n.key = key[t]
      OBVIOUS
    <3>2. /\ i \in DOMAIN chain[b] \/ i = Len(chain[b]) + 1
          /\ j \in DOMAIN chain[b] \/ j = Len(chain[b]) + 1
      <4>1. \A k \in 1 .. Len(chain[b]) + 1 : k \in DOMAIN chain[b] \/ k = Len(chain[b]) + 1
        BY <1>5
      <4>2. DOMAIN chain'[c] = 1 .. Len(chain[b]) + 1
        BY <1>5, <2>2
      <4>3. QED
        BY <4>1, <4>2
    <3>3. i \in DOMAIN chain[b] /\ j \in DOMAIN chain[b] => i = j
      BY <1>1, <1>5, <2>2 DEF IInv, UniqueKeys
    <3>4. ASSUME NEW k \in DOMAIN chain[b] PROVE chain'[b][k].key # chain'[b][Len(chain[b]) + 1].key
      BY <1>2, <1>5, <3>1
    <3>5. QED
      BY <2>2, <3>2, <3>3, <3>4
  <2>3. QED
    BY <2>1, <2>2
<1>8. RightBucket'
  <2> SUFFICES ASSUME NEW c \in Buckets, NEW i \in DOMAIN chain'[c]
               PROVE  Bucket(chain'[c][i].key) = c
    BY DEF RightBucket
  <2>1. n.key = key[t] /\ Bucket(key[t]) = b
    BY DEF bucket
  <2>2. i \in DOMAIN chain[c] => Bucket(chain[c][i].key) = c
    BY DEF IInv, RightBucket
  <2>3. QED
    BY <1>4, <1>5, <2>1, <2>2
<1>9. ThreadInv(t)'
  BY <1>1 DEF WriteAddHead, ThreadInv, LockedStates, bucket, TypeOK
<1>10. \A u \in Threads \ {t} : ThreadInv(u)'
  <2>1. \A i \in DOMAIN chain[b] : i \in DOMAIN chain'[b] /\ chain'[b][i].key = chain[b][i].key
    BY <1>5
  <2>2. QED
    BY <1>1, <1>4, <2>1, OthersKept DEF WriteAddHead, TypeOK, LockedStates
<1>11. QED
  BY <1>6, <1>7, <1>8, <1>9, <1>10
     DEF IInv, HoldsLock, ScanSound, NodeStillValid, ThreadInv

\* An empty store satisfies it.
LEMMA InitInv == Init => IInv
  BY KVAssumption DEF Init, IInv, TypeOK, UniqueKeys, HoldsLock, RightBucket, ScanSound,
     NodeStillValid, WriteStates, ReadStates, LockedStates, Node

\* Every step of the two system calls keeps it.
LEMMA NextInv == IInv /\ [Next]_vars => IInv'
<1> SUFFICES ASSUME IInv, [Next]_vars PROVE IInv'
  OBVIOUS
<1>1. ASSUME NEW t \in Threads, Call(t) \/ Locking(t) \/ Body(t) PROVE IInv'
  BY <1>1, LocalStep, LockStep, UnlockStep, UpdateStep, AddHeadStep DEF Call, Body
<1>2. CASE UNCHANGED vars
  BY <1>2 DEF vars, IInv, TypeOK, UniqueKeys, HoldsLock, RightBucket, ScanSound,
     NodeStillValid, bucket
<1>3. QED
  BY <1>1, <1>2 DEF Next

\* The inductive invariant of the store holds in every reachable state.
THEOREM InvariantHolds == Spec => []IInv
  BY InitInv, NextInv, PTL DEF Spec

\* The calls and the store keep their types.
THEOREM TypeCorrect == Spec => []TypeOK
  BY InvariantHolds, PTL DEF IInv

\* No bucket ever holds two nodes of one key.
THEOREM UniqueKeysHolds == Spec => []UniqueKeys
  BY InvariantHolds, PTL DEF IInv

\* The pointer read_kv dereferences without the lock is always good.
THEOREM NodeStillValidHolds == Spec => []NodeStillValid
  BY InvariantHolds, PTL DEF IInv
-----------------------------------------------------------------------------
(***************************************************************************)
(* The refinement of KVMap.                                                *)
(***************************************************************************)

\* Looking a key up in a list without duplicates finds the node of the key.
LEMMA Lookup ==
  ASSUME NEW list, NEW k, NEW i \in DOMAIN list, list[i].key = k,
         \A x, y \in DOMAIN list : list[x].key = list[y].key => x = y
  PROVE  ValueIn(list, k) = list[i].value
<1> DEFINE p == CHOOSE x \in DOMAIN list : list[x].key = k
<1>1. p \in DOMAIN list /\ list[p].key = k
  OBVIOUS
<1>2. p = i
  BY <1>1
<1>3. QED
  BY <1>2 DEF ValueIn

\* A list without the key has no value for it.
LEMMA LookupAbsent ==
  ASSUME NEW list, NEW k, \A i \in DOMAIN list : list[i].key # k
  PROVE  ValueIn(list, k) = Missing
  BY DEF ValueIn

\* A stored value is a value, never the mark of an absent key.
LEMMA StoreType ==
  ASSUME IInv, NEW t \in Threads, NEW i \in DOMAIN chain[bucket(t)],
         chain[bucket(t)][i].key = key[t]
  PROVE  /\ absStore[key[t]] = chain[bucket(t)][i].value
         /\ absStore[key[t]] # Missing
<1>1. bucket(t) \in Buckets /\ key[t] \in Keys /\ chain[bucket(t)] \in Seq(Node)
  BY BucketInRange DEF IInv, TypeOK
<1>2. ValueIn(chain[bucket(t)], key[t]) = chain[bucket(t)][i].value
  BY <1>1, Lookup DEF IInv, UniqueKeys
<1>3. chain[bucket(t)][i] \in Node
  BY <1>1
<1>4. chain[bucket(t)][i].value \in Values
  BY <1>3 DEF Node
<1>5. QED
  BY <1>1, <1>2, <1>4, KVAssumption DEF absStore, bucket

\* The map as seen through the lists changes only when the lists do.
LEMMA StoreKept == ASSUME UNCHANGED chain PROVE absStore' = absStore
  BY DEF absStore

\* What a change of the list of key[t] that gives key[t] the value val[t] and
\* leaves all other keys alone does to the map.
LEMMA StoreChanged ==
  ASSUME IInv, NEW t \in Threads,
         \A c \in Buckets \ {bucket(t)} : chain'[c] = chain[c],
         ValueIn(chain'[bucket(t)], key[t]) = val[t],
         \A k \in Keys \ {key[t]} : ValueIn(chain'[bucket(t)], k) = ValueIn(chain[bucket(t)], k)
  PROVE  absStore' = [absStore EXCEPT ![key[t]] = val[t]]
<1>1. key[t] \in Keys
  BY DEF IInv, TypeOK
<1>2. ASSUME NEW k \in Keys
      PROVE ValueIn(chain'[Bucket(k)], k) = IF k = key[t] THEN val[t] ELSE ValueIn(chain[Bucket(k)], k)
  <2>1. CASE k = key[t]
    BY <2>1 DEF bucket
  <2>2. CASE k # key[t] /\ Bucket(k) = bucket(t)
    BY <2>2
  <2>3. CASE k # key[t] /\ Bucket(k) # bucket(t)
    BY <2>3, KVAssumption
  <2>4. QED
    BY <2>1, <2>2, <2>3
<1>3. QED
  BY <1>1, <1>2 DEF absStore

\* Overwriting the node of a key is a write of the abstract map.
LEMMA UpdateStore ==
  ASSUME IInv, IInv', NEW t \in Threads, WriteUpdate(t)
  PROVE  absStore' = [absStore EXCEPT ![key[t]] = val[t]]
<1> DEFINE b == bucket(t)
           n == [key |-> chain[b][node[t]].key, value |-> val[t]]
<1>1. TypeOK /\ ThreadInv(t) /\ b \in Buckets /\ chain[b] \in Seq(Node) /\ key[t] \in Keys
  BY InvSplit, BucketInRange DEF TypeOK
<1>2. node[t] \in DOMAIN chain[b] /\ chain[b][node[t]].key = key[t]
  BY <1>1 DEF WriteUpdate, Matches, ThreadInv, TypeOK
<1>3. n \in Node /\ n.key = key[t] /\ n.value = val[t]
  BY <1>1, <1>2 DEF TypeOK, Node, WriteUpdate
<1>4. chain'[b] = [chain[b] EXCEPT ![node[t]] = n] /\ \A c \in Buckets \ {b} : chain'[c] = chain[c]
  BY <1>1 DEF WriteUpdate, TypeOK
<1>5. /\ DOMAIN chain'[b] = DOMAIN chain[b]
      /\ chain'[b][node[t]] = n
      /\ \A j \in DOMAIN chain[b] : j # node[t] => chain'[b][j] = chain[b][j]
  BY <1>1, <1>2, <1>3, <1>4, StoreEffect
<1>6. \A x, y \in DOMAIN chain[b] : chain[b][x].key = chain[b][y].key => x = y
  BY <1>1 DEF IInv, UniqueKeys
<1>7. \A x, y \in DOMAIN chain'[b] : chain'[b][x].key = chain'[b][y].key => x = y
  BY <1>1 DEF IInv, UniqueKeys
<1>8. ValueIn(chain'[b], key[t]) = val[t]
  BY <1>2, <1>3, <1>5, <1>7, Lookup
<1>9. ASSUME NEW k \in Keys \ {key[t]} PROVE ValueIn(chain'[b], k) = ValueIn(chain[b], k)
  <2>1. CASE \E i \in DOMAIN chain[b] : chain[b][i].key = k
    <3>1. PICK i \in DOMAIN chain[b] : chain[b][i].key = k
      BY <2>1
    <3>2. i # node[t]
      BY <1>2, <3>1
    <3>3. chain'[b][i] = chain[b][i] /\ i \in DOMAIN chain'[b]
      BY <1>5, <3>2
    <3>4. ValueIn(chain[b], k) = chain[b][i].value
      BY <1>6, <3>1, Lookup
    <3>5. ValueIn(chain'[b], k) = chain'[b][i].value
      BY <1>7, <3>1, <3>3, Lookup
    <3>6. QED
      BY <3>3, <3>4, <3>5
  <2>2. CASE \A i \in DOMAIN chain[b] : chain[b][i].key # k
    <3>1. \A i \in DOMAIN chain'[b] : chain'[b][i].key # k
      BY <1>3, <1>5, <2>2
    <3>2. QED
      BY <2>2, <3>1, LookupAbsent
  <2>3. QED
    BY <2>1, <2>2
<1>10. QED
  BY <1>4, <1>8, <1>9, StoreChanged

\* So is a new node at the head of the list, when the key has none.
LEMMA AddHeadStore ==
  ASSUME IInv, IInv', NEW t \in Threads, WriteAddHead(t)
  PROVE  absStore' = [absStore EXCEPT ![key[t]] = val[t]]
<1> DEFINE b == bucket(t)
           n == [key |-> key[t], value |-> val[t]]
           new == Len(chain[b]) + 1
<1>1. TypeOK /\ b \in Buckets /\ chain[b] \in Seq(Node) /\ key[t] \in Keys
  BY BucketInRange DEF TypeOK, IInv
<1>2. n \in Node /\ n.key = key[t] /\ n.value = val[t]
  BY <1>1 DEF TypeOK, Node
<1>3. chain'[b] = Append(chain[b], n) /\ \A c \in Buckets \ {b} : chain'[c] = chain[c]
  BY <1>1 DEF WriteAddHead, TypeOK
<1>4. /\ \A i \in DOMAIN chain'[b] : i \in DOMAIN chain[b] \/ i = new
      /\ new \in DOMAIN chain'[b]
      /\ chain'[b][new] = n
      /\ \A i \in DOMAIN chain[b] : i \in DOMAIN chain'[b] /\ chain'[b][i] = chain[b][i]
  BY <1>1, <1>2, <1>3, AddHeadEffect
<1>5. \A x, y \in DOMAIN chain[b] : chain[b][x].key = chain[b][y].key => x = y
  BY <1>1 DEF IInv, UniqueKeys
<1>6. \A x, y \in DOMAIN chain'[b] : chain'[b][x].key = chain'[b][y].key => x = y
  BY <1>1 DEF IInv, UniqueKeys
<1>7. ValueIn(chain'[b], key[t]) = val[t]
  BY <1>2, <1>4, <1>6, Lookup
<1>8. ASSUME NEW k \in Keys \ {key[t]} PROVE ValueIn(chain'[b], k) = ValueIn(chain[b], k)
  <2>1. CASE \E i \in DOMAIN chain[b] : chain[b][i].key = k
    <3>1. PICK i \in DOMAIN chain[b] : chain[b][i].key = k
      BY <2>1
    <3>2. chain'[b][i] = chain[b][i] /\ i \in DOMAIN chain'[b]
      BY <1>4, <3>1
    <3>3. ValueIn(chain[b], k) = chain[b][i].value
      BY <1>5, <3>1, Lookup
    <3>4. ValueIn(chain'[b], k) = chain'[b][i].value
      BY <1>6, <3>1, <3>2, Lookup
    <3>5. QED
      BY <3>2, <3>3, <3>4
  <2>2. CASE \A i \in DOMAIN chain[b] : chain[b][i].key # k
    <3>1. \A i \in DOMAIN chain'[b] : chain'[b][i].key # k
      BY <1>2, <1>4, <2>2
    <3>2. QED
      BY <2>2, <3>1, LookupAbsent
  <2>3. QED
    BY <2>1, <2>2
<1>9. QED
  BY <1>3, <1>7, <1>8, StoreChanged
\* The result a thread at p with result register r has in the abstract map.
RetOf(p, r) == IF p = "w_unlock" THEN 0 ELSE IF p \in {"w_fail", "r_miss"} THEN -1 ELSE r

\* A step of t moves only t in the abstract map.
LEMMA AbsThread ==
  ASSUME TypeOK, TypeOK', NEW t \in Threads,
         \A u \in Threads \ {t} : pc'[u] = pc[u] /\ ret'[u] = ret[u]
  PROVE  /\ absPhase' = [absPhase EXCEPT ![t] = PhaseOf(pc'[t])]
         /\ absPhase[t] = PhaseOf(pc[t])
         /\ absRet' = [absRet EXCEPT ![t] = RetOf(pc'[t], ret'[t])]
         /\ absRet[t] = RetOf(pc[t], ret[t])
<1>1. absPhase' = [absPhase EXCEPT ![t] = PhaseOf(pc'[t])] /\ absPhase[t] = PhaseOf(pc[t])
  BY DEF absPhase
<1>2. absRet' = [absRet EXCEPT ![t] = RetOf(pc'[t], ret'[t])] /\ absRet[t] = RetOf(pc[t], ret[t])
  BY DEF absRet, RetOf
<1>3. QED
  BY <1>1, <1>2

\* The same when the result register keeps its value; the abstract map does not
\* see the step when neither phase nor result changes.
LEMMA AbsMove ==
  ASSUME TypeOK, TypeOK', NEW t \in Threads, NEW p, pc' = [pc EXCEPT ![t] = p], UNCHANGED ret
  PROVE  /\ absPhase' = [absPhase EXCEPT ![t] = PhaseOf(p)]
         /\ absPhase[t] = PhaseOf(pc[t])
         /\ absRet' = [absRet EXCEPT ![t] = RetOf(p, ret[t])]
         /\ PhaseOf(p) = PhaseOf(pc[t]) => absPhase' = absPhase
         /\ RetOf(p, ret[t]) = RetOf(pc[t], ret[t]) => absRet' = absRet
<1>1. pc'[t] = p /\ \A u \in Threads \ {t} : pc'[u] = pc[u] /\ ret'[u] = ret[u]
  BY DEF TypeOK
<1>2. /\ absPhase' = [absPhase EXCEPT ![t] = PhaseOf(p)]
      /\ absPhase[t] = PhaseOf(pc[t])
      /\ absRet' = [absRet EXCEPT ![t] = RetOf(p, ret[t])]
      /\ absRet[t] = RetOf(pc[t], ret[t])
  BY <1>1, AbsThread
<1>3. PhaseOf(p) = PhaseOf(pc[t]) => absPhase' = absPhase
  BY <1>2 DEF absPhase
<1>4. RetOf(p, ret[t]) = RetOf(pc[t], ret[t]) => absRet' = absRet
  BY <1>2 DEF absRet
<1>5. QED
  BY <1>2, <1>3, <1>4

\* Every step of a thread is a step of the abstract map, or none.
LEMMA RefineStep ==
  ASSUME IInv, IInv', NEW t \in Threads, Call(t) \/ Locking(t) \/ Body(t)
  PROVE  [Map!Next]_(Map!vars)
<1>0. TypeOK /\ TypeOK' /\ ThreadInv(t)
  BY InvSplit DEF IInv
<1>1. ASSUME NEW k \in Keys, NEW v \in Values, WriteCall(t, k, v) PROVE Map!CallWrite(t, k, v)
  <2>1. absPhase' = [absPhase EXCEPT ![t] = "write"] /\ absPhase[t] = "idle" /\ absRet' = absRet
    BY <1>0, <1>1, AbsMove DEF WriteCall, PhaseOf, RetOf
  <2>2. QED
    BY <1>1, <2>1, StoreKept DEF WriteCall, Map!CallWrite
<1>2. ASSUME NEW k \in Keys, ReadCall(t, k) PROVE Map!CallRead(t, k)
  <2>1. absPhase' = [absPhase EXCEPT ![t] = "read"] /\ absPhase[t] = "idle" /\ absRet' = absRet
    BY <1>0, <1>2, AbsMove DEF ReadCall, PhaseOf, RetOf
  <2>2. QED
    BY <1>2, <2>1, StoreKept DEF ReadCall, Map!CallRead
<1>3. CASE Locking(t)
  <2>1. PICK from, to : /\ SpinLock(t, from, to)
                        /\ <<from, to>> \in {<<"w_lock", "w_scan">>, <<"r_lock", "r_scan">>}
    BY <1>3 DEF Locking, WriteLock, ReadLock
  <2>2. absPhase' = absPhase /\ absRet' = absRet
    BY <1>0, <2>1, AbsMove DEF SpinLock, PhaseOf, RetOf
  <2>3. QED
    BY <2>1, <2>2, StoreKept DEF SpinLock, Map!vars
<1>4. CASE WriteSkip(t) \/ ReadSkip(t)
  BY <1>4, StoreKept DEF WriteSkip, ReadSkip, Skip, Map!vars, absPhase, absRet
<1>5. CASE WriteUpdate(t) \/ WriteAddHead(t)
  <2>1. absStore' = [absStore EXCEPT ![key[t]] = val[t]]
    BY <1>5, UpdateStore, AddHeadStore
  <2>2. /\ absPhase' = [absPhase EXCEPT ![t] = "done"]
        /\ absPhase[t] = "write"
        /\ absRet' = [absRet EXCEPT ![t] = 0]
    BY <1>0, <1>5, AbsMove DEF WriteUpdate, WriteAddHead, PhaseOf, RetOf
  <2>3. Map!DoWrite(t)
    BY <1>5, <2>1, <2>2 DEF WriteUpdate, WriteAddHead, Map!DoWrite
  <2>4. QED
    BY <2>3 DEF Map!Next
<1>6. CASE WriteKmalloc(t)
  <2>1. absStore' = absStore
    BY <1>6, StoreKept DEF WriteKmalloc
  <2>2. CASE pc' = [pc EXCEPT ![t] = "w_add"]
    <3>1. absPhase' = absPhase /\ absRet' = absRet
      BY <1>0, <1>6, <2>2, AbsMove DEF WriteKmalloc, PhaseOf, RetOf
    <3>2. QED
      BY <1>6, <2>1, <3>1 DEF WriteKmalloc, Map!vars
  <2>3. CASE pc' = [pc EXCEPT ![t] = "w_fail"]
    <3>1. \A i \in DOMAIN chain[bucket(t)] : chain[bucket(t)][i].key # key[t]
      <4>1. chain[bucket(t)] \in Seq(Node)
        BY <1>0, BucketInRange DEF TypeOK
      <4>2. DOMAIN chain[bucket(t)] = 1 .. Len(chain[bucket(t)])
        BY <4>1
      <4>3. QED
        BY <1>0, <1>6, <4>2 DEF WriteKmalloc, ThreadInv
    <3>2. absStore[key[t]] = Missing
      BY <1>0, <3>1, LookupAbsent DEF absStore, bucket, TypeOK
    <3>3. /\ absPhase' = [absPhase EXCEPT ![t] = "done"]
          /\ absPhase[t] = "write"
          /\ absRet' = [absRet EXCEPT ![t] = -1]
      BY <1>0, <1>6, <2>3, AbsMove DEF WriteKmalloc, PhaseOf, RetOf
    <3>4. Map!FailWrite(t)
      BY <1>6, <2>1, <3>2, <3>3 DEF WriteKmalloc, Map!FailWrite
    <3>5. QED
      BY <3>4 DEF Map!Next
  <2>4. QED
    BY <1>6, <2>2, <2>3 DEF WriteKmalloc
<1>7. CASE WriteReturn(t) \/ WriteFail(t) \/ ReadMissReturn(t)
  <2>1. PICK from \in {"w_unlock", "w_fail", "r_miss"}, r \in {0, -1} :
          SpinUnlock(t, from, "idle", r) /\ RetOf(from, ret[t]) = r
    BY <1>7 DEF WriteReturn, WriteFail, ReadMissReturn, RetOf
  <2>2. absStore' = absStore
    BY <2>1, StoreKept DEF SpinUnlock
  <2>3. /\ pc[t] = from /\ pc'[t] = "idle" /\ ret'[t] = r
        /\ \A u \in Threads \ {t} : pc'[u] = pc[u] /\ ret'[u] = ret[u]
    BY <1>0, <2>1 DEF SpinUnlock, TypeOK
  <2>4. /\ absPhase' = [absPhase EXCEPT ![t] = "idle"]
        /\ absPhase[t] = "done"
        /\ absRet' = [absRet EXCEPT ![t] = r]
        /\ absRet[t] = r
    BY <1>0, <2>1, <2>3, AbsThread DEF PhaseOf, RetOf
  <2>5. absRet' = absRet
    BY <2>4 DEF absRet
  <2>6. Map!Return(t)
    BY <2>1, <2>2, <2>4, <2>5 DEF SpinUnlock, Map!Return
  <2>7. QED
    BY <2>6 DEF Map!Next
<1>8. CASE ReadScanEnd(t)
  <2>1. absStore' = absStore
    BY <1>8, StoreKept DEF ReadScanEnd
  <2>2. \A i \in DOMAIN chain[bucket(t)] : chain[bucket(t)][i].key # key[t]
    <3>1. chain[bucket(t)] \in Seq(Node)
      BY <1>0, BucketInRange DEF TypeOK
    <3>2. DOMAIN chain[bucket(t)] = 1 .. Len(chain[bucket(t)])
      BY <3>1
    <3>3. QED
      BY <1>0, <1>8, <3>2 DEF ReadScanEnd, ThreadInv
  <2>3. absStore[key[t]] = Missing
    BY <1>0, <2>2, LookupAbsent DEF absStore, bucket, TypeOK
  <2>4. /\ absPhase' = [absPhase EXCEPT ![t] = "done"]
        /\ absPhase[t] = "read"
        /\ absRet' = [absRet EXCEPT ![t] = -1]
    BY <1>0, <1>8, AbsMove DEF ReadScanEnd, PhaseOf, RetOf
  <2>5. Map!DoRead(t)
    BY <1>8, <2>1, <2>3, <2>4 DEF ReadScanEnd, Map!DoRead
  <2>6. QED
    BY <2>5 DEF Map!Next
<1>9. CASE ReadFoundUnlock(t)
  <2>1. ret' = ret
    BY <1>0, <1>9 DEF ReadFoundUnlock, SpinUnlock, TypeOK
  <2>2. absPhase' = absPhase /\ absRet' = absRet
    BY <1>0, <1>9, <2>1, AbsMove DEF ReadFoundUnlock, SpinUnlock, PhaseOf, RetOf
  <2>3. QED
    BY <1>9, <2>2, StoreKept DEF ReadFoundUnlock, SpinUnlock, Map!vars
<1>10. CASE ReadValue(t)
  <2>1. absStore' = absStore
    BY <1>10, StoreKept DEF ReadValue
  <2>2. absStore[key[t]] = chain[bucket(t)][node[t]].value /\ absStore[key[t]] # Missing
    BY <1>0, <1>10, StoreType DEF ReadValue, ThreadInv
  <2>3. /\ absPhase' = [absPhase EXCEPT ![t] = "done"]
        /\ absPhase[t] = "read"
        /\ absRet' = [absRet EXCEPT ![t] = chain[bucket(t)][node[t]].value]
    <3>1. /\ pc[t] = "r_value" /\ pc'[t] = "r_return"
          /\ ret'[t] = chain[bucket(t)][node[t]].value
          /\ \A u \in Threads \ {t} : pc'[u] = pc[u] /\ ret'[u] = ret[u]
      BY <1>0, <1>10 DEF ReadValue, TypeOK
    <3>2. QED
      BY <1>0, <3>1, AbsThread DEF PhaseOf, RetOf
  <2>4. Map!DoRead(t)
    BY <1>10, <2>1, <2>2, <2>3 DEF ReadValue, Map!DoRead
  <2>5. QED
    BY <2>4 DEF Map!Next
<1>11. CASE ReadReturn(t)
  <2>1. absPhase' = [absPhase EXCEPT ![t] = "idle"] /\ absPhase[t] = "done" /\ absRet' = absRet
    BY <1>0, <1>11, AbsMove DEF ReadReturn, PhaseOf, RetOf
  <2>2. Map!Return(t)
    BY <1>11, <2>1, StoreKept DEF ReadReturn, Map!Return
  <2>3. QED
    BY <2>2 DEF Map!Next
<1>12. CASE Call(t)
  BY <1>1, <1>2, <1>12 DEF Call, Map!Next
<1>13. QED
  BY <1>3, <1>4, <1>5, <1>6, <1>7, <1>8, <1>9, <1>10, <1>11, <1>12 DEF Body

\* The empty store is the empty map.
LEMMA RefineInit == Init => Map!Init
  BY KVAssumption DEF Init, Map!Init, absStore, absPhase, absRet, PhaseOf, ValueIn

\* write_kv and read_kv implement an atomic map: every call, a read that loads
\* its value after spin_unlock included, takes effect at one instant.
THEOREM Linearizability == Spec => Linearizable
<1>1. IInv /\ IInv' /\ [Next]_vars => [Map!Next]_(Map!vars)
  <2> SUFFICES ASSUME IInv, IInv', [Next]_vars PROVE [Map!Next]_(Map!vars)
    OBVIOUS
  <2>1. CASE UNCHANGED vars
    BY <2>1, StoreKept DEF vars, Map!vars, absPhase, absRet
  <2>2. QED
    BY <2>1, RefineStep DEF Next
<1>2. QED
  BY <1>1, RefineInit, InvariantHolds, PTL DEF Spec, Linearizable, Map!Spec
=============================================================================
