------------------------------ MODULE KVStore ------------------------------
(***************************************************************************)
(* The per-process key/value store: system calls write_kv and read_kv of   *)
(* kvm/linux-5.15.178/kernel/kv_store.c, called by the threads of one      *)
(* thread group, which share kv_store and kv_locks (kernel/fork.c).        *)
(*                                                                         *)
(* A bucket is a list to which nodes are only ever added, at the head.  It *)
(* is kept here oldest node first, so that a struct kv_node * is a         *)
(* position that never moves: the head is position Len(chain[b]), the      *)
(* node after position i is i - 1, and 0 is the NULL that ends the list.   *)
(***************************************************************************)
EXTENDS Integers, Sequences

CONSTANTS Threads,   \* the threads of the group
          Keys,      \* the keys they use
          Values,    \* the values they write
          NBUCKETS,  \* 1024 in the code
          NoThread,  \* the owner of a free spinlock
          Missing    \* the value of an absent key, in the abstract map only

(***************************************************************************)
(* C's % truncates towards zero: a negative key gets a negative remainder. *)
(***************************************************************************)
Bucket(k) == IF k >= 0 THEN k % NBUCKETS ELSE -((-k) % NBUCKETS)

Buckets == 0 .. NBUCKETS - 1

(***************************************************************************)
(* Neither call checks its key, and a key whose remainder is negative      *)
(* indexes both arrays before their start.  The model is of callers that   *)
(* stay inside the arrays, as every test in the repository does.           *)
(***************************************************************************)
ASSUME KVAssumption ==
  /\ NBUCKETS \in Nat \ {0}
  /\ Keys \subseteq Int
  /\ \A k \in Keys : Bucket(k) \in Buckets
  /\ Values \subseteq Int
  /\ NoThread \notin Threads
  /\ Missing \notin Values

VARIABLES chain,     \* chain[b]: the nodes of bucket b, oldest first
          lock,      \* lock[b]: the holder of kv_locks[b]
          pc,        \* where each thread is
          key, val,  \* the arguments of its call
          node,      \* its local variable node, a position in its bucket
          ret        \* the result of its last call

vars == <<chain, lock, pc, key, val, node, ret>>

Node == [key : Keys, value : Values]

Init ==
  /\ chain = [b \in Buckets |-> <<>>]
  /\ lock = [b \in Buckets |-> NoThread]
  /\ pc = [t \in Threads |-> "idle"]
  /\ key \in [Threads -> Keys]
  /\ val \in [Threads -> Values]
  /\ node = [t \in Threads |-> 0]
  /\ ret = [t \in Threads |-> 0]

bucket(t) == Bucket(key[t])

(***************************************************************************)
(* The steps both calls share: spin_lock, and the node the scan looks at.  *)
(***************************************************************************)
SpinLock(t, from, to) ==
  /\ pc[t] = from
  /\ lock[bucket(t)] = NoThread
  /\ lock' = [lock EXCEPT ![bucket(t)] = t]
  /\ node' = [node EXCEPT ![t] = Len(chain[bucket(t)])]
  /\ pc' = [pc EXCEPT ![t] = to]
  /\ UNCHANGED <<chain, key, val, ret>>

SpinUnlock(t, from, to, result) ==
  /\ pc[t] = from
  /\ lock' = [lock EXCEPT ![bucket(t)] = NoThread]
  /\ ret' = [ret EXCEPT ![t] = result]
  /\ pc' = [pc EXCEPT ![t] = to]
  /\ UNCHANGED <<chain, key, val, node>>

Matches(t) == node[t] > 0 /\ chain[bucket(t)][node[t]].key = key[t]

Skip(t, at) ==
  /\ pc[t] = at
  /\ node[t] > 0
  /\ ~Matches(t)
  /\ node' = [node EXCEPT ![t] = @ - 1]
  /\ UNCHANGED <<chain, lock, pc, key, val, ret>>

(***************************************************************************)
(* write_kv(key, value)                                                    *)
(***************************************************************************)
WriteCall(t, k, v) ==
  /\ pc[t] = "idle"
  /\ key' = [key EXCEPT ![t] = k]
  /\ val' = [val EXCEPT ![t] = v]
  /\ pc' = [pc EXCEPT ![t] = "w_lock"]
  /\ UNCHANGED <<chain, lock, node, ret>>

WriteLock(t) == SpinLock(t, "w_lock", "w_scan")

WriteSkip(t) == Skip(t, "w_scan")

\* Mutant: the node found is deleted and a new one linked in its place.
WriteReplace(t) ==
  /\ pc[t] = "w_scan"
  /\ Matches(t)
  /\ chain' = [chain EXCEPT ![bucket(t)] =
                 Append(SubSeq(@, 1, node[t] - 1) \o SubSeq(@, node[t] + 1, Len(@)),
                        [key |-> key[t], value |-> val[t]])]
  /\ pc' = [pc EXCEPT ![t] = "w_unlock"]
  /\ UNCHANGED <<lock, key, val, node, ret>>

WriteUpdate(t) ==
  /\ pc[t] = "w_scan"
  /\ Matches(t)
  /\ chain' = [chain EXCEPT ![bucket(t)][node[t]] = [key |-> @.key, value |-> val[t]]]
  /\ pc' = [pc EXCEPT ![t] = "w_unlock"]
  /\ UNCHANGED <<lock, key, val, node, ret>>

\* Mutant: the lock is dropped around kmalloc and the list not scanned again.
WriteKmallocUnlocked(t) ==
  /\ pc[t] = "w_scan"
  /\ node[t] = 0
  /\ lock' = [lock EXCEPT ![bucket(t)] = NoThread]
  /\ \E next \in {"w_add", "w_fail"} : pc' = [pc EXCEPT ![t] = next]
  /\ UNCHANGED <<chain, key, val, node, ret>>

\* kmalloc, with the spinlock held, succeeds or fails.
WriteKmalloc(t) ==
  /\ pc[t] = "w_scan"
  /\ node[t] = 0
  /\ \E next \in {"w_add", "w_fail"} : pc' = [pc EXCEPT ![t] = next]
  /\ UNCHANGED <<chain, lock, key, val, node, ret>>

WriteAddHead(t) ==
  /\ pc[t] = "w_add"
  /\ chain' = [chain EXCEPT ![bucket(t)] = Append(@, [key |-> key[t], value |-> val[t]])]
  /\ pc' = [pc EXCEPT ![t] = "w_unlock"]
  /\ UNCHANGED <<lock, key, val, node, ret>>

WriteReturn(t) == SpinUnlock(t, "w_unlock", "idle", 0)

\* Mutants: a failed allocation is reported as success; it keeps the lock.
WriteFailSilent(t) == SpinUnlock(t, "w_fail", "idle", 0)

WriteFailLocked(t) ==
  /\ pc[t] = "w_fail"
  /\ ret' = [ret EXCEPT ![t] = -1]
  /\ pc' = [pc EXCEPT ![t] = "idle"]
  /\ UNCHANGED <<chain, lock, key, val, node>>

WriteFail(t) == SpinUnlock(t, "w_fail", "idle", -1)

(***************************************************************************)
(* read_kv(key).  The value of a node found is loaded after the unlock.    *)
(***************************************************************************)
ReadCall(t, k) ==
  /\ pc[t] = "idle"
  /\ key' = [key EXCEPT ![t] = k]
  /\ pc' = [pc EXCEPT ![t] = "r_lock"]
  /\ UNCHANGED <<chain, lock, val, node, ret>>

ReadLock(t) == SpinLock(t, "r_lock", "r_scan")

ReadSkip(t) == Skip(t, "r_scan")

ReadScanEnd(t) ==
  /\ pc[t] = "r_scan"
  /\ node[t] = 0
  /\ pc' = [pc EXCEPT ![t] = "r_miss"]
  /\ UNCHANGED <<chain, lock, key, val, node, ret>>

ReadMissReturn(t) == SpinUnlock(t, "r_miss", "idle", -1)

ReadFoundUnlock(t) ==
  /\ pc[t] = "r_scan"
  /\ Matches(t)
  /\ SpinUnlock(t, "r_scan", "r_value", ret[t])

ReadValue(t) ==
  /\ pc[t] = "r_value"
  /\ ret' = [ret EXCEPT ![t] = chain[bucket(t)][node[t]].value]
  /\ pc' = [pc EXCEPT ![t] = "r_return"]
  /\ UNCHANGED <<chain, lock, key, val, node>>

ReadReturn(t) ==
  /\ pc[t] = "r_return"
  /\ pc' = [pc EXCEPT ![t] = "idle"]
  /\ UNCHANGED <<chain, lock, key, val, node, ret>>

(***************************************************************************)
(* The specification.                                                      *)
(***************************************************************************)
Call(t) ==
  \/ \E k \in Keys, v \in Values : WriteCall(t, k, v)
  \/ \E k \in Keys : ReadCall(t, k)

Locking(t) == WriteLock(t) \/ ReadLock(t)

Body(t) ==
  \/ WriteSkip(t)
  \/ WriteUpdate(t)
  \/ WriteKmalloc(t)
  \/ WriteAddHead(t)
  \/ WriteReturn(t)
  \/ WriteFail(t)
  \/ ReadSkip(t)
  \/ ReadScanEnd(t)
  \/ ReadMissReturn(t)
  \/ ReadFoundUnlock(t)
  \/ ReadValue(t)
  \/ ReadReturn(t)

Next == \E t \in Threads : Call(t) \/ Locking(t) \/ Body(t)

Spec == Init /\ [][Next]_vars

(***************************************************************************)
(* A thread in the kernel keeps running, and a queued spinlock serves its  *)
(* waiters in turn: a waiter that can take the lock again and again does.  *)
(***************************************************************************)
Fairness == \A t \in Threads : WF_vars(Body(t)) /\ SF_vars(Locking(t))

FairSpec == Spec /\ Fairness

-----------------------------------------------------------------------------

WriteStates == {"w_lock", "w_scan", "w_add", "w_fail", "w_unlock"}
ReadStates == {"r_lock", "r_scan", "r_miss", "r_value", "r_return"}
LockedStates == {"w_scan", "w_add", "w_fail", "w_unlock", "r_scan", "r_miss"}

\* The type invariant of the store and of the calls in progress.
TypeOK ==
  /\ chain \in [Buckets -> Seq(Node)]
  /\ lock \in [Buckets -> Threads \cup {NoThread}]
  /\ pc \in [Threads -> {"idle"} \cup WriteStates \cup ReadStates]
  /\ key \in [Threads -> Keys]
  /\ val \in [Threads -> Values]
  /\ node \in [Threads -> Nat]
  /\ ret \in [Threads -> Int]

\* A bucket never holds two nodes of one key, although the scan for the key
\* and the insertion are separate steps of write_kv: a second node would hide
\* the first, and the two could later disagree.
UniqueKeys ==
  \A b \in Buckets : \A i, j \in DOMAIN chain[b] :
    chain[b][i].key = chain[b][j].key => i = j

\* A thread between spin_lock and spin_unlock holds the lock of its bucket.
HoldsLock ==
  \A t \in Threads : pc[t] \in LockedStates => lock[bucket(t)] = t

\* A node is in the bucket its key hashes to, so the scan of that one bucket
\* is enough to find it.
RightBucket ==
  \A b \in Buckets : \A i \in DOMAIN chain[b] : Bucket(chain[b][i].key) = b

\* The nodes a locked scan has passed do not hold its key, and one about to
\* insert or to report a miss has passed them all.
ScanSound ==
  \A t \in Threads :
    /\ pc[t] \in {"w_scan", "r_scan"} =>
         /\ node[t] \in 0 .. Len(chain[bucket(t)])
         /\ \A i \in DOMAIN chain[bucket(t)] :
              i > node[t] => chain[bucket(t)][i].key # key[t]
    /\ pc[t] \in {"w_add", "w_fail", "r_miss"} =>
         \A i \in DOMAIN chain[bucket(t)] : chain[bucket(t)][i].key # key[t]

\* read_kv dereferences node after it gave up the lock: the node must still be
\* the one of its key, whatever the other threads did in between.
NodeStillValid ==
  \A t \in Threads : pc[t] = "r_value" =>
    /\ node[t] \in DOMAIN chain[bucket(t)]
    /\ chain[bucket(t)][node[t]].key = key[t]

\* The inductive invariant behind UniqueKeys, NodeStillValid and Linearizable:
\* mutual exclusion per bucket, nodes filed under their hash, scans that miss
\* nothing.
IInv ==
  TypeOK /\ UniqueKeys /\ HoldsLock /\ RightBucket /\ ScanSound /\ NodeStillValid

\* Every call returns: no path leaves a lock behind, and none waits for ever.
CallsReturn == \A t \in Threads : pc[t] # "idle" ~> pc[t] = "idle"

-----------------------------------------------------------------------------
(***************************************************************************)
(* The calls implement the atomic map of KVMap.tla.  A write takes effect  *)
(* when it stores its value or links its node, a failing one when kmalloc  *)
(* fails, a read that finds nothing when its scan ends, and a read that    *)
(* finds a node when it loads the value, after its unlock.                 *)
(***************************************************************************)
ValueIn(list, k) ==
  IF \E i \in DOMAIN list : list[i].key = k
  THEN list[CHOOSE i \in DOMAIN list : list[i].key = k].value
  ELSE Missing

absStore == [k \in Keys |-> ValueIn(chain[Bucket(k)], k)]

PhaseOf(p) ==
  IF p = "idle" THEN "idle"
  ELSE IF p \in {"w_lock", "w_scan", "w_add"} THEN "write"
  ELSE IF p \in {"r_lock", "r_scan", "r_value"} THEN "read"
  ELSE "done"

absPhase == [t \in Threads |-> PhaseOf(pc[t])]

absRet ==
  [t \in Threads |-> IF pc[t] = "w_unlock" THEN 0
                     ELSE IF pc[t] \in {"w_fail", "r_miss"} THEN -1
                     ELSE ret[t]]

Map == INSTANCE KVMap WITH store <- absStore, phase <- absPhase, ret <- absRet

\* Every behaviour of the two system calls is one of the atomic map: they are
\* linearizable, the read of node->value after spin_unlock included.
Linearizable == Map!Spec
=============================================================================
