----------------------------- MODULE NcclThreads -----------------------------
(***************************************************************************)
(* The NCCL benchmark in one process (network/nccl/nccl.cu): main prepares *)
(* the buffers of two GPUs, starts a thread for each, joins them, copies   *)
(* the results back and judges them, first for a broadcast and then for an *)
(* all-reduce.  A thread drops the result of its NCCL call, so what main   *)
(* prints rests on the contents of the buffers alone.                      *)
(***************************************************************************)
EXTENDS Naturals, FiniteSets

CONSTANTS GpuCounts, \* what cudaGetDeviceCount may say
          SizeCount  \* how many sizes are run

ASSUME BenchSizes == GpuCounts \subseteq Nat /\ SizeCount \in Nat

Devs == {0, 1}

\* The random number of device 0, unlike any other value.
Random == 9
Share(d) == d + 1
Total(buff) == buff[0] + buff[1]
ExpectedSum == Total([d \in Devs |-> Share(d)])

VARIABLES mainAt,   \* where main is
          size,     \* the index s of the loop
          op,       \* op_type: "broadcast" or "sum"
          thread,   \* thread[d]: what the thread of device d is doing
          joined,   \* the devices whose NCCL call was accepted
          sendbuff, recvbuff, hostbuff,
          said      \* what main says of the operation

deviceVars == <<sendbuff, recvbuff, hostbuff>>
threadsVars == <<mainAt, size, op, thread, joined, deviceVars, said>>

\* ncclCommInitAll, unless there are fewer than two GPUs.
ThreadsInit ==
  /\ \E n \in GpuCounts : mainAt = IF n < 2 THEN "return" ELSE "alloc"
  /\ size = 1 /\ op = "broadcast"
  /\ thread = [d \in Devs |-> "none"]
  /\ joined = {}
  /\ sendbuff = [d \in Devs |-> 0] /\ recvbuff = [d \in Devs |-> 0]
  /\ hostbuff = [d \in Devs |-> 0]
  /\ said = "nothing"

\* Mutant: recvbuff is taken as cudaMalloc returns it.
AllocDirty ==
  /\ mainAt = "alloc"
  /\ hostbuff' = [d \in Devs |-> IF d = 0 THEN Random ELSE 0]
  /\ sendbuff' = hostbuff'
  /\ op' = "broadcast"
  /\ said' = "nothing"
  /\ mainAt' = "start"
  /\ UNCHANGED <<size, thread, joined, recvbuff>>

\* The buffers of a size; the memory holds what the last size left in it.
Alloc ==
  /\ mainAt = "alloc"
  /\ hostbuff' = [d \in Devs |-> IF d = 0 THEN Random ELSE 0]
  /\ sendbuff' = hostbuff'
  /\ recvbuff' = [d \in Devs |-> 0]
  /\ op' = "broadcast"
  /\ said' = "nothing"
  /\ mainAt' = "start"
  /\ UNCHANGED <<size, thread, joined>>

\* pthread_create, one device at a time; the first may be done by then.
Start(d) ==
  /\ mainAt = "start"
  /\ thread[d] = "none" /\ \A e \in Devs : e < d => thread[e] # "none"
  /\ thread' = [thread EXCEPT ![d] = "call"]
  /\ mainAt' = IF d = 1 THEN "join" ELSE mainAt
  /\ UNCHANGED <<size, op, joined, deviceVars, said>>

\* pthread_create fails, and nobody looks at what it returns.
StartFails(d) ==
  /\ mainAt = "start"
  /\ thread[d] = "none" /\ \A e \in Devs : e < d => thread[e] # "none"
  /\ thread' = [thread EXCEPT ![d] = "unmade"]
  /\ mainAt' = IF d = 1 THEN "join" ELSE mainAt
  /\ UNCHANGED <<size, op, joined, deviceVars, said>>

\* ncclBroadcast or ncclAllReduce, accepted or not; the thread goes on to
\* cudaStreamSynchronize in both cases.
ThreadCall(d, accepted) ==
  /\ thread[d] = "call"
  /\ thread' = [thread EXCEPT ![d] = "sync"]
  /\ joined' = IF accepted THEN joined \cup {d} ELSE joined
  /\ UNCHANGED <<mainAt, size, op, deviceVars, said>>

\* A stream without work is done at once.
SyncNothing(d) ==
  /\ thread[d] = "sync" /\ d \notin joined
  /\ thread' = [thread EXCEPT ![d] = "done"]
  /\ UNCHANGED <<mainAt, size, op, joined, deviceVars, said>>

\* external: the collective, once both devices have joined it.
Sync(d) ==
  /\ thread[d] = "sync" /\ joined = Devs
  /\ thread' = [thread EXCEPT ![d] = "done"]
  /\ IF op = "broadcast"
     THEN sendbuff' = [sendbuff EXCEPT ![d] = sendbuff[0]] /\ UNCHANGED recvbuff
     ELSE /\ recvbuff' = [recvbuff EXCEPT ![d] = Total(sendbuff)]
          /\ UNCHANGED sendbuff
  /\ UNCHANGED <<mainAt, size, op, joined, hostbuff, said>>

\* pthread_join of both, and cudaDeviceSynchronize.
Join ==
  /\ mainAt = "join"
  /\ \A d \in Devs : thread[d] = "done"
  /\ thread' = [d \in Devs |-> "none"]
  /\ mainAt' = "copy"
  /\ UNCHANGED <<size, op, joined, deviceVars, said>>

\* The join of a handle that pthread_create has not written is undefined: it
\* returns at once, or ends the process, or never returns (main takes no step).
JoinUnmade ==
  /\ mainAt = "join"
  /\ \E d \in Devs : thread[d] = "unmade"
  /\ \A d \in Devs : thread[d] \in {"done", "unmade"}
  /\ thread' = [d \in Devs |-> "none"]
  /\ mainAt' = "copy"
  /\ UNCHANGED <<size, op, joined, deviceVars, said>>

JoinCrashes ==
  /\ mainAt = "join"
  /\ \E d \in Devs : /\ thread[d] = "unmade"
                     /\ \A e \in Devs : e < d => thread[e] \in {"done", "unmade"}
  /\ thread' = [d \in Devs |-> "none"]
  /\ mainAt' = "exited"
  /\ UNCHANGED <<size, op, joined, deviceVars, said>>

\* cudaMemcpy to the host: sendbuff after the broadcast, recvbuff else.
CopyBack ==
  /\ mainAt = "copy"
  /\ hostbuff' = IF op = "broadcast" THEN sendbuff ELSE recvbuff
  /\ mainAt' = "judge"
  /\ UNCHANGED <<size, op, thread, joined, sendbuff, recvbuff, said>>

\* The broadcast is right if the devices agree, the sum if both have it.
Judge ==
  /\ mainAt = "judge"
  /\ LET right == IF op = "broadcast" THEN \A d \in Devs : hostbuff[d] = hostbuff[0]
                  ELSE \A d \in Devs : hostbuff[d] = ExpectedSum
     IN  said' = IF right THEN "success" ELSE "failure"
  /\ mainAt' = IF op = "broadcast" THEN "init" ELSE "free"
  /\ UNCHANGED <<size, op, thread, joined, deviceVars>>

\* The numbers of the all-reduce; recvbuff is as it was.
Reinit ==
  /\ mainAt = "init"
  /\ op' = "sum"
  /\ hostbuff' = [d \in Devs |-> Share(d)]
  /\ sendbuff' = hostbuff'
  /\ joined' = {}
  /\ said' = "nothing"
  /\ mainAt' = "start"
  /\ UNCHANGED <<size, thread, recvbuff>>

\* The buffers are freed; the next size, or ncclCommDestroy.
FreeBuffers ==
  /\ mainAt = "free"
  /\ size' = size + 1
  /\ joined' = {}
  /\ mainAt' = IF size < SizeCount THEN "alloc" ELSE "return"
  /\ UNCHANGED <<op, thread, deviceVars, said>>

\* CUDA_CHECK fails in main or in a thread: exit ends the process.
ThreadsCheckFails ==
  /\ mainAt \notin {"return", "exited"}
  /\ mainAt' = "exited"
  /\ thread' = [d \in Devs |-> "none"]
  /\ UNCHANGED <<size, op, joined, deviceVars, said>>

ThreadsWork ==
  \/ Alloc \/ Join \/ CopyBack \/ Judge \/ Reinit \/ FreeBuffers
  \/ \E d \in Devs : Start(d) \/ Sync(d) \/ SyncNothing(d) \/ \E b \in BOOLEAN : ThreadCall(d, b)

ThreadsNext ==
  \/ ThreadsWork \/ ThreadsCheckFails \/ JoinUnmade \/ JoinCrashes
  \/ \E d \in Devs : StartFails(d)

ThreadsSpec == ThreadsInit /\ [][ThreadsNext]_threadsVars
-----------------------------------------------------------------------------
\* Every variable has its type.
ThreadsTypeOK ==
  /\ mainAt \in {"alloc", "start", "join", "copy", "judge", "init", "free", "return", "exited"}
  /\ op \in {"broadcast", "sum"}
  /\ thread \in [Devs -> {"none", "unmade", "call", "sync", "done"}]
  /\ joined \subseteq Devs
  /\ \A b \in {sendbuff, recvbuff, hostbuff} : b \in [Devs -> Nat]
  /\ said \in {"nothing", "success", "failure"}

\* A verdict is about the operation just run, although a thread drops the
\* result of its NCCL call and main that of pthread_create: success is said
\* exactly when both devices took part in the collective, never because a
\* buffer still held the right data (main and nccl_thread_func of nccl.cu).
VerdictHonest ==
  /\ said = "success" => joined = Devs \/ mainAt \in {"alloc", "return", "exited"}
  /\ said = "failure" => joined = {} \/ mainAt \in {"alloc", "return", "exited"}

\* main waits in pthread_join for ever only after NCCL has refused the call of
\* one thread and taken that of the other, or if a thread was never made.
StuckByHalf ==
  mainAt \notin {"return", "exited"} /\ ~ENABLED ThreadsWork =>
    Cardinality(joined) = 1 \/ \E d \in Devs : thread[d] = "unmade"
=============================================================================
