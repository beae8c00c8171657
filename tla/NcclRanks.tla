------------------------------ MODULE NcclRanks ------------------------------
(***************************************************************************)
(* The NCCL benchmark over several nodes (network/nccl/nccl_multi_node.cu):*)
(* each MPI rank drives one GPU through warm-ups and a timed broadcast,    *)
(* then warm-ups and a timed all-reduce, for each size, with MPI barriers  *)
(* in between.  A failed CUDA or NCCL call exits its process alone; a      *)
(* failed MPI call aborts them all.                                        *)
(*                                                                         *)
(* MPI and NCCL match the calls of the ranks by their order alone.  A      *)
(* buffer is one number: all its elements go through the same steps.       *)
(***************************************************************************)
EXTENDS Naturals, Sequences, FiniteSets, FiniteSetsExt, SequencesExt

CONSTANTS WorldSize,
          Devices, \* what cudaGetDeviceCount may say
          Rounds,  \* how many sizes are run
          Warmups  \* 3 in the code

Ranks == 0 .. WorldSize - 1

\* The random number of rank 0, unlike any other value.
Random == WorldSize * (WorldSize + 1)
Share(r) == r + 1
ExpectedSum == MapThenSumSet(Share, Ranks)

\* Mutant: the timed all-reduce follows its warm-ups at once.
RoundUnaligned ==
  <<"alloc", "barrier">> \o [i \in 1 .. Warmups |-> "warm_broadcast"]
    \o <<"barrier", "broadcast", "reduce", "copy", "barrier", "init">>
    \o [i \in 1 .. Warmups |-> "warm_sum"] \o <<"sum", "reduce", "verify", "free">>

\* The loop body: the calls of one size, in order.
Round ==
  <<"alloc", "barrier">> \o [i \in 1 .. Warmups |-> "warm_broadcast"]
    \o <<"barrier", "broadcast", "reduce", "copy", "barrier", "init">>
    \o [i \in 1 .. Warmups |-> "warm_sum"] \o <<"barrier", "sum", "reduce", "verify", "free">>

Program ==
  <<"device", "id", "comm_init", "barrier">> \o FlattenSeq([i \in 1 .. Rounds |-> Round])
    \o <<"destroy">>

Nccl == {"comm_init", "warm_broadcast", "broadcast", "warm_sum", "sum"}
Sums == {"warm_sum", "sum"}
Mpi == {"id", "barrier", "reduce"}
Exited == Len(Program) + 2

VARIABLES devices,
          pos,       \* pos[r]: the call r is at, in Program
          inside,    \* the ranks that have made the call and wait
          mpiCalls,  \* mpiCalls[r]: MPI calls made
          ncclCalls, \* ncclCalls[r]: NCCL calls made
          given,     \* given[k][r]: kind and value of r's k-th NCCL call
          send, recv,
          verdict    \* verdict[r]: of the latest verification

bufVars == <<send, recv, verdict>>
callVars == <<inside, mpiCalls, ncclCalls, given>>
vars == <<devices, pos, callVars, bufVars>>

At(r) == IF pos[r] \in DOMAIN Program THEN Program[pos[r]] ELSE "over"
Advance(r) == pos' = [pos EXCEPT ![r] = @ + 1]

\* MPI_Init and cudaGetDeviceCount
Init ==
  /\ devices \in Devices
  /\ pos = [r \in Ranks |-> 1]
  /\ inside = {}
  /\ mpiCalls = [r \in Ranks |-> 0]
  /\ ncclCalls = [r \in Ranks |-> 0]
  /\ given = <<>>
  /\ send = [r \in Ranks |-> 0] /\ recv = [r \in Ranks |-> 0]
  /\ verdict = [r \in Ranks |-> "none"]

\* cudaSetDevice, or MPI_Abort when there are more ranks than devices.
SetDevice(r) ==
  /\ At(r) = "device"
  /\ IF WorldSize > devices THEN pos' = [q \in Ranks |-> Exited] ELSE Advance(r)
  /\ UNCHANGED <<devices, callVars, bufVars>>

-----------------------------------------------------------------------------
\* external: a call of MPI is made, and returns once the ranks it depends on
\* have made theirs: all of them for a barrier, rank 0 for the broadcast of
\* the id, and for a reduce nobody, except at rank 0.
MpiCall(r) ==
  /\ At(r) \in Mpi /\ r \notin inside
  /\ inside' = inside \cup {r}
  /\ mpiCalls' = [mpiCalls EXCEPT ![r] = @ + 1]
  /\ UNCHANGED <<devices, pos, ncclCalls, given, bufVars>>

WaitsFor(r) ==
  CASE At(r) = "id" -> {0}
    [] At(r) = "reduce" /\ r # 0 -> {}
    [] OTHER -> Ranks

MpiReturn(r) ==
  /\ At(r) \in Mpi /\ r \in inside
  /\ \A q \in WaitsFor(r) : mpiCalls[q] >= mpiCalls[r]
  /\ inside' = inside \ {r}
  /\ Advance(r)
  /\ UNCHANGED <<devices, mpiCalls, ncclCalls, given, bufVars>>

\* A collective of NCCL is queued on the stream with what is in sendbuf, and
\* cudaStreamSynchronize waits for it.
NcclCall(r) ==
  /\ At(r) \in Nccl /\ r \notin inside
  /\ inside' = inside \cup {r}
  /\ ncclCalls' = [ncclCalls EXCEPT ![r] = @ + 1]
  /\ LET call == [kind |-> At(r), value |-> send[r]]
         k == ncclCalls[r] + 1
     IN  given' = IF k \in DOMAIN given THEN [given EXCEPT ![k] = (r :> call) @@ @]
                  ELSE Append(given, r :> call)
  /\ UNCHANGED <<devices, pos, mpiCalls, bufVars>>

\* external: what a collective does for r once all ranks have joined it.  The
\* broadcast is in place; the sum goes to recvbuf.
NcclReturn(r) ==
  /\ At(r) \in Nccl /\ r \in inside
  /\ LET joined == given[ncclCalls[r]]
     IN  /\ DOMAIN joined = Ranks
         /\ send' = IF At(r) \in {"warm_broadcast", "broadcast"}
                    THEN [send EXCEPT ![r] = joined[0].value] ELSE send
         /\ recv' = IF At(r) \in Sums
                    THEN [recv EXCEPT ![r] = MapThenSumSet(LAMBDA q : joined[q].value, Ranks)]
                    ELSE recv
  /\ inside' = inside \ {r}
  /\ Advance(r)
  /\ UNCHANGED <<devices, mpiCalls, ncclCalls, given, verdict>>

-----------------------------------------------------------------------------
\* The buffers of a size: random numbers at rank 0, zeros elsewhere.
Alloc(r) ==
  /\ At(r) = "alloc"
  /\ send' = [send EXCEPT ![r] = IF r = 0 THEN Random ELSE 0]
  /\ recv' = [recv EXCEPT ![r] = 0]
  /\ verdict' = [verdict EXCEPT ![r] = "none"]
  /\ Advance(r)
  /\ UNCHANGED <<devices, callVars>>

\* The broadcast's result is copied back after its reduce, and not looked at.
CopyBack(r) ==
  /\ At(r) = "copy"
  /\ Advance(r)
  /\ UNCHANGED <<devices, callVars, bufVars>>

\* Both buffers are set for the all-reduce.
Reinit(r) ==
  /\ At(r) = "init"
  /\ send' = [send EXCEPT ![r] = Share(r)]
  /\ recv' = [recv EXCEPT ![r] = 0]
  /\ Advance(r)
  /\ UNCHANGED <<devices, callVars, verdict>>

\* Each rank compares its own result; rank 0 speaks for all of them.
Verify(r) ==
  /\ At(r) = "verify"
  /\ verdict' = [verdict EXCEPT ![r] = IF recv[r] = ExpectedSum THEN "ok" ELSE "wrong"]
  /\ Advance(r)
  /\ UNCHANGED <<devices, callVars, send, recv>>

\* cudaFree: what was in the memory stays there for the next cudaMalloc.
Release(r) ==
  /\ At(r) \in {"free", "destroy"}
  /\ Advance(r)
  /\ UNCHANGED <<devices, callVars, bufVars>>

\* CUDA_CHECK or NCCL_CHECK fails: this process exits.
CheckFails(r) ==
  /\ At(r) \notin {"over", "destroy"} \cup Mpi
  /\ pos' = [pos EXCEPT ![r] = Exited]
  /\ UNCHANGED <<devices, callVars, bufVars>>

\* MPI_CHECK fails: MPI_Abort ends all of them.
MpiFails(r) ==
  /\ At(r) \in Mpi
  /\ pos' = [q \in Ranks |-> Exited]
  /\ UNCHANGED <<devices, callVars, bufVars>>

Work(r) ==
  \/ SetDevice(r) \/ MpiCall(r) \/ MpiReturn(r) \/ NcclCall(r) \/ NcclReturn(r)
  \/ Alloc(r) \/ CopyBack(r) \/ Reinit(r) \/ Verify(r) \/ Release(r)

Next == \E r \in Ranks : Work(r) \/ CheckFails(r) \/ MpiFails(r)

Spec == Init /\ [][Next]_vars
-----------------------------------------------------------------------------
\* Every variable has its type.
TypeOK ==
  /\ pos \in [Ranks -> 1 .. Exited]
  /\ inside \subseteq Ranks
  /\ mpiCalls \in [Ranks -> Nat] /\ ncclCalls \in [Ranks -> Nat]
  /\ send \in [Ranks -> Nat] /\ recv \in [Ranks -> Nat]
  /\ verdict \in [Ranks -> {"none", "ok", "wrong"}]

Running(r) == pos[r] \in DOMAIN Program
Before(r, q, S) == Running(q) /\ pos[q] < pos[r] /\ \E i \in pos[q] .. pos[r] - 1 : Program[i] \in S

\* The barriers that r has left, and those that q has come to.
Left(r) == Cardinality({i \in 1 .. pos[r] - 1 : Program[i] = "barrier"})
Reached(q) == Left(q) + IF At(q) = "barrier" /\ q \in inside THEN 1 ELSE 0

\* What the benchmark prints is so, whatever the order of the ranks and
\* whichever of them have exited: calls that are matched are of one kind; a
\* verification never fails, and when rank 0 reports success every rank that
\* is past the timed all-reduce has the sum; a rank measures a collective only
\* when no other is still warming up; no rank has left a barrier that another
\* one that is running has not come to; and only if some process has exited
\* can the others wait for ever (main of nccl_multi_node.cu).
RanksSound ==
  /\ \A k \in DOMAIN given : \A r, q \in DOMAIN given[k] : given[k][r].kind = given[k][q].kind
  /\ \A r \in Ranks : verdict[r] # "wrong"
  /\ verdict[0] = "ok" /\ Running(0) =>
       \A q \in Ranks : At(q) \in {"reduce", "verify", "free"} => recv[q] = ExpectedSum
  /\ \A r, q \in Ranks : r \in inside /\ At(r) \in {"broadcast", "sum"} =>
       ~Before(r, q, {"warm_broadcast", "warm_sum"})
  /\ \A r, q \in {p \in Ranks : Running(p)} : Left(r) <= Reached(q)
  /\ (\A r \in Ranks : pos[r] # Exited) /\ (\E r \in Ranks : Running(r)) =>
       \E r \in Ranks : ENABLED Work(r)
=============================================================================
