--------------------------- MODULE TcpCollective ----------------------------
(***************************************************************************)
(* The benchmark of network/nccl/tcp_ip_test.cpp: after they have          *)
(* connected (TcpConnect), the ranks run the same straight-line program of *)
(* barriers, broadcasts, all-reduces and gathers over their byte streams.  *)
(*                                                                         *)
(* A rank's program is the sequence of its sends, receives and local       *)
(* steps.  A stream has no message boundaries: tcp_send and tcp_recv move  *)
(* one chunk at a time, and the tag of a chunk, which the receiver cannot  *)
(* see, records what it was sent for.  A signal or a time is one chunk.    *)
(* Floats are numerators: rank r contributes r + 1 to the sum.             *)
(***************************************************************************)
EXTENDS TcpConnect

CONSTANTS SIZES,    \* sizes of the buffers tested, in chunks (1 to 256 MB in the code)
          ROUNDS,   \* warm-up and timed runs of each collective (4 in the code)
          CAP,      \* chunks that a connection buffers
          RAND,     \* what rank 0 broadcasts
          JUNK      \* the contents of fresh memory

ASSUME CollectiveAssumption ==
  /\ SIZES \in Seq(Nat \ {0})
  /\ {ROUNDS, CAP} \subseteq Nat \ {0}
  /\ {RAND, JUNK} \subseteq Nat
  /\ RAND # 0

VARIABLES ip,      \* ip[r]: the operation rank r is at
          off,     \* off[r]: chunks of it that are done
          sendbuf, recvbuf

vars == <<connectVars, ip, off, sendbuf, recvbuf>>

-----------------------------------------------------------------------------
(***************************************************************************)
(* The program of rank r.                                                  *)
(***************************************************************************)
SendOp(peer, tag, buf, len) == [op |-> "send", peer |-> peer, tag |-> tag, buf |-> buf, len |-> len]
RecvOp(peer, tag, buf, len) == [op |-> "recv", peer |-> peer, tag |-> tag, buf |-> buf, len |-> len]
LocalOp(op, tag, len) == [op |-> op, peer |-> 0, tag |-> tag, buf |-> "none", len |-> len]

FromAll(tag, buf, len) == [i \in 1 .. N - 1 |-> RecvOp(i, tag, buf, len)]
ToAll(tag, buf, len) == [i \in 1 .. N - 1 |-> SendOp(i, tag, buf, len)]

\* Mutant: a rank waits for the start signal before it reports.
BarrierRecvFirst(r, tag) ==
  IF r = 0
    THEN FromAll(tag, "none", 1) \o ToAll(tag, "none", 1)
    ELSE <<RecvOp(0, tag, "none", 1), SendOp(0, tag, "none", 1)>>

\* Rank 0 collects a signal from everyone and then answers everyone.
Barrier(r, tag) ==
  IF r = 0
    THEN FromAll(tag, "none", 1) \o ToAll(tag, "none", 1)
    ELSE <<SendOp(0, tag, "none", 1), RecvOp(0, tag, "none", 1)>>

\* tcp_broadcast, with root 0 as everywhere.
Broadcast(r, tag, buf, len) ==
  IF r = 0 THEN ToAll(tag, buf, len) ELSE <<RecvOp(0, tag, buf, len)>>

\* Mutant: recvbuf is used as the previous run left it.
AllreduceNoCopy(r, tag, len) ==
  (IF r = 0 THEN FromAll(tag, "sum", len) ELSE <<SendOp(0, tag, "recvbuf", len)>>)
  \o Broadcast(r, tag, "recvbuf", len)

\* tcp_allreduce: memcpy, reduce to rank 0 (through temp_buf, added to
\* recvbuf), broadcast from there.
Allreduce(r, tag, len) ==
  <<LocalOp("copy", tag, 1)>>
  \o (IF r = 0 THEN FromAll(tag, "sum", len) ELSE <<SendOp(0, tag, "recvbuf", len)>>)
  \o Broadcast(r, tag, "recvbuf", len)

\* Mutant: rank 0 does not wait for the times.
GatherSkipped(r, tag) == IF r = 0 THEN <<>> ELSE <<SendOp(0, tag, "none", 1)>>

\* The times go to rank 0.
Gather(r, tag) == IF r = 0 THEN FromAll(tag, "none", 1) ELSE <<SendOp(0, tag, "none", 1)>>

\* The body of the loop over the sizes.
TestSize(r, s) ==
  <<LocalOp("alloc", <<"alloc", s>>, SIZES[s])>>
  \o Barrier(r, <<"barrier", 2 * s>>)
  \o FlattenSeq([k \in 1 .. ROUNDS |-> Broadcast(r, <<"broadcast", s, k>>, "sendbuf", SIZES[s])])
  \o <<LocalOp("broadcasted", <<"broadcasted", s>>, 1)>>
  \o Gather(r, <<"time", 2 * s>>)
  \o Barrier(r, <<"barrier", 2 * s + 1>>)
  \o <<LocalOp("fill", <<"fill", s>>, 1)>>
  \o FlattenSeq([k \in 1 .. ROUNDS |-> Allreduce(r, <<"allreduce", s, k>>, SIZES[s])])
  \o <<LocalOp("verify", <<"verify", s>>, 1)>>
  \o Gather(r, <<"time", 2 * s + 1>>)

\* tcp_test_main, once connected.
Program ==
  [r \in Ranks |-> Barrier(r, <<"barrier", 1>>)
                   \o FlattenSeq([s \in 1 .. Len(SIZES) |-> TestSize(r, s)])]

Running(r) == pc[r] = "run" /\ ip[r] <= Len(Program[r])
Op(r) == Program[r][ip[r]]

-----------------------------------------------------------------------------
Init ==
  /\ ConnectInit
  /\ ip = [r \in Ranks |-> 1]
  /\ off = [r \in Ranks |-> 0]
  /\ sendbuf = [r \in Ranks |-> <<>>]
  /\ recvbuf = [r \in Ranks |-> <<>>]

\* One more chunk of the operation is done.
Advance(r) ==
  IF off[r] + 1 < Op(r).len
    THEN off' = [off EXCEPT ![r] = @ + 1] /\ UNCHANGED ip
    ELSE off' = [off EXCEPT ![r] = 0] /\ ip' = [ip EXCEPT ![r] = @ + 1]

NextOp(r) == ip' = [ip EXCEPT ![r] = @ + 1] /\ off' = [off EXCEPT ![r] = 0]

ChunkToSend(r) ==
  [tag |-> Op(r).tag, off |-> off[r],
   val |-> CASE Op(r).buf = "sendbuf" -> sendbuf[r][off[r] + 1]
             [] Op(r).buf = "recvbuf" -> recvbuf[r][off[r] + 1]
             [] OTHER -> 0]

\* A round of the loop of tcp_send.  What is sent to a closed peer is lost, and
\* the answer is a reset.
Send(r) ==
  LET p == Op(r).peer IN
  /\ Running(r) /\ Op(r).op = "send"
  /\ \/ /\ sock[r][p] = "open"
        /\ Len(net[r][p]) < CAP
        /\ net' = [net EXCEPT ![r][p] = Append(@, ChunkToSend(r))]
        /\ UNCHANGED sock
     \/ /\ sock[r][p] = "eof"
        /\ sock' = [sock EXCEPT ![r][p] = "reset"]
        /\ UNCHANGED net
  /\ Advance(r)
  /\ UNCHANGED <<pc, index, retry, listening, backlog, dropped, gaveup, sendbuf, recvbuf>>

\* A round of the loop of tcp_recv.
Recv(r) ==
  LET p == Op(r).peer
      v == Head(net[p][r]).val
  IN
  /\ Running(r) /\ Op(r).op = "recv"
  /\ sock[r][p] \in {"open", "eof"}
  /\ net[p][r] # <<>>
  /\ net' = [net EXCEPT ![p][r] = Tail(@)]
  /\ sendbuf' = IF Op(r).buf = "sendbuf" THEN [sendbuf EXCEPT ![r][off[r] + 1] = v] ELSE sendbuf
  /\ recvbuf' = CASE Op(r).buf = "recvbuf" -> [recvbuf EXCEPT ![r][off[r] + 1] = v]
                  [] Op(r).buf = "sum" -> [recvbuf EXCEPT ![r][off[r] + 1] = @ + v]
                  [] OTHER -> recvbuf
  /\ Advance(r)
  /\ UNCHANGED <<pc, index, retry, listening, backlog, sock, dropped, gaveup>>

\* TCP_CHECK fails in tcp_send or tcp_recv.
OpFails(r) ==
  LET p == Op(r).peer IN
  /\ Running(r)
  /\ \/ Op(r).op \in {"send", "recv"} /\ sock[r][p] = "reset"
     \/ Op(r).op = "recv" /\ sock[r][p] = "eof" /\ net[p][r] = <<>>
  /\ CloseAll(r)
  /\ Goto(r, "exit")
  /\ UNCHANGED <<index, retry, gaveup, ip, off, sendbuf, recvbuf>>

\* The local steps: both buffers are allocated and sendbuf is set (rand on rank
\* 0, zero elsewhere); sendbuf is filled; memcpy; nothing changes at the others.
Local(r) ==
  /\ Running(r)
  /\ \/ /\ Op(r).op = "alloc"
        /\ sendbuf' = [sendbuf EXCEPT ![r] = [j \in 1 .. Op(r).len |-> IF r = 0 THEN RAND ELSE 0]]
        /\ recvbuf' = [recvbuf EXCEPT ![r] = [j \in 1 .. Op(r).len |-> JUNK]]
     \/ /\ Op(r).op = "fill"
        /\ sendbuf' = [sendbuf EXCEPT ![r] = [j \in DOMAIN @ |-> r + 1]]
        /\ UNCHANGED recvbuf
     \/ /\ Op(r).op = "copy"
        /\ recvbuf' = [recvbuf EXCEPT ![r] = sendbuf[r]]
        /\ UNCHANGED sendbuf
     \/ /\ Op(r).op \in {"broadcasted", "verify"}
        /\ UNCHANGED <<sendbuf, recvbuf>>
  /\ NextOp(r)
  /\ UNCHANGED connectVars

\* Mutant: the connections are aborted, not closed.
FinishAborting(r) ==
  /\ pc[r] = "run" /\ ip[r] > Len(Program[r])
  /\ sock' = [p \in Ranks |-> [sock[p] EXCEPT ![r] = IF @ = "open" THEN "reset" ELSE @]]
  /\ Goto(r, "done")
  /\ UNCHANGED <<index, retry, listening, backlog, net, dropped, gaveup, ip, off, sendbuf, recvbuf>>

\* close_connections, and main returns.
Finish(r) ==
  /\ pc[r] = "run" /\ ip[r] > Len(Program[r])
  /\ CloseAll(r)
  /\ Goto(r, "done")
  /\ UNCHANGED <<index, retry, gaveup, ip, off, sendbuf, recvbuf>>

-----------------------------------------------------------------------------
Connecting(r) == ConnectStep(r) /\ UNCHANGED <<ip, off, sendbuf, recvbuf>>
Step(r) == Connecting(r) \/ Send(r) \/ Recv(r) \/ OpFails(r) \/ Local(r) \/ Finish(r)

Next == \E r \in Ranks : Step(r)

\* Each rank is a process of its own, and the scheduler runs it.
Spec == Init /\ [][Next]_vars /\ \A r \in Ranks : WF_vars(Step(r))

-----------------------------------------------------------------------------
\* The type invariant of the ranks, their connections and their buffers.
TypeOK ==
  /\ pc \in [Ranks -> PCs]
  /\ index \in [Ranks -> 0 .. N]
  /\ retry \in [Ranks -> 0 .. MAXRETRY + 1]
  /\ listening \in [Ranks -> BOOLEAN]
  /\ \A r \in Ranks :
       /\ ToSet(backlog[r]) \subseteq (r + 1) .. (N - 1)
       /\ \A p \in Ranks : /\ sock[r][p] \in {"none", "open", "eof", "reset"}
                           /\ Len(net[r][p]) <= CAP + 1
       /\ ip[r] \in 1 .. Len(Program[r]) + 1
       /\ ToSet(sendbuf[r]) \cup ToSet(recvbuf[r]) \subseteq Nat

\* What a receiving rank reads next is what was sent for the operation it is
\* at, and from the same offset.
Aligned ==
  \A r \in Ranks :
    Running(r) /\ Op(r).op = "recv" /\ net[Op(r).peer][r] # <<>> /\ sock[r][Op(r).peer] # "none" =>
      LET chunk == Head(net[Op(r).peer][r]) IN
      chunk.tag = Op(r).tag /\ chunk.off = off[r]

\* The results are right wherever they are looked at: after the broadcasts every
\* rank has the data of rank 0, and where "AllReduce验证" verifies the sum it is
\* that of what all the ranks put in, at every position, in spite of the earlier
\* runs that left their result in the same recvbuf (tcp_broadcast,
\* tcp_allreduce, tcp_test_main).
ResultsCorrect ==
  \A r \in Ranks : Running(r) =>
    /\ Op(r).op = "verify" => \A j \in DOMAIN recvbuf[r] : 2 * recvbuf[r][j] = N * (N + 1)
    /\ Op(r).op = "broadcasted" => \A j \in DOMAIN sendbuf[r] : sendbuf[r][j] = RAND

\* The operations of rank r that belong to barrier b.
BarrierOps(r, b) == {k \in DOMAIN Program[r] : Program[r][k].tag = <<"barrier", b>>}

\* A rank is past a barrier only if every rank has got to it.
BarrierHolds ==
  \A r, u \in Ranks, b \in 1 .. 2 * Len(SIZES) + 1 :
    (\A k \in BarrierOps(r, b) : ip[r] > k) => (\E k \in BarrierOps(u, b) : ip[u] >= k)

\* The ranks keep in step, whatever their speeds: the streams, which carry no
\* boundaries, are read as what they were sent for, and nobody is past a barrier
\* that another rank has not got to (tcp_recv, tcp_test_main).
InStep == Aligned /\ BarrierHolds

\* A rank fails only because a connection was dropped before it was accepted or
\* because a rank ran out of retries: a rank that is finished and closes its
\* connections does not take from the others what they have still to read.
NoSpuriousFailure == (\E r \in Ranks : pc[r] = "exit") => gaveup \/ dropped # {}

\* Unless that happens, every rank gets to the end: no two ranks wait for each
\* other, although a connection holds less than a message and a blocking send
\* waits for its reader (tcp_send, tcp_recv).
Completes == <>((\A r \in Ranks : pc[r] = "done") \/ gaveup \/ dropped # {})

\* "所有连接已建立": a rank that leaves establish_connections has a connection to
\* every other rank.
Established ==
  \A r, p \in Ranks : pc[r] = "run" => <<r, p>> \notin dropped
=============================================================================
