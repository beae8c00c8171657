----------------------------- MODULE TcpConnect -----------------------------
(***************************************************************************)
(* establish_connections of network/nccl/tcp_ip_test.cpp: how the ranks of *)
(* the benchmark connect to each other.  A rank first accepts one          *)
(* connection from each higher rank, with a new listening socket for every *)
(* one of them, then connects to each lower rank, from 0 up.               *)
(*                                                                         *)
(* The kernel's side of a connection is modelled as the program uses it: a *)
(* connection is made when the listening socket has queued it, before      *)
(* accept; closing a listening socket resets what is still queued; a       *)
(* closing peer lets what it sent be read first, unless it had not read    *)
(* everything itself, in which case the connection is reset.               *)
(***************************************************************************)
EXTENDS Naturals, Sequences, SequencesExt

CONSTANTS N,        \* world_size
          MAXRETRY  \* refused connections before a rank gives up (10 in the code)

ASSUME ConnectAssumption == N \in Nat \ {0} /\ MAXRETRY \in Nat

Ranks == 0 .. N - 1

VARIABLES pc,        \* pc[r]: where rank r is
          index,     \* index[r]: i, of either loop
          retry,     \* retry[r]
          listening, \* listening[r]: the port of r is open
          backlog,   \* backlog[r]: ranks whose connection r has not accepted
          sock,      \* sock[r][p]: r's end of the connection with p
          net,       \* net[p][r]: what p sent and r has not read
          dropped,   \* connections reset by closing a listening socket (history)
          gaveup     \* some rank ran out of retries (history)

sockVars == <<listening, backlog, sock, net, dropped>>
connectVars == <<pc, index, retry, sockVars, gaveup>>

PCs == {"listen", "accept", "rank", "connect", "sendrank", "run", "done", "exit"}

\* The state in which loop variable i leaves rank r: still a server, then a
\* client, then connected.
ServerAt(i, r) == IF i < N THEN "listen" ELSE IF r > 0 THEN "connect" ELSE "run"
ClientAt(i, r) == IF i < r THEN "connect" ELSE "run"

ConnectInit ==
  /\ pc = [r \in Ranks |-> ServerAt(r + 1, r)]
  /\ index = [r \in Ranks |-> IF r + 1 < N THEN r + 1 ELSE 0]
  /\ retry = [r \in Ranks |-> 0]
  /\ listening = [r \in Ranks |-> FALSE]
  /\ backlog = [r \in Ranks |-> <<>>]
  /\ sock = [r \in Ranks |-> [p \in Ranks |-> "none"]]
  /\ net = [r \in Ranks |-> [p \in Ranks |-> <<>>]]
  /\ dropped = {}
  /\ gaveup = FALSE

Goto(r, label) == pc' = [pc EXCEPT ![r] = label]
Gone(r) == pc[r] \in {"done", "exit"}

-----------------------------------------------------------------------------
(***************************************************************************)
(* The server loop.                                                        *)
(***************************************************************************)
\* socket, setsockopt, bind and listen.
Listen(r) ==
  /\ pc[r] = "listen"
  /\ listening' = [listening EXCEPT ![r] = TRUE]
  /\ Goto(r, "accept")
  /\ UNCHANGED <<index, retry, backlog, sock, net, dropped, gaveup>>

\* accept: blocks until a connection is queued; some rank, not rank i.
Accept(r) ==
  /\ pc[r] = "accept"
  /\ backlog[r] # <<>>
  /\ Goto(r, "rank")
  /\ UNCHANGED <<index, retry, sockVars, gaveup>>

\* The rest of the round: the rank of the peer is read, its socket is kept,
\* and the listening socket is closed with whatever it had queued.
RecvRank(r) ==
  LET c == Head(backlog[r])
      next == index[r] + 1
      queued == ToSet(Tail(backlog[r]))
  IN
  /\ pc[r] = "rank"
  /\ net[c][r] # <<>>
  /\ net' = [p \in Ranks |->
               [net[p] EXCEPT ![r] = IF p = c THEN Tail(@) ELSE IF p \in queued THEN <<>> ELSE @]]
  /\ sock' = [p \in Ranks |->
               IF p = r THEN [sock[r] EXCEPT ![c] = IF Gone(c) THEN "eof" ELSE "open"]
               ELSE IF p \in queued THEN [sock[p] EXCEPT ![r] = "reset"] ELSE sock[p]]
  /\ dropped' = dropped \cup {<<p, r>> : p \in queued}
  /\ backlog' = [backlog EXCEPT ![r] = <<>>]
  /\ listening' = [listening EXCEPT ![r] = FALSE]
  /\ index' = [index EXCEPT ![r] = IF next < N THEN next ELSE 0]
  /\ Goto(r, ServerAt(next, r))
  /\ UNCHANGED <<retry, gaveup>>

-----------------------------------------------------------------------------
(***************************************************************************)
(* The client loop, at lower rank index[r].                                *)
(***************************************************************************)
Connect(r) ==
  LET i == index[r] IN
  /\ pc[r] = "connect"
  /\ listening[i]
  /\ backlog' = [backlog EXCEPT ![i] = Append(@, r)]
  /\ sock' = [sock EXCEPT ![r][i] = "open"]
  /\ Goto(r, "sendrank")
  /\ UNCHANGED <<index, retry, listening, net, dropped, gaveup>>

\* connect fails: sleep and try again.
Refused(r) ==
  /\ pc[r] = "connect"
  /\ ~listening[index[r]]
  /\ retry[r] <= MAXRETRY
  /\ retry' = [retry EXCEPT ![r] = @ + 1]
  /\ UNCHANGED <<pc, index, sockVars, gaveup>>

\* tcp_send of the rank; then the next lower rank.
SendRank(r) ==
  LET i == index[r] IN
  /\ pc[r] = "sendrank"
  /\ sock[r][i] = "open"
  /\ net' = [net EXCEPT ![r][i] = Append(@, [tag |-> <<"rank", i>>, off |-> 0, val |-> r])]
  /\ index' = [index EXCEPT ![r] = i + 1]
  /\ retry' = [retry EXCEPT ![r] = 0]
  /\ Goto(r, ClientAt(i + 1, r))
  /\ UNCHANGED <<listening, backlog, sock, dropped, gaveup>>

-----------------------------------------------------------------------------
\* r ends: the kernel closes its sockets.  A peer can still read what r sent,
\* unless r leaves something unread; connections r has not accepted are reset.
CloseAll(r) ==
  /\ listening' = [listening EXCEPT ![r] = FALSE]
  /\ backlog' = [backlog EXCEPT ![r] = <<>>]
  /\ sock' = [p \in Ranks |-> [sock[p] EXCEPT ![r] =
                IF @ # "open" THEN @
                ELSE IF net[p][r] # <<>> \/ p \in ToSet(backlog[r]) THEN "reset" ELSE "eof"]]
  /\ net' = [p \in Ranks |-> [net[p] EXCEPT ![r] = <<>>]]
  /\ UNCHANGED dropped

\* "连接失败": the retries are used up.
GiveUp(r) ==
  /\ pc[r] = "connect"
  /\ ~listening[index[r]]
  /\ retry[r] > MAXRETRY
  /\ gaveup' = TRUE
  /\ CloseAll(r)
  /\ Goto(r, "exit")
  /\ UNCHANGED <<index, retry>>

\* TCP_CHECK fails in the tcp_send of the rank.
SendRankFails(r) ==
  /\ pc[r] = "sendrank"
  /\ sock[r][index[r]] # "open"
  /\ CloseAll(r)
  /\ Goto(r, "exit")
  /\ UNCHANGED <<index, retry, gaveup>>

ConnectStep(r) ==
  \/ Listen(r) \/ Accept(r) \/ RecvRank(r)
  \/ Connect(r) \/ Refused(r) \/ GiveUp(r) \/ SendRank(r) \/ SendRankFails(r)
=============================================================================
