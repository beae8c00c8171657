-------------------------- MODULE MCTcpCollective ---------------------------
(***************************************************************************)
(* Buffers of one and of three chunks, on connections that hold two.       *)
(***************************************************************************)
EXTENDS TcpCollective

Sizes == <<1, 3>>
=============================================================================
