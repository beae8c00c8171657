------------------------------ MODULE MCKVFork ------------------------------
(***************************************************************************)
(* An instance of KVFork for TLC: three tasks, and memory for two stores.  *)
(***************************************************************************)
EXTENDS KVFork
=============================================================================
