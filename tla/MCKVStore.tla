----------------------------- MODULE MCKVStore -----------------------------
(***************************************************************************)
(* An instance of KVStore for TLC: keys 0 and 2 share bucket 0 of two.     *)
(***************************************************************************)
EXTENDS KVStore

MCKeys == {0, 2}
MCValues == {5, 6}
=============================================================================
