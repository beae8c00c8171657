---------------------------- MODULE MCRamfsSync ----------------------------
(***************************************************************************)
(* Instances of RamfsSync for TLC.                                         *)
(***************************************************************************)
EXTENDS RamfsSync, TLC

CONSTANTS f1, f2, w1, w2, n1, n2

\* One file; two files with names of their own.
OneFile == f1 :> n1
OwnNames == f1 :> n1 @@ f2 :> n2

\* What the flushers flush: one its file, both the same file, both any file.
OneJob == w1 :> {f1}
SameJob == w1 :> {f1} @@ w2 :> {f1}
AnyJobs == w1 :> {f1} @@ w2 :> {f1, f2}
=============================================================================
