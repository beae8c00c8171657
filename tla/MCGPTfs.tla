------------------------------ MODULE MCGPTfs -------------------------------
(***************************************************************************)
(* One letter, white space and half a character, in an input of at most    *)
(* two of them: the model values of GPTfs.cfg.                             *)
(***************************************************************************)
EXTENDS GPTfs
=============================================================================
