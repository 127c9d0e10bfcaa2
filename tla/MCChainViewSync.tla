-------------------------- MODULE MCChainViewSync --------------------------
(***************************************************************************)
(* Model values for ChainViewSync on its own.                              *)
(***************************************************************************)
EXTENDS ChainViewSync

=============================================================================
