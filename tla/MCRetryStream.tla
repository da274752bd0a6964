---------------------------- MODULE MCRetryStream ----------------------------
(***************************************************************************)
(* Values of the constants of RetryStream for TLC.                         *)
(***************************************************************************)
EXTENDS RetryStream

Middle == {2, 3}
First == {1}
=============================================================================
