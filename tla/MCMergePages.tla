---------------------------- MODULE MCMergePages ----------------------------
(* MergePages for TLC.                                                      *)
EXTENDS MergePages
=============================================================================
