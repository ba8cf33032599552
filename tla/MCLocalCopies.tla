---------------------------- MODULE MCLocalCopies ----------------------------
(* Instances of LocalCopies for TLC.                                        *)
EXTENDS LocalCopies
=============================================================================
