---------------------------- MODULE MCPagedReads ----------------------------
(* Instances of PagedReads for TLC.                                        *)
EXTENDS PagedReads
=============================================================================
