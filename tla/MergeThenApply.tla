--------------------------- MODULE MergeThenApply ---------------------------
(***************************************************************************)
(* What the self-service bot promises about one pull request, whatever its *)
(* tasks do in between: it is merged at most once, settings are written to *)
(* the live organization only after that and only from the merged commit,  *)
(* and only then may its record say that changes were applied.             *)
(***************************************************************************)
EXTENDS Naturals

CONSTANT Commits

VARIABLES
    merged,    \* the merged commit, or 0
    written,   \* the commits from which settings were written
    recorded   \* whether the record says that changes were applied

vars == <<merged, written, recorded>>

Init == merged = 0 /\ written = {} /\ recorded = FALSE

Merge ==
    /\ merged = 0
    /\ merged' \in Commits
    /\ UNCHANGED <<written, recorded>>

Write ==
    /\ merged # 0
    /\ written' = {merged}
    /\ UNCHANGED <<merged, recorded>>

Record ==
    /\ merged # 0
    /\ recorded' \in BOOLEAN
    /\ UNCHANGED <<merged, written>>

Next == Merge \/ Write \/ Record

Spec == Init /\ [][Next]_vars
=============================================================================
