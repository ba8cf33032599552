-------------------------- MODULE MCConfigHistory --------------------------
(* Instances of ConfigHistory for TLC, and what the texts of the repository *)
(* say of a merge that the code does not always keep.                       *)
EXTENDS ConfigHistory

\* docs/userguide/workflow.md: "The merge triggers otterdog to automatically
\* apply the changes to the GitHub organization."  A pull request that counts
\* as completed had its changes applied, however it was merged.
EveryMergeIsApplied == CompletedWasWritten
=============================================================================
