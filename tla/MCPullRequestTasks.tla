------------------------ MODULE MCPullRequestTasks -------------------------
(* Bounded instances of PullRequestTasks for TLC, and what the texts of the *)
(* repository say of a pull request that the code does not always keep.    *)
EXTENDS PullRequestTasks

\* templates/comment/help_comment.txt: "`/otterdog merge` merges and applies the
\* changes if the PR is eligible for auto-merging", the first condition being a
\* valid configuration that requires no secrets and removes no resource.
BotMergesOnlyEligible ==
    hist.mergedBy = "bot" => kind[gh.merged] \in {"clean", "noop"}

\* docs/userguide/workflow.md: "The merge triggers otterdog to automatically
\* apply the changes to the GitHub organization."
MergeIsApplied ==
    gh.status = "merged" /\ kind[gh.merged] = "clean"
        ~> doc # NoDoc /\ doc.apply # "not_applied"
=============================================================================
