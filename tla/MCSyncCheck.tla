---------------------------- MODULE MCSyncCheck ----------------------------
(* Instances of SyncCheck for TLC, and what the texts of the repository say   *)
(* of the sync check that does not hold.                                      *)
EXTENDS SyncCheck

\* "if a previous commit status was found, propagate it directly"
\* (check_sync.py:122): a check that is skipped in calm leaves the record as the
\* check of the previous commit has set it.
CarriedOverIsTheSame ==
    [][\A t \in hist.calm : Save(t) /\ tasks[t].skipped => record' = record]_vars

\* "checks if the base ref is in sync with live settings" (help_comment.txt:21): the
\* record says in sync only if it is, as long as neither side changes.
InSyncIsTrue == record = "yes" /\ count.changes = 0 => head = live

\* "do not perform checks every time a pull request is synchronized if the last
\* check was done within an hour" (check_sync.py:92-93): a check is skipped only then.
SkippedIfChecked ==
    [][\A t \in 1..MaxTasks : Skip(t) => clock - hist.compared < Hour]_vars
=============================================================================
