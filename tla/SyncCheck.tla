----------------------------- MODULE SyncCheck -----------------------------
(***************************************************************************)
(* The sync check of a pull request (CheckConfigurationInSyncTask): a task *)
(* for each push to the pull request, and for each comment that asks for   *)
(* it, compares the head of the default branch with the live settings. The *)
(* outcome is a status of the commit, a comment on the pull request and a  *)
(* field of its record.  The tasks of a pull request run side by side, and *)
(* a task may carry over the status of the commit before its own instead   *)
(* of a comparison.                                                        *)
(*                                                                         *)
(* The settings and the configuration are versions; they agree if the      *)
(* versions do.  Time is counted in units of which Hour make an hour, and a*)
(* commit is as old as its push.  The pause of a minute after an earlier   *)
(* check is left out: it rules out no order of the steps of two tasks that *)
(* read the list of tasks together.                                        *)
(***************************************************************************)
EXTENDS Naturals, Sequences, FiniteSets

CONSTANTS
    Versions,      \* of the configuration and of the live settings
    Hour,          \* units of time in an hour
    MaxTasks,      \* bound: checks of the pull request
    MaxInFlight,   \* bound: checks at a time
    MaxChanges,    \* bound: merges, applies and manual changes
    MaxFaults,     \* bound: requests that fail, and restarts
    MaxClock       \* bound: time

VARIABLES
    head,          \* the configuration on the default branch
    live,          \* the settings of the organization
    clock,
    commits,       \* of the pull request: when each was made
    statuses,      \* of each commit: the newest status of the sync check, and the newest final one
    record,        \* in_sync in the database: "unknown", "yes" or "no"
    comments,      \* the tasks whose comment is not minimized
    tasks,         \* the tasks, in the order of the events that started them
    count,         \* how often each bounded event happened
    hist           \* history, never read by an action

vars == <<head, live, clock, commits, statuses, record, comments, tasks, count, hist>>

YesNo(b) == IF b THEN "yes" ELSE "no"

github == <<head, live, clock, commits>>

-----------------------------------------------------------------------------
\* A task for a commit; one that a comment asked for looks the commit up itself.
NewTask(sha, asked) ==
    [pc |-> "prepare", sha |-> sha, asked |-> asked, skipped |-> FALSE,
     base |-> "none", verdict |-> "yes"]

InFlight == {t \in DOMAIN tasks : tasks[t].pc # "done"}

NoStatus == [newest |-> "none", final |-> "none"]

\* A task that starts while no other runs stays calm until something happens.
Starts(task) ==
    /\ Len(tasks) < MaxTasks /\ Cardinality(InFlight) < MaxInFlight
    /\ tasks' = Append(tasks, task)
    /\ hist' = [hist EXCEPT !.calm = IF InFlight = {} THEN {Len(tasks) + 1} ELSE {}]
    /\ UNCHANGED <<head, live, clock, record, comments, count>>

Push ==
    /\ Starts(NewTask(Len(commits) + 1, FALSE))
    /\ commits' = Append(commits, clock)
    /\ statuses' = Append(statuses, NoStatus)

\* The pull request is reopened, or is ready for review.
Reopen == Starts(NewTask(Len(commits), FALSE)) /\ UNCHANGED <<commits, statuses>>

\* "/otterdog check-sync"
Ask == Starts(NewTask(0, TRUE)) /\ UNCHANGED <<commits, statuses>>

-----------------------------------------------------------------------------
At(t, pc) == t \in DOMAIN tasks /\ tasks[t].pc = pc
Goes(t, new) == tasks' = [tasks EXCEPT ![t] = new] /\ UNCHANGED <<count, hist>>
\* A task that is over: its commit, and whether it was skipped, are remembered.
Ended(task) == [task EXCEPT !.pc = "done", !.asked = FALSE, !.base = "none", !.verdict = "yes"]
To(t, pc) == Goes(t, [tasks[t] EXCEPT !.pc = pc])

Post(t, state) ==
    statuses' = [statuses EXCEPT ![tasks[t].sha] =
                    [newest |-> state, final |-> IF state = "pending" THEN @.final ELSE state]]

\* The commit before the last one, whichever the task is for.
Previous == Len(commits) - 1
IsRecent(commit) == clock - commits[commit] < Hour

CarriesOver(t) ==
    /\ ~tasks[t].asked
    /\ Previous >= 1 /\ IsRecent(Previous)
    /\ statuses[Previous].final # "none"

\* The newest status of the previous commit that is not pending, if there is one,
\* stands for the outcome.
Skip(t) ==
    /\ At(t, "prepare") /\ CarriesOver(t)
    /\ Goes(t, [tasks[t] EXCEPT !.pc = "report", !.skipped = TRUE,
                    !.verdict = YesNo(statuses[Previous].final = "success")])
    /\ UNCHANGED <<github, statuses, record, comments>>

Prepare(t) ==
    /\ At(t, "prepare") /\ ~CarriesOver(t)
    /\ Goes(t, [tasks[t] EXCEPT !.pc = "announce", !.sha = IF tasks[t].asked THEN Len(commits) ELSE @])
    /\ UNCHANGED <<github, statuses, record, comments>>

Announce(t) ==
    /\ At(t, "announce") /\ To(t, "fetch")
    /\ Post(t, "pending")
    /\ UNCHANGED <<github, record, comments>>

\* The configuration to compare with is that of the default branch, wherever the
\* pull request has started from.
Fetch(t) ==
    /\ At(t, "fetch")
    /\ Goes(t, [tasks[t] EXCEPT !.pc = "plan", !.base = head])
    /\ UNCHANGED <<github, statuses, record, comments>>

Plan(t) ==
    /\ At(t, "plan")
    /\ tasks' = [tasks EXCEPT ![t] = [@ EXCEPT !.pc = "minimize", !.verdict = YesNo(tasks[t].base = live)]]
    /\ hist' = [hist EXCEPT !.compared = clock]
    /\ UNCHANGED <<github, statuses, record, comments, count>>

\* Mutant: nothing is minimized if nothing has to be said.
IfDifferent(t) == IF tasks[t].verdict = "yes" THEN {} ELSE comments

\* All the comments that are listed; one that is made meanwhile is not among them.
Outdated(t) == comments

Minimize(t) ==
    /\ At(t, "minimize") /\ To(t, "comment")
    /\ comments' = comments \ Outdated(t)
    /\ UNCHANGED <<github, statuses, record>>

\* There is no comment if nothing differs.
Comment(t) ==
    /\ At(t, "comment") /\ To(t, "report")
    /\ comments' = IF tasks[t].verdict = "yes" THEN comments ELSE comments \cup {t}
    /\ UNCHANGED <<github, statuses, record>>

\* Whatever the outcome, the status lets the pull request be merged.
Report(t) ==
    /\ At(t, "report") /\ To(t, "save")
    /\ Post(t, "success")
    /\ UNCHANGED <<github, record, comments>>

Save(t) ==
    /\ At(t, "save") /\ Goes(t, Ended(tasks[t]))
    /\ record' = tasks[t].verdict
    /\ UNCHANGED <<github, statuses, comments>>

\* Mutant: a task that failed says nothing.
SayNothing(t) == UNCHANGED statuses

\* A task that failed says so.
SayFailed(t) == Post(t, "failure")

ReportFailure(t) ==
    /\ At(t, "failing") /\ Goes(t, Ended(tasks[t]))
    /\ SayFailed(t)
    /\ UNCHANGED <<github, record, comments>>

Step(t) ==
    Skip(t) \/ Prepare(t) \/ Announce(t) \/ Fetch(t) \/ Plan(t) \/ Minimize(t) \/ Comment(t)
    \/ Report(t) \/ Save(t) \/ ReportFailure(t)

-----------------------------------------------------------------------------
Fault(lost) ==
    /\ count.faults < MaxFaults
    /\ count' = [count EXCEPT !.faults = @ + 1]
    /\ hist' = [hist EXCEPT !.calm = {}, !.lost = @ \/ lost]
    /\ UNCHANGED <<github, statuses, record, comments>>

\* A plan that a RuntimeError ends makes no callback: the outcome stays what it
\* was before the plan.
Abort(t) ==
    /\ At(t, "plan") /\ Fault(FALSE)
    /\ tasks' = [tasks EXCEPT ![t].pc = "minimize"]

\* Any other exception; a task that has not found its commit cannot even say so.
Fail(t) ==
    /\ t \in InFlight
    /\ LET speechless == tasks[t].pc = "failing" \/ tasks[t].sha = 0
       IN  /\ Fault(speechless)
           /\ tasks' = [tasks EXCEPT ![t] = IF speechless THEN Ended(@) ELSE [@ EXCEPT !.pc = "failing"]]

\* The tasks are lost.
Restart ==
    /\ InFlight # {} /\ Fault(TRUE)
    /\ tasks' = [t \in DOMAIN tasks |-> Ended(tasks[t])]

Changes ==
    /\ count.changes < MaxChanges
    /\ count' = [count EXCEPT !.changes = @ + 1]
    /\ hist' = [hist EXCEPT !.calm = {}]
    /\ UNCHANGED <<clock, commits, statuses, record, comments, tasks>>

\* A merge, whose apply is a change of its own.
Merge == Changes /\ head' \in Versions \ {head} /\ UNCHANGED live
\* An apply, or a change by hand.
SettingsChange == Changes /\ live' \in Versions \ {live} /\ UNCHANGED head

Tick ==
    /\ clock < MaxClock
    /\ clock' = clock + 1
    /\ UNCHANGED <<head, live, commits, statuses, record, comments, tasks, count, hist>>

\* A pull request is opened.  What the version at the head is called does not matter.
Init ==
    /\ head = (CHOOSE v \in Versions : TRUE) /\ live \in Versions
    /\ clock = 0 /\ commits = <<0>> /\ statuses = <<NoStatus>>
    /\ record = "unknown" /\ comments = {}
    /\ tasks = <<NewTask(1, FALSE)>>
    /\ count = [changes |-> 0, faults |-> 0]
    /\ hist = [calm |-> {1}, lost |-> FALSE, compared |-> 0]

Next ==
    \/ Push \/ Reopen \/ Ask \/ Merge \/ SettingsChange \/ Tick \/ Restart
    \/ \E t \in 1..MaxTasks : Step(t) \/ Abort(t) \/ Fail(t)

\* The event loop goes on with each task.
Fairness == \A t \in 1..MaxTasks : WF_vars(Step(t))

Spec == Init /\ [][Next]_vars /\ Fairness

-----------------------------------------------------------------------------
\* The values of the variables.
Status == [newest : {"none", "pending", "success", "failure"}, final : {"none", "success", "failure"}]

Task == [pc : {"prepare", "announce", "fetch", "plan", "minimize", "comment", "report",
               "save", "failing", "done"},
         sha : Nat, asked : BOOLEAN, skipped : BOOLEAN,
         base : Versions \cup {"none"}, verdict : {"yes", "no"}]

TypeOK ==
    /\ head \in Versions /\ live \in Versions /\ clock \in Nat
    /\ commits \in Seq(Nat) /\ statuses \in Seq(Status) /\ Len(statuses) = Len(commits)
    /\ record \in {"unknown", "yes", "no"}
    /\ tasks \in Seq(Task) /\ comments \subseteq DOMAIN tasks
    /\ count \in [changes : Nat, faults : Nat]
    /\ hist \in [calm : SUBSET DOMAIN tasks, lost : BOOLEAN, compared : Nat]

IsOpen(c) == c \in DOMAIN statuses /\ statuses[c].newest \in {"none", "pending"}

\* However the checks of a pull request interleave and fail, each commit, also one
\* that got several checks, ends with a status that is not pending, unless the app
\* restarted or the failure itself could not be reported.
EveryCommitIsDecided ==
    \A c \in 1..MaxTasks : IsOpen(c) ~> (~IsOpen(c) \/ hist.lost)

\* A check that compares, while no other check runs and nothing changes or fails,
\* leaves its record, its comment and its status in agreement with the settings:
\* whatever the checks before it, complete or not, have left behind.
CalmCheckIsTrue ==
    \A t \in hist.calm :
        tasks[t].pc = "done" /\ ~tasks[t].skipped =>
            /\ record = YesNo(head = live)
            /\ comments = IF head = live THEN {} ELSE {t}
            /\ statuses[tasks[t].sha].newest = "success"
=============================================================================
