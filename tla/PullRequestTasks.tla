-------------------------- MODULE PullRequestTasks --------------------------
(***************************************************************************)
(* One pull request of a configuration repository, the webhook deliveries  *)
(* and bot commands about it, and the background tasks of the web app that *)
(* work on it concurrently.                                                *)
(*                                                                         *)
(* The app runs on one event loop: a task is interrupted only at an await. *)
(* A step of this module is what a task does between two awaits that touch *)
(* shared state: the pull request at GitHub (gh, branch), its document in  *)
(* MongoDB (doc) and the live organization (live).  Every task carries  *)
(* the snapshot of the pull request that its webhook delivered, and the    *)
(* document as it read it; both may be out of date when they are used.     *)
(*                                                                         *)
(* CheckConfigurationInSyncTask is left out: on the fields kept here it    *)
(* writes what UpdatePullRequestTask writes, the snapshot's status.        *)
(***************************************************************************)
EXTENDS Naturals, FiniteSets

CONSTANTS
    MaxHead,      \* bound: commits of the branch
    MaxEvents,    \* bound: actions of users
    MaxBusy,      \* bound: tasks in flight when a user acts
    MaxLost,      \* bound: webhook deliveries that never arrive
    MaxRestarts,  \* bound: restarts of the app, which forget all its tasks
    MaxFailures,  \* bound: tasks that die of an exception
    Kinds,        \* what a commit may contain
    Commands,     \* what users ask for: comments, or lifting a suspension of the app
    Roles,        \* who writes them
    AuthorRole,   \* the author: "lead" (eligible team), "member" or "bot"
    NoDoc         \* the document does not exist

\* "noop": the file is the one of the default branch; "manual": needs secrets or
\* the web UI; "deletes": removes resources or touches other files; "invalid":
\* fails the validation; "broken": does not evaluate.
Kind == {"clean", "noop", "manual", "deletes", "invalid", "broken"}
Command == {"team-info", "validate", "merge", "apply", "done", "unsuspend"}
Role == {"author", "lead", "admin", "other"}

ASSUME BoundsAssumption == /\ MaxHead \in Nat \ {0} /\ MaxEvents \in Nat
                           /\ MaxBusy \in Nat /\ MaxLost \in Nat
                           /\ MaxRestarts \in Nat /\ MaxFailures \in Nat
ASSUME ChoicesAssumption == /\ Kinds \subseteq Kind /\ Commands \subseteq Command
                            /\ Roles \subseteq Role
                            /\ AuthorRole \in {"lead", "member", "bot"}

VARIABLES
    gh,        \* the pull request at GitHub
    branch,    \* the last commit of its branch
    kind,      \* kind[h]: what commit h contains
    doc,       \* the PullRequestModel document, or NoDoc
    tasks,     \* the background tasks that have not ended
    live,      \* the commits from which settings were written to the live organization
    announced, \* how many "eligible for auto-merging" comments were posted
    count,     \* how often each bounded event happened
    hist       \* history: facts the properties speak of, never read by an action

vars == <<gh, branch, kind, doc, tasks, live, announced, count, hist>>

Heads == 1 .. MaxHead
Status == {"open", "closed", "merged"}
ApplyStatus == {"not_applied", "partially_applied", "completed"}
Answer == {"none", "yes", "no"}     \* an optional Boolean: None, True, False
YesNo(b) == IF b THEN "yes" ELSE "no"

Doc == [status : Status, draft : BOOLEAN, apply : ApplyStatus,
        valid : Answer, manual : Answer, supports : Answer,
        author : Answer, approved : Answer]

ASSUME NoDocAssumption == NoDoc \notin Doc

Snapshots == [status : Status, draft : BOOLEAN, head : 0 .. MaxHead]
Args == [valid : Answer, manual : Answer, supports : Answer, author : Answer,
         approved : Answer, apply : ApplyStatus \cup {"none"}]
NoArgs == [valid |-> "none", manual |-> "none", supports |-> "none",
           author |-> "none", approved |-> "none", apply |-> "none"]

TaskTypes == {"update", "review", "team", "validate", "import", "announce",
              "merge", "apply", "done"}
Steps == {"start", "config", "find", "act", "save"}

Task == [event : Nat, type : TaskTypes, step : Steps, by : Role \cup {"webhook"},
         snap : Snapshots, found : Doc \cup {NoDoc}, args : Args]

-----------------------------------------------------------------------------
(* The document: PullRequestModel and update_or_create_pull_request.       *)

\* Mutant: the result of the validation is not looked at.
CanBeAutomergedUnchecked(d) ==
    /\ d.status = "open"
    /\ d.supports = "yes"
    /\ d.author = "yes" \/ d.approved = "yes"

\* PullRequestModel.automerge_problems is empty.
CanBeAutomerged(d) ==
    /\ d.status = "open"
    /\ d.valid = "yes"
    /\ d.supports = "yes"
    /\ d.author = "yes" \/ d.approved = "yes"

NewDoc(snap) ==
    [status |-> snap.status, draft |-> snap.draft, apply |-> "not_applied",
     valid |-> "none", manual |-> "none", supports |-> "none",
     author |-> "none", approved |-> "none"]

\* Mutant: an argument that is not given overwrites the field.
GivenOrNone(new, old) == new

Given(new, old) == IF new = "none" THEN old ELSE new

\* The snapshot's fields are always written, an argument only if it is given.
Assign(d, snap, args) ==
    [status   |-> snap.status,
     draft    |-> snap.draft,
     apply    |-> Given(args.apply, d.apply),
     valid    |-> Given(args.valid, d.valid),
     manual   |-> Given(args.manual, d.manual),
     supports |-> Given(args.supports, d.supports),
     author   |-> Given(args.author, d.author),
     approved |-> Given(args.approved, d.approved)]

\* The instance the function returns: what was found, with the assignments.
Returned(t) ==
    Assign(IF t.found = NoDoc THEN NewDoc(t.snap) ELSE t.found, t.snap, t.args)

\* odm.save writes the fields that were assigned: all of them when the
\* instance is new, whatever another task has stored since the find.
Saved(t) == IF t.found = NoDoc THEN Returned(t) ELSE Assign(doc, t.snap, t.args)

-----------------------------------------------------------------------------
(* Tasks.                                                                  *)

Snapshot(g) == [status |-> g.status, draft |-> g.draft, head |-> g.head]
NoSnapshot == [status |-> "open", draft |-> FALSE, head |-> 0]

NewTask(type, step, by, snap) ==
    [event |-> count.events + 1, type |-> type, step |-> step, by |-> by,
     snap |-> snap, found |-> NoDoc, args |-> NoArgs]

Update(g)   == NewTask("update", "find", "webhook", Snapshot(g))
Team        == NewTask("team", "start", "webhook", NoSnapshot)
Validate(g) == NewTask("validate", "config", "webhook", Snapshot(g))
Apply(g)    == NewTask("apply", "find", "webhook", Snapshot(g))

Becomes(t, new) == tasks' = (tasks \ {t}) \cup {new}
Ends(t) == tasks' = tasks \ {t}

\* on_pull_request_received: the tasks of each kind of event, given the pull
\* request as the event carries it.
OnOpened(g)       == {Update(g)} \cup IF g.draft THEN {} ELSE {Team, Validate(g)}
OnReady(g)        == {Update(g), Team, Validate(g)}
OnSynchronized(g) == {Update(g)} \cup IF g.draft THEN {} ELSE {Validate(g)}
OnClosed(g)       == {Update(g)} \cup IF g.status = "merged" THEN {Apply(g)} ELSE {}

\* A webhook is delivered and its handler adds the tasks, or it is lost:
\* GitHub does not deliver it again.
Deliver(remaining, new) ==
    \/ /\ tasks' = remaining \cup new
       /\ count' = [count EXCEPT !.events = @ + 1]
    \/ /\ count.lost < MaxLost
       /\ tasks' = remaining
       /\ count' = [count EXCEPT !.events = @ + 1, !.lost = @ + 1]

-----------------------------------------------------------------------------
(* GitHub: what users do to the pull request, and the event it sends.      *)

MayAct == count.events < MaxEvents /\ Cardinality(tasks) <= MaxBusy

Init ==
    /\ \E draft \in BOOLEAN, k \in Kinds :
          /\ gh = [status |-> "open", draft |-> draft, head |-> 1, merged |-> 0,
                   approved |-> FALSE]
          /\ kind = [h \in Heads |-> IF h = 1 THEN k ELSE "none"]
    /\ branch = 1
    /\ doc = NoDoc
    /\ count = [events |-> 0, lost |-> 0, restarts |-> 0, failures |-> 0]
    /\ tasks = {[x EXCEPT !.event = 0] : x \in OnOpened(gh)}
    /\ live = {}
    /\ announced = 0
    /\ hist = [checked |-> {}, approved |-> FALSE, mergedBy |-> "none",
               full |-> {}, done |-> FALSE, imported |-> FALSE,
               quiet |-> FALSE, failed |-> FALSE]

\* A push to the branch; the pull request follows it as long as it is open.
Push ==
    /\ MayAct
    /\ branch < MaxHead
    /\ branch' = branch + 1
    /\ \E k \in Kinds : kind' = [kind EXCEPT ![branch + 1] = k]
    /\ IF gh.status = "open"
       THEN /\ gh' = [gh EXCEPT !.head = branch + 1]
            /\ Deliver(tasks, OnSynchronized(gh'))
       ELSE /\ count' = [count EXCEPT !.events = @ + 1]
            /\ UNCHANGED <<gh, tasks>>
    /\ UNCHANGED <<doc, live, announced, hist>>

\* "closed" without a merge, and "reopened".
Close ==
    /\ MayAct
    /\ gh.status = "open"
    /\ gh' = [gh EXCEPT !.status = "closed"]
    /\ Deliver(tasks, OnClosed(gh'))
    /\ UNCHANGED <<branch, kind, doc, live, announced, hist>>

Reopen ==
    /\ MayAct
    /\ gh.status = "closed"
    /\ gh' = [gh EXCEPT !.status = "open", !.head = branch]
    /\ Deliver(tasks, OnSynchronized(gh'))
    /\ UNCHANGED <<branch, kind, doc, live, announced, hist>>

\* "ready_for_review" and "converted_to_draft".
ToggleDraft ==
    /\ MayAct
    /\ gh.status = "open"
    /\ gh' = [gh EXCEPT !.draft = ~@]
    /\ Deliver(tasks, IF gh'.draft THEN {Update(gh')} ELSE OnReady(gh'))
    /\ UNCHANGED <<branch, kind, doc, live, announced, hist>>

\* A project lead approves, or the approval is dismissed.
Review ==
    /\ MayAct
    /\ gh' = [gh EXCEPT !.approved = ~@]
    /\ Deliver(tasks, {NewTask("review", "start", "webhook", Snapshot(gh'))})
    /\ hist' = [hist EXCEPT !.approved = TRUE]
    /\ UNCHANGED <<branch, kind, doc, live, announced>>

\* The merge at GitHub, by a user or by the merge task.
Merged == [gh EXCEPT !.status = "merged", !.merged = gh.head]
Mergeable == gh.status = "open" /\ ~gh.draft

MergeByUser ==
    /\ MayAct
    /\ Mergeable
    /\ gh' = Merged
    /\ Deliver(tasks, OnClosed(Merged))
    /\ hist' = [hist EXCEPT !.mergedBy = "user",
                            !.quiet = /\ tasks = {} /\ doc # NoDoc /\ doc.valid = "yes"
                                      /\ count'.lost = count.lost]
    /\ UNCHANGED <<branch, kind, doc, live, announced>>

\* A comment of a user, or the app is suspended and unsuspended: the task it
\* schedules knows only the number of the pull request.
TaskOf(c, by) ==
    CASE c = "team-info" -> Team
      [] c = "validate"  -> NewTask("validate", "start", by, NoSnapshot)
      [] c = "merge"     -> NewTask("merge", "find", by, NoSnapshot)
      [] c = "apply"     -> NewTask("apply", "start", by, NoSnapshot)
      [] c = "done"      -> NewTask("done", "find", by, NoSnapshot)
      [] c = "unsuspend" -> NewTask("import", "start", by, NoSnapshot)

Request ==
    /\ MayAct
    /\ \E c \in Commands, by \in Roles : Deliver(tasks, {TaskOf(c, by)})
    /\ UNCHANGED <<gh, branch, kind, doc, live, announced, hist>>

-----------------------------------------------------------------------------
(* The steps of the tasks.                                                 *)

\* Tasks that are scheduled with a number fetch the pull request first; the
\* team task also asks for the teams of the author, and does nothing for a bot.
FetchPullRequest(t) ==
    /\ t.step = "start"
    /\ t.type \in {"validate", "apply", "import"}
    /\ Becomes(t, [t EXCEPT !.step = IF t.type = "validate" THEN "config" ELSE "find",
                            !.snap = Snapshot(gh),
                            !.args.apply = IF t.type = "import" /\ gh.status = "merged"
                                           THEN "completed" ELSE "none"])
    /\ UNCHANGED <<gh, branch, kind, doc, live, announced, count, hist>>

FetchAuthor(t) ==
    /\ t.step = "start"
    /\ t.type = "team"
    /\ IF AuthorRole = "bot"
       THEN Ends(t)
       ELSE Becomes(t, [t EXCEPT !.step = "find", !.snap = Snapshot(gh),
                                 !.args.author = YesNo(AuthorRole = "lead")])
    /\ UNCHANGED <<gh, branch, kind, doc, live, announced, count, hist>>

\* UpdatePullRequestTask for a review: has a project lead approved?
ReadReviews(t) ==
    /\ t.step = "start"
    /\ t.type = "review"
    /\ Becomes(t, [t EXCEPT !.step = "find", !.args.approved = YesNo(gh.approved)])
    /\ UNCHANGED <<gh, branch, kind, doc, live, announced, count, hist>>

\* What the validation finds out about a commit.  A configuration that cannot
\* be loaded ends the plan before its callback, an unchanged one needs no plan:
\* then requires_secrets and requires_web_ui stay None.
Verdict(k) ==
    [NoArgs EXCEPT
       !.valid    = YesNo(k \notin {"invalid", "broken"}),
       !.manual   = IF k \in {"noop", "broken"} THEN "none" ELSE YesNo(k = "manual"),
       !.supports = YesNo(k \notin {"manual", "deletes"})]

\* ValidatePullRequestTask reads the configuration by the name of the branch,
\* not by the commit of its event.
ReadConfig(t) ==
    /\ t.step = "config"
    /\ Becomes(t, [t EXCEPT !.step = "find", !.args = Verdict(kind[branch])])
    /\ hist' = [hist EXCEPT !.checked = @ \cup {branch}]
    /\ UNCHANGED <<gh, branch, kind, doc, live, announced, count>>

\* update_or_create_pull_request: the find, then the save; an instance that
\* can be auto-merged gets the announcing comment from a task of its own.
Writers == {"update", "review", "team", "validate", "import"}

Find(t) ==
    /\ t.step = "find"
    /\ t.type \in Writers
    /\ Becomes(t, [t EXCEPT !.step = "save", !.found = doc])
    /\ UNCHANGED <<gh, branch, kind, doc, live, announced, count, hist>>

Announces(t) == t.type \in {"review", "validate"} /\ CanBeAutomerged(Returned(t))

Save(t) ==
    /\ t.step = "save"
    /\ t.type \in Writers
    /\ doc' = Saved(t)
    /\ tasks' = (tasks \ {t}) \cup
                IF Announces(t)
                THEN {[NewTask("announce", "start", "webhook", NoSnapshot)
                         EXCEPT !.event = t.event]}
                ELSE {}
    /\ hist' = [hist EXCEPT !.imported = @ \/ (t.type = "import" /\ t.args.apply = "completed")]
    /\ UNCHANGED <<gh, branch, kind, live, announced, count>>

\* AutoMergeCommentTask: is there such a comment?  If not, add one.
LookForComment(t) ==
    /\ t.step = "start"
    /\ t.type = "announce"
    /\ IF announced > 0 THEN Ends(t) ELSE Becomes(t, [t EXCEPT !.step = "act"])
    /\ UNCHANGED <<gh, branch, kind, doc, live, announced, count, hist>>

AddComment(t) ==
    /\ t.step = "act"
    /\ t.type = "announce"
    /\ announced' = announced + 1
    /\ Ends(t)
    /\ UNCHANGED <<gh, branch, kind, doc, live, count, hist>>

\* MergePullRequestTask: the checks, and the merge of whatever the head is by
\* then.  GitHub refuses to merge a draft or a pull request that is not open.
MayMerge(by) == by \in {"author", "lead", "admin"}

CheckMerge(t) ==
    /\ t.step = "find"
    /\ t.type = "merge"
    /\ IF doc # NoDoc /\ CanBeAutomerged(doc) /\ MayMerge(t.by)
       THEN Becomes(t, [t EXCEPT !.step = "act"])
       ELSE Ends(t)
    /\ UNCHANGED <<gh, branch, kind, doc, live, announced, count, hist>>

MergeByTask(t) ==
    /\ t.step = "act"
    /\ t.type = "merge"
    /\ IF Mergeable
       THEN /\ gh' = Merged
            /\ Deliver(tasks \ {t}, OnClosed(Merged))
            /\ hist' = [hist EXCEPT !.mergedBy = "bot"]
       ELSE /\ Ends(t)
            /\ UNCHANGED <<gh, count, hist>>
    /\ UNCHANGED <<branch, kind, doc, live, announced>>

IsAdmin(by) == by = "admin"

\* Mutant: a pull request that is not merged may be applied.
MayApplyUnmerged(t) ==
    /\ doc # NoDoc
    /\ doc.apply # "completed"
    /\ doc.valid = "yes"
    /\ t.by = "webhook" \/ IsAdmin(t.by)

\* Mutant: the result of the validation is not looked at.
MayApplyUnchecked(t) ==
    /\ doc # NoDoc
    /\ t.snap.status = "merged"
    /\ doc.apply # "completed"
    /\ t.by = "webhook" \/ IsAdmin(t.by)

\* Mutant: merged according to the record, which another task may yet update.
MayApplyByRecord(t) ==
    /\ doc # NoDoc
    /\ doc.status = "merged"
    /\ doc.apply # "completed"
    /\ doc.valid = "yes"
    /\ t.by = "webhook" \/ IsAdmin(t.by)

\* ApplyChangesTask: the checks of _pre_execute.
MayApply(t) ==
    /\ doc # NoDoc
    /\ t.snap.status = "merged"
    /\ doc.apply # "completed"
    /\ doc.valid = "yes"
    /\ t.by = "webhook" \/ IsAdmin(t.by)

CheckApply(t) ==
    /\ t.step = "find"
    /\ t.type = "apply"
    /\ IF MayApply(t)
       THEN Becomes(t, [t EXCEPT !.step = "act", !.found = doc])
       ELSE Ends(t)
    /\ UNCHANGED <<gh, branch, kind, doc, live, announced, count, hist>>

\* The apply operation on the merge commit: does it count as a success, and
\* does it write to the live organization?  Planning aborts on a validation
\* error and leaves no patches, which the operation reports as success; a
\* configuration that cannot be loaded is an error; a patch may fail.
Outcomes(k) ==
    CASE k = "invalid" -> {[success |-> TRUE, writes |-> FALSE]}
      [] k = "broken"  -> {[success |-> FALSE, writes |-> FALSE]}
      [] OTHER         -> [success : BOOLEAN, writes : {TRUE}]

\* Mutant: the result of the operation is ignored.
StatusWhatever(success, manual) ==
    IF manual # "yes" THEN "completed" ELSE "partially_applied"

\* _post_execute: by-hand steps that the validation found remain to be done.
StatusAfter(success, manual) ==
    IF success /\ manual # "yes" THEN "completed" ELSE "partially_applied"

\* Mutant: the head of the branch is applied, not the commit of the merge.
ApplyBranch(t) ==
    /\ t.step = "act"
    /\ t.type = "apply"
    /\ \E o \in Outcomes(kind[branch]) :
          /\ live' = live \cup IF o.writes THEN {branch} ELSE {}
          /\ hist' = [hist EXCEPT !.full = @ \cup IF o.success /\ o.writes
                                                  THEN {branch} ELSE {}]
          /\ Becomes(t, [t EXCEPT !.step = "save",
                                  !.args.apply = StatusAfter(o.success, t.found.manual)])
    /\ UNCHANGED <<gh, branch, kind, doc, announced, count>>

ApplyChanges(t) ==
    /\ t.step = "act"
    /\ t.type = "apply"
    /\ \E o \in Outcomes(kind[t.snap.head]) :
          /\ live' = live \cup IF o.writes THEN {t.snap.head} ELSE {}
          /\ hist' = [hist EXCEPT !.full = @ \cup IF o.success /\ o.writes
                                                  THEN {t.snap.head} ELSE {}]
          /\ Becomes(t, [t EXCEPT !.step = "save",
                                  !.args.apply = StatusAfter(o.success, t.found.manual)])
    /\ UNCHANGED <<gh, branch, kind, doc, announced, count>>

\* Mutant: a pull request that is not merged may be marked as done.
MayCompleteUnmerged(t) ==
    /\ doc # NoDoc
    /\ doc.apply # "completed"
    /\ IsAdmin(t.by)

\* CompletePullRequestTask: the checks of _pre_execute.
MayComplete(t) ==
    /\ doc # NoDoc
    /\ doc.status = "merged"
    /\ doc.apply # "completed"
    /\ IsAdmin(t.by)

CheckDone(t) ==
    /\ t.step = "find"
    /\ t.type = "done"
    /\ IF MayComplete(t)
       THEN Becomes(t, [t EXCEPT !.step = "save", !.found = doc, !.args.apply = "completed"])
       ELSE Ends(t)
    /\ UNCHANGED <<gh, branch, kind, doc, live, announced, count, hist>>

\* update_pull_request of both: only apply_status was assigned.
SaveApplyStatus(t) ==
    /\ t.step = "save"
    /\ t.type \in {"apply", "done"}
    /\ doc' = [doc EXCEPT !.apply = t.args.apply]
    /\ Ends(t)
    /\ hist' = [hist EXCEPT !.done = @ \/ t.type = "done"]
    /\ UNCHANGED <<gh, branch, kind, live, announced, count>>

\* A call of a task raises: the task ends.  An apply task sets its status to
\* FAILED but does not save it.
Raise(t) ==
    /\ count.failures < MaxFailures
    /\ count' = [count EXCEPT !.failures = @ + 1]
    /\ Ends(t)
    /\ hist' = [hist EXCEPT !.failed = @ \/ t.type = "apply"]
    /\ UNCHANGED <<gh, branch, kind, doc, live, announced>>

\* Background tasks live in memory only.
Restart ==
    /\ count.restarts < MaxRestarts
    /\ tasks # {}
    /\ tasks' = {}
    /\ count' = [count EXCEPT !.restarts = @ + 1]
    /\ UNCHANGED <<gh, branch, kind, doc, live, announced, hist>>

-----------------------------------------------------------------------------
User == \/ Push \/ Close \/ Reopen \/ ToggleDraft \/ Review \/ MergeByUser \/ Request

TaskStep(t) ==
    \/ FetchPullRequest(t) \/ FetchAuthor(t) \/ ReadReviews(t) \/ ReadConfig(t)
    \/ Find(t) \/ Save(t) \/ LookForComment(t) \/ AddComment(t)
    \/ CheckMerge(t) \/ MergeByTask(t)
    \/ CheckApply(t) \/ ApplyChanges(t) \/ CheckDone(t) \/ SaveApplyStatus(t)

Work == \E t \in tasks : TaskStep(t)

Next == User \/ Work \/ Restart \/ \E t \in tasks : Raise(t)

Spec == Init /\ [][Next]_vars

\* The event loop keeps running the tasks it has; users owe nothing.
FairSpec == Spec /\ WF_vars(Work)

-----------------------------------------------------------------------------
\* The values of the variables.
TypeOK ==
    /\ gh \in [status : Status, draft : BOOLEAN, head : Heads, merged : 0 .. MaxHead,
               approved : BOOLEAN]
    /\ branch \in Heads
    /\ kind \in [Heads -> Kinds \cup {"none"}]
    /\ doc \in Doc \cup {NoDoc}
    /\ tasks \subseteq Task
    /\ live \subseteq Heads
    /\ announced \in Nat
    /\ count \in [events : Nat, lost : Nat, restarts : Nat, failures : Nat]
    /\ hist \in [checked : SUBSET Heads, approved : BOOLEAN,
                 mergedBy : {"none", "user", "bot"}, full : SUBSET Heads,
                 done : BOOLEAN, imported : BOOLEAN, quiet : BOOLEAN, failed : BOOLEAN]

\* No record says that changes were applied while the pull request is not merged.
CompletedOnlyIfMerged ==
    doc # NoDoc /\ doc.apply # "not_applied" => gh.status = "merged"

\* Settings reach the live organization from the merge commit only, whatever is
\* pushed to the branch before or after the merge.
LiveOnlyFromMergeCommit ==
    live \subseteq {gh.merged}

\* The bot merges, and offers to merge, only a pull request of which it has seen
\* a commit that qualifies, and whose author may merge or a project lead approved.
\* (Not that this commit is the one merged: it may have been pushed over.)
BotNeedsEvidence ==
    hist.mergedBy = "bot" \/ announced > 0 =>
        /\ \E h \in hist.checked : kind[h] \in {"clean", "noop"}
        /\ AuthorRole = "lead" \/ hist.approved

\* Nothing is applied that was not announced as valid by some validation.
LiveNeedsValidation ==
    live # {} => \E h \in hist.checked : kind[h] \notin {"invalid", "broken"}

\* A pull request counts as completed because its merge commit was applied, an
\* admin said so, or it was merged when it was imported; or because its merge
\* commit is invalid and there was nothing to apply.
CompletedIsAccountedFor ==
    doc # NoDoc /\ doc.apply = "completed" =>
        \/ gh.merged \in hist.full
        \/ hist.done
        \/ hist.imported
        \/ kind[gh.merged] = "invalid"

\* If the merge finds no task in flight and a record that says valid, and its
\* event arrives, the changes are applied, or at least an attempt has failed.
QuietMergeIsApplied ==
    hist.quiet ~> \/ doc # NoDoc /\ doc.apply # "not_applied"
                  \/ hist.failed
                  \/ count.restarts > 0
                  \/ doc # NoDoc /\ doc.valid # "yes"

-----------------------------------------------------------------------------
\* The record and the live organization follow MergeThenApply.
Promise == INSTANCE MergeThenApply WITH
             Commits  <- Heads,
             merged   <- gh.merged,
             written  <- live,
             recorded <- doc # NoDoc /\ doc.apply # "not_applied"

ImplementsMergeThenApply == Promise!Spec
=============================================================================
